---------------------------- MODULE SdwEnumeration ----------------------------
(***************************************************************************)
(* Enumeration of the Slaves of one link: the status interrupt and its     *)
(* work item in soundwire/cadence_master.c, the status handler of          *)
(* soundwire/bus.c that hands out device numbers and tracks Slave status,  *)
(* the bus reset of the power management in soundwire/intel.c, and the     *)
(* resume of a codec driver (soc/codecs/rt711-sdw.c) that waits for it.    *)
(*                                                                         *)
(* The work item runs concurrently with the bus (devices attach, drop off  *)
(* and alert), with power management and with the codecs.  Its steps are   *)
(* cut where another of them can get in between: at register reads, at     *)
(* transfers on the bus and between two sections under bus_lock.           *)
(*                                                                         *)
(* Hardware is modelled from its use: the status bits of a device number   *)
(* are sticky, set when the status seen in PING frames changes, and        *)
(* cleared by writing them back.                                           *)
(***************************************************************************)
EXTENDS Integers, FiniteSets

CONSTANTS
  Device,
  Stranger,     \* devices on the bus without an entry in bus->slaves
  MaxDevices,   \* SDW_MAX_DEVICES
  Events        \* what may happen besides devices attaching

EventKinds == {"drop",      \* a device drops off the bus
               "alert",     \* a device raises an alert
               "reset",     \* power management tears the bus down
               "midwork",   \* ... also while the work item is running
               "power",     \* ... and its power sequences may fail
               "io",        \* a transfer may fail
               "notify"}    \* update_status of a Slave driver may fail

ASSUME EnumAssumption ==
  /\ Stranger \subseteq Device /\ Stranger # Device
  /\ MaxDevices \in Nat \ {0}
  /\ Events \subseteq EventKinds

VARIABLES
  link,                     \* cdns->link_up, and the link powered
  at,                       \* device number a device answers to
  alert,                    \* device has an interrupt pending
  armed,                    \* device has its interrupts enabled
  intstat,                  \* sticky <<number, status>> bits
  unmasked,                 \* CDNS_MCP_INT_SLAVE_MASK set in INTMASK
  work,                     \* cdns->work is queued
  pc, ack, seen, cur, num, count, todo,   \* locals of the running work
  assigned,                 \* bus->assigned, bits 0 .. MaxDevices
  dev_num, dev_num_sticky, status, initialization_complete,
  unattach_request,         \* fields of struct sdw_slave
  codec, hw_init,           \* runtime PM state and hw_init of its driver
  owed                      \* history: not initialized since the bus reset
                            \* (see intel_suspend_runtime)

hwVars == <<link, at, alert, armed>>
irqVars == <<intstat, unmasked, work>>
workVars == <<pc, ack, seen, cur, num, count, todo>>
numVars == <<assigned, dev_num, dev_num_sticky>>
slaveVars == <<status, initialization_complete, unattach_request>>
codecVars == <<codec, hw_init>>
vars == <<hwVars, irqVars, workVars, numVars, slaveVars, codecVars, owed>>

Slave == Device \ Stranger
Off == -1
DevNum == 0 .. MaxDevices
Number == 1 .. MaxDevices
Status == {"UNATTACHED", "ATTACHED", "ALERT"}

\* The status of a device number in the PING frames (CDNS_MCP_SLAVE_STAT),
\* with the devices at a and their alerts l.
Ping(i, a, l) ==
  IF \E d \in Device : a[d] = i /\ l[d] THEN "ALERT"
  ELSE IF \E d \in Device : a[d] = i THEN "ATTACHED"
  ELSE "UNATTACHED"

\* What a change on the bus to a and l adds to the sticky bits.
Reported(a, l) ==
  {<<i, Ping(i, a, l)>> : i \in {j \in DevNum : Ping(j, a, l) # Ping(j, at, alert)}}

\* The value of cur when no work item is running.
Nobody == CHOOSE d \in Slave : TRUE

\* sdw_get_slave: the Slave entry with this device number, if any.
sdw_get_slave(i) == {d \in Slave : i \in assigned /\ dev_num[d] = i}

-------------------------------------------------------------------------------
(* Devices on the bus *)

Attach(d) ==
  /\ link = "up" /\ at[d] = Off
  /\ at' = [at EXCEPT ![d] = 0]
  /\ intstat' = intstat \cup Reported(at', alert)
  /\ UNCHANGED <<link, alert, armed, unmasked, work, workVars, numVars,
                 slaveVars, codecVars, owed>>

Drop(d) ==
  /\ "drop" \in Events
  /\ at[d] # Off
  /\ at' = [at EXCEPT ![d] = Off]
  /\ alert' = [alert EXCEPT ![d] = FALSE]
  /\ armed' = [armed EXCEPT ![d] = FALSE]
  /\ intstat' = intstat \cup Reported(at', alert')
  /\ UNCHANGED <<link, unmasked, work, workVars, numVars, slaveVars,
                 codecVars, owed>>

Alert(d) ==
  /\ "alert" \in Events
  /\ armed[d] /\ ~alert[d]
  /\ alert' = [alert EXCEPT ![d] = TRUE]
  /\ intstat' = intstat \cup Reported(at, alert')
  /\ UNCHANGED <<link, at, armed, unmasked, work, workVars, numVars,
                 slaveVars, codecVars, owed>>

-------------------------------------------------------------------------------
(* The interrupt and the work item, up to the status array *)

\* The interrupt masks itself and queues the work.
sdw_cdns_irq ==
  /\ link = "up" /\ unmasked /\ intstat # {}
  /\ unmasked' = FALSE
  /\ work' = TRUE
  /\ UNCHANGED <<hwVars, intstat, workVars, numVars, slaveVars, codecVars,
                 owed>>

cdns_update_slave_status_work ==
  /\ pc = "idle" /\ work
  /\ work' = FALSE
  /\ ack' = intstat
  /\ pc' = IF intstat = {} THEN "ack" ELSE "combine"
  /\ UNCHANGED <<hwVars, intstat, unmasked, seen, cur, num, count, todo,
                 numVars, slaveVars, codecVars, owed>>

\* The status of a number that reported nothing stays zero, UNATTACHED; one
\* that reported several takes the latest from the PING frames.
StatusOf(i) ==
  LET bits == {b \in ack : b[1] = i}
  IN  IF bits = {} THEN "UNATTACHED"
      ELSE IF Cardinality(bits) > 1 THEN Ping(i, at, alert)
      ELSE (CHOOSE b \in bits : TRUE)[2]

cdns_update_slave_status ==
  /\ pc = "combine"
  /\ seen' = [i \in DevNum |-> StatusOf(i)]
  /\ pc' = "fell"
  /\ UNCHANGED <<hwVars, irqVars, ack, cur, num, count, todo, numVars,
                 slaveVars, codecVars, owed>>

\* Variant: every bit is cleared.
Acked_all == DevNum \X Status
\* The bits that are written back: the ones that were read.
Acked == ack

\* Clear what was read and unmask; the locals are gone.
Acknowledge ==
  /\ pc = "ack"
  /\ intstat' = intstat \ Acked
  /\ unmasked' = TRUE
  /\ pc' = "idle" /\ ack' = {} /\ seen' = [i \in DevNum |-> "UNATTACHED"]
  /\ cur' = Nobody /\ num' = 0 /\ count' = 0 /\ todo' = {}
  /\ UNCHANGED <<hwVars, work, numVars, slaveVars, codecVars, owed>>

-------------------------------------------------------------------------------
(* sdw_handle_slave_status: Slaves that fell off, device numbers *)

\* The Slaves of D move to UNATTACHED, which re-arms their completion.
Unattached(D) ==
  LET G == {d \in D : status[d] # "UNATTACHED"}
  IN  /\ status' = [d \in Slave |-> IF d \in G THEN "UNATTACHED" ELSE status[d]]
      /\ initialization_complete' =
           [d \in Slave |-> IF d \in G THEN 0 ELSE initialization_complete[d]]

FellOff == UNION {sdw_get_slave(i) : i \in {j \in Number : seen[j] = "UNATTACHED"}}

\* Variant: numbers are given only when no Slave fell off.
FirstLoop_else ==
  /\ pc = "fell"
  /\ Unattached(FellOff)
  /\ IF seen[0] = "ATTACHED" /\ FellOff = {}
     THEN pc' = "devid" /\ count' = 0 /\ UNCHANGED todo
     ELSE pc' = "status" /\ todo' = Number /\ UNCHANGED count
  /\ UNCHANGED <<hwVars, irqVars, ack, seen, cur, num, numVars,
                 unattach_request, codecVars, owed>>

FirstLoop ==
  /\ pc = "fell"
  /\ Unattached(FellOff)
  /\ IF seen[0] = "ATTACHED"
     THEN pc' = "devid" /\ count' = 0 /\ UNCHANGED todo
     ELSE pc' = "status" /\ todo' = Number /\ UNCHANGED count
  /\ UNCHANGED <<hwVars, irqVars, ack, seen, cur, num, numVars,
                 unattach_request, codecVars, owed>>

\* sdw_program_device_num leaves its loop.
EndOfIds ==
  /\ pc = "devid"
  /\ \/ link = "up" /\ \A d \in Device : at[d] # 0
     \/ link = "down" \/ "io" \in Events
  /\ pc' = "ack"
  /\ UNCHANGED <<hwVars, irqVars, ack, seen, cur, num, count, todo, numVars,
                 slaveVars, codecVars, owed>>

\* One more turn of the loop, up to twice the bound.
Again(n) == IF n < 2 * MaxDevices THEN "devid" ELSE "ack"

NotFound(d) ==
  /\ pc = "devid" /\ link = "up" /\ at[d] = 0
  /\ d \in Stranger
  /\ count' = count + 1
  /\ pc' = Again(count + 1)
  /\ UNCHANGED <<hwVars, irqVars, ack, seen, cur, num, todo, numVars,
                 slaveVars, codecVars, owed>>

\* Variant: the bit is not set.
Taken_unset(b) == assigned
Taken(b) == assigned \cup {b}

\* sdw_get_device_num: find_first_zero_bit over SDW_MAX_DEVICES bits.
FirstZeroBit(b) == /\ b \in 0 .. (MaxDevices - 1)
                   /\ b \notin assigned
                   /\ \A c \in 0 .. (b - 1) : c \in assigned

\* The number a Slave already has, zero if none.
Reused(d) == IF dev_num[d] # 0 THEN dev_num[d] ELSE dev_num_sticky[d]

\* A known Slave answered: reuse its number or take a new one, then clear
\* dev_num so that the write goes to device 0.
sdw_assign_device_num(d) ==
  /\ pc = "devid" /\ link = "up" /\ at[d] = 0
  /\ d \in Slave
  /\ IF Reused(d) # 0
     THEN /\ num' = Reused(d)
          /\ UNCHANGED <<assigned, dev_num_sticky>>
     ELSE \E b \in DevNum :
            /\ FirstZeroBit(b)
            /\ num' = b
            /\ assigned' = Taken(b)
            /\ dev_num_sticky' = [dev_num_sticky EXCEPT ![d] = b]
  /\ dev_num' = [dev_num EXCEPT ![d] = 0]
  /\ cur' = d
  /\ pc' = "write"
  /\ UNCHANGED <<hwVars, irqVars, ack, seen, count, todo, slaveVars,
                 codecVars, owed>>

\* No number is left: sdw_program_device_num gives up.
NoNumber(d) ==
  /\ pc = "devid" /\ link = "up" /\ at[d] = 0
  /\ d \in Slave /\ Reused(d) = 0
  /\ ~ \E b \in DevNum : FirstZeroBit(b)
  /\ pc' = "ack"
  /\ UNCHANGED <<hwVars, irqVars, ack, seen, cur, num, count, todo, numVars,
                 slaveVars, codecVars, owed>>

WriteDevNumber ==
  /\ pc = "write" /\ link = "up" /\ at[cur] = 0
  /\ at' = [at EXCEPT ![cur] = num]
  /\ intstat' = intstat \cup Reported(at', alert)
  /\ dev_num' = [dev_num EXCEPT ![cur] = dev_num_sticky[cur]]
  /\ count' = count + 1
  /\ pc' = Again(count + 1)
  /\ UNCHANGED <<link, alert, armed, unmasked, work, ack, seen, cur, num, todo,
                 assigned, dev_num_sticky, slaveVars, codecVars, owed>>

\* A failed write leaves dev_num zero and the other devices on 0.
WriteDevNumberErr ==
  /\ pc = "write"
  /\ link = "down" \/ at[cur] # 0 \/ "io" \in Events
  /\ pc' = "ack"
  /\ UNCHANGED <<hwVars, irqVars, ack, seen, cur, num, count, todo, numVars,
                 slaveVars, codecVars, owed>>

-------------------------------------------------------------------------------
(* sdw_handle_slave_status: the other Slaves, in the order of numbers *)

\* d is the next Slave of the loop.
NextSlave(d) ==
  /\ pc = "status"
  /\ dev_num[d] \in todo
  /\ d \in sdw_get_slave(dev_num[d])
  /\ \A e \in Slave :
       dev_num[e] \in todo /\ e \in sdw_get_slave(dev_num[e]) => dev_num[d] <= dev_num[e]

\* Take d out of the loop, with i the next number to look at.
Handled(d) == todo' = {i \in todo : i > dev_num[d]}

EndOfSlaves ==
  /\ pc = "status"
  /\ \A i \in todo : sdw_get_slave(i) = {}
  /\ pc' = "ack"
  /\ UNCHANGED <<hwVars, irqVars, ack, seen, cur, num, count, todo, numVars,
                 slaveVars, codecVars, owed>>

\* update_status of the Slave driver (rt711_update_status), told s.
UpdateStatus(d, s) ==
  \/ hw_init' = [hw_init EXCEPT ![d] = s # "UNATTACHED" /\ (@ \/ s = "ATTACHED")]
  \/ "notify" \in Events /\ hw_init' = [hw_init EXCEPT ![d] = s # "UNATTACHED" /\ @]
  \/ "notify" \in Events /\ UNCHANGED hw_init

SlaveGone(d) ==
  /\ NextSlave(d) /\ seen[dev_num[d]] = "UNATTACHED"
  /\ Unattached({d})
  /\ UpdateStatus(d, "UNATTACHED")
  /\ Handled(d)
  /\ UNCHANGED <<hwVars, irqVars, pc, ack, seen, cur, num, count, numVars,
                 unattach_request, codec, owed>>

\* ATTACHED after ALERT, or once more.
SlaveStill(d) ==
  /\ NextSlave(d) /\ seen[dev_num[d]] = "ATTACHED"
  /\ status[d] # "UNATTACHED"
  /\ status' = [status EXCEPT ![d] = "ATTACHED"]
  /\ UpdateStatus(d, "ATTACHED")
  /\ Handled(d)
  /\ UNCHANGED <<hwVars, irqVars, pc, ack, seen, cur, num, count, numVars,
                 initialization_complete, unattach_request, codec, owed>>

\* ATTACHED after UNATTACHED: sdw_initialize_slave enables the interrupts.
SlaveAttached(d) ==
  /\ NextSlave(d) /\ seen[dev_num[d]] = "ATTACHED"
  /\ status[d] = "UNATTACHED"
  /\ status' = [status EXCEPT ![d] = "ATTACHED"]
  /\ \/ /\ at[d] = dev_num[d]
        /\ armed' = [armed EXCEPT ![d] = TRUE]
        /\ owed' = [owed EXCEPT ![d] = FALSE]
     \/ /\ at[d] # dev_num[d] \/ "io" \in Events
        /\ UNCHANGED <<armed, owed>>
  /\ cur' = d
  /\ pc' = "complete"
  /\ UNCHANGED <<link, at, alert, irqVars, ack, seen, num, count, todo,
                 numVars, initialization_complete, unattach_request,
                 codecVars>>

\* ... and whoever waits for the initialization may go on.
Complete ==
  /\ pc = "complete"
  /\ UpdateStatus(cur, "ATTACHED")
  /\ initialization_complete' = [initialization_complete EXCEPT ![cur] = @ + 1]
  /\ Handled(cur)
  /\ pc' = "status"
  /\ UNCHANGED <<hwVars, irqVars, ack, seen, cur, num, count, numVars,
                 status, unattach_request, codec, owed>>

-------------------------------------------------------------------------------
(* Codec drivers and alerts *)

\* A codec resume that has nothing to wait for.
MayResume(d) == ~hw_init[d] \/ ~unattach_request[d]

CodecResume(d) ==
  /\ link = "up" /\ codec[d] = "suspended"
  /\ IF MayResume(d)
     THEN /\ codec' = [codec EXCEPT ![d] = "active"]
          /\ unattach_request' = [unattach_request EXCEPT ![d] = @ /\ ~hw_init[d]]
     ELSE codec' = [codec EXCEPT ![d] = "resuming"] /\ UNCHANGED unattach_request
  /\ UNCHANGED <<hwVars, irqVars, workVars, numVars, status,
                 initialization_complete, hw_init, owed>>

\* Variant: the codec does not wait.
Initialized_unchecked(d) == TRUE
Initialized(d) == initialization_complete[d] > 0

CodecResumed(d) ==
  /\ codec[d] = "resuming" /\ Initialized(d)
  /\ initialization_complete' = [initialization_complete EXCEPT ![d] = @ - 1]
  /\ unattach_request' = [unattach_request EXCEPT ![d] = FALSE]
  /\ codec' = [codec EXCEPT ![d] = "active"]
  /\ UNCHANGED <<hwVars, irqVars, workVars, numVars, status, hw_init, owed>>

CodecTimeout(d) ==
  /\ codec[d] = "resuming" /\ initialization_complete[d] = 0
  /\ codec' = [codec EXCEPT ![d] = "suspended"]
  /\ UNCHANGED <<hwVars, irqVars, workVars, numVars, slaveVars, hw_init, owed>>

\* The resume a codec needs can only end with a completion that is not there.
Stuck(d) == ~MayResume(d) /\ initialization_complete[d] = 0

\* sdw_handle_slave_alerts: pm_runtime_get_sync resumes the codec, then the
\* alert is serviced or a transfer fails.
SlaveAlert(d) ==
  /\ NextSlave(d) /\ seen[dev_num[d]] = "ALERT"
  /\ link = "up" /\ (codec[d] # "active" => ~Stuck(d))
  /\ status' = [status EXCEPT ![d] = "ALERT"]
  /\ IF codec[d] = "active"
     THEN UNCHANGED <<codec, unattach_request, initialization_complete>>
     ELSE /\ codec' = [codec EXCEPT ![d] = "active"]
          /\ unattach_request' = [unattach_request EXCEPT ![d] = @ /\ ~hw_init[d]]
          /\ initialization_complete' =
               [initialization_complete EXCEPT ![d] = IF MayResume(d) THEN @ ELSE @ - 1]
  /\ UpdateStatus(d, "ALERT")
  /\ \/ at[d] = dev_num[d] /\ alert' = [alert EXCEPT ![d] = FALSE]
     \/ (at[d] # dev_num[d] \/ "io" \in Events) /\ UNCHANGED alert
  /\ intstat' = intstat \cup Reported(at, alert')
  /\ Handled(d)
  /\ UNCHANGED <<link, at, armed, unmasked, work, pc, ack, seen, cur, num,
                 count, numVars, owed>>

\* If the resume has to wait for an initialization, nobody is left to
\* complete it while the work item waits: the wait times out and the alert
\* is not serviced.
SlaveAlertStuck(d) ==
  /\ NextSlave(d) /\ seen[dev_num[d]] = "ALERT"
  /\ codec[d] # "active" /\ (link = "down" \/ Stuck(d))
  /\ status' = [status EXCEPT ![d] = "ALERT"]
  /\ UpdateStatus(d, "ALERT")
  /\ codec' = [codec EXCEPT ![d] = "suspended"]
  /\ Handled(d)
  /\ UNCHANGED <<hwVars, irqVars, pc, ack, seen, cur, num, count, numVars,
                 initialization_complete, unattach_request, owed>>

-------------------------------------------------------------------------------
(* Power management *)

\* sdw_cdns_enable_interrupt(false) and the link powered down, after the
\* codecs; the running work item is not waited for.  A reset that overtakes it
\* leaves stale reports and completions behind, and takes the Slaves out of owed
\* until they are initialized again.
intel_suspend_runtime ==
  /\ "reset" \in Events
  /\ link = "up" /\ \A d \in Slave : codec[d] # "resuming"
  /\ "midwork" \in Events \/ (pc = "idle" /\ ~work)
  /\ unmasked' = FALSE
  /\ codec' = [d \in Slave |-> "suspended"]
  /\ \/ /\ link' = "down"
        /\ at' = [d \in Device |-> Off]
        /\ alert' = [d \in Device |-> FALSE]
        /\ armed' = [d \in Device |-> FALSE]
        /\ owed' = [d \in Slave |->
                      pc = "idle" /\ ~work /\ (owed[d] \/ armed[d])]
     \/ "power" \in Events /\ UNCHANGED <<hwVars, owed>>
  /\ UNCHANGED <<intstat, work, workVars, numVars, slaveVars, hw_init>>

\* Variant: the reason of the reset is not recorded.
Requested_none(D) == unattach_request
Requested(D) == [d \in Slave |-> d \in D \/ unattach_request[d]]

\* sdw_clear_slave_status, the interrupts enabled with their old status
\* cleared, and the bus taken out of reset.
intel_resume_runtime ==
  /\ link = "down"
  /\ LET D == UNION {sdw_get_slave(i) : i \in Number}
     IN  /\ Unattached(D)
         /\ unattach_request' = Requested(D)
  /\ intstat' = {}
  /\ unmasked' = TRUE
  /\ \/ link' = "up"
     \/ "power" \in Events /\ UNCHANGED link
  /\ UNCHANGED <<at, alert, armed, work, workVars, numVars, codecVars, owed>>

-------------------------------------------------------------------------------
Init ==
  /\ link = "up" /\ at = [d \in Device |-> Off]
  /\ alert = [d \in Device |-> FALSE] /\ armed = [d \in Device |-> FALSE]
  /\ intstat = {} /\ unmasked = TRUE /\ work = FALSE
  /\ pc = "idle" /\ ack = {} /\ seen = [i \in DevNum |-> "UNATTACHED"]
  /\ cur = Nobody /\ num = 0 /\ count = 0 /\ todo = {}
  /\ assigned = {0}
  /\ dev_num = [d \in Slave |-> 0] /\ dev_num_sticky = [d \in Slave |-> 0]
  /\ status = [d \in Slave |-> "UNATTACHED"]
  /\ initialization_complete = [d \in Slave |-> 0]
  /\ unattach_request = [d \in Slave |-> FALSE]
  /\ codec = [d \in Slave |-> "active"] /\ hw_init = [d \in Slave |-> FALSE]
  /\ owed = [d \in Slave |-> TRUE]

Bus == \E d \in Device : Attach(d) \/ Drop(d) \/ Alert(d)

Work ==
  \/ cdns_update_slave_status_work \/ cdns_update_slave_status \/ Acknowledge
  \/ FirstLoop \/ EndOfIds \/ WriteDevNumber \/ WriteDevNumberErr
  \/ EndOfSlaves \/ Complete
  \/ \E d \in Device : NotFound(d)
  \/ \E d \in Slave : \/ sdw_assign_device_num(d) \/ NoNumber(d)
                      \/ SlaveGone(d) \/ SlaveStill(d) \/ SlaveAttached(d)
                      \/ SlaveAlert(d) \/ SlaveAlertStuck(d)

Codecs == \E d \in Slave : CodecResume(d) \/ CodecResumed(d) \/ CodecTimeout(d)

Power == intel_suspend_runtime \/ intel_resume_runtime

Next == Bus \/ sdw_cdns_irq \/ Work \/ Codecs \/ Power

Spec == Init /\ [][Next]_vars

\* An unmasked interrupt fires, and a queued work item is run and goes on until
\* it ends.  Nothing is assumed of devices, power management and codecs.
FairSpec == Spec /\ WF_vars(sdw_cdns_irq) /\ WF_vars(Work)

-------------------------------------------------------------------------------
\* Every variable stays in its type: among them, initialization_complete, whose
\* count a waiting resume takes down only if it was signalled.
TypeOK ==
  /\ link \in {"up", "down"}
  /\ at \in [Device -> {Off} \cup DevNum]
  /\ alert \in [Device -> BOOLEAN] /\ armed \in [Device -> BOOLEAN]
  /\ intstat \subseteq DevNum \X Status
  /\ unmasked \in BOOLEAN /\ work \in BOOLEAN
  /\ pc \in {"idle", "combine", "fell", "devid", "write", "status", "complete", "ack"}
  /\ ack \subseteq DevNum \X Status
  /\ seen \in [DevNum -> Status]
  /\ cur \in Slave /\ num \in DevNum /\ count \in Nat /\ todo \subseteq Number
  /\ assigned \subseteq DevNum
  /\ dev_num \in [Slave -> DevNum] /\ dev_num_sticky \in [Slave -> DevNum]
  /\ status \in [Slave -> Status]
  /\ initialization_complete \in [Slave -> Nat]
  /\ unattach_request \in [Slave -> BOOLEAN]
  /\ codec \in [Slave -> {"active", "suspended", "resuming"}]
  /\ hw_init \in [Slave -> BOOLEAN] /\ owed \in [Slave -> BOOLEAN]

\* A message sent to the dev_num of a Slave entry reaches the device of that
\* entry or none: no two devices on the bus answer to one number and no two
\* entries share one, whatever drops off, fails or is reset while
\* sdw_assign_device_num is between its read and its write.
RightAddressee ==
  /\ \A d \in Slave, e \in Device : dev_num[d] # 0 /\ at[e] = dev_num[d] => e = d
  /\ \A d, e \in Device : at[d] \in Number /\ at[d] = at[e] => d = e
  /\ \A d, e \in Slave : dev_num[d] # 0 /\ dev_num[d] = dev_num[e] => d = e

\* A codec that resumes after the Master reset the bus finds its Slave
\* enumerated and initialized again (the purpose of unattach_request).  Excepted
\* is a Slave whose bus was reset under a running work item, until it is
\* initialized the next time.
ResumedIsInitialized ==
  [][\A d \in Slave : codec[d] # "active" /\ codec'[d] = "active" /\ hw_init[d]
                        => ~owed[d]]_vars

\* A device that shows up as device 0 is given a number, or leaves; with the same
\* exception, for the overtaken work item writes back what it has not handled.
Numbered == \A d \in Slave : at[d] = 0 /\ owed[d] ~> at[d] # 0

\* A device that got its number is noticed: its Slave leaves UNATTACHED, or
\* the device leaves.
Noticed ==
  \A d \in Slave : at[d] \in Number ~> status[d] # "UNATTACHED" \/ at[d] \notin Number
===============================================================================
