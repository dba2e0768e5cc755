------------------------------- MODULE SdwAlert -------------------------------
(***************************************************************************)
(* How the interrupts of one Slave are serviced, next to a stream that     *)
(* prepares a port of that Slave and waits for one of them.                *)
(*                                                                         *)
(*  - soundwire/bus.c: sdw_handle_slave_alerts, sdw_handle_port_interrupt  *)
(*    and sdw_handle_dp0_interrupt, called by the status work item         *)
(*  - soundwire/cadence_master.c: the work item, which calls the handler   *)
(*    for a report of the Slave and then writes the report back            *)
(*  - soundwire/stream.c: sdw_prep_deprep_slave_ports, called with         *)
(*    bus_lock held                                                        *)
(*                                                                         *)
(* The Slave raises interrupts at any moment, so each register access is a *)
(* step of its own.  Only interrupts that are unmasked are modelled.  As   *)
(* in SdwEnumeration, the report of an alert is sticky and is set when the *)
(* status of the Slave changes to ALERT, not while it stays there.         *)
(***************************************************************************)
EXTENDS Integers, FiniteSets

CONSTANTS
  Port,              \* the ports of the Slave that raise interrupts
  CpPort,            \* the port with a channel prepare state machine
  ChMask,            \* the channels the stream uses on it, bit numbers
  Retry,             \* SDW_READ_INTR_CLEAR_RETRY
  MaxRaise,          \* bound on the interrupts the Slave raises
  MaxPrep,           \* bound on the calls that prepare or deprepare
  MaxFail            \* bound on the accesses and resumes that fail

\* The bits of the three status registers: the number of a port stands for the
\* bit of that port, the others have numbers of their own.  BUS_CLASH stands
\* for the parity interrupt as well, which is treated alike.
SCP2_CASCADE == 15
SCP3_CASCADE == 16
BUS_CLASH == 17
IMPL_DEF == 18
Scp == {BUS_CLASH, IMPL_DEF}

\* The interrupts of a port.  impdef stands for every one but PORT_READY; they
\* are all cleared and nothing more.
DpKinds == {"ready", "impdef"}

ASSUME AlertAssumption ==
  /\ Port \subseteq 0..14 /\ CpPort \in Port
  /\ ChMask \subseteq 0..7 /\ ChMask # {}
  /\ Retry \in Nat \ {0}
  /\ MaxRaise \in Nat /\ MaxPrep \in Nat /\ MaxFail \in Nat

VARIABLES
  scp,               \* the pending interrupts among Scp
  dp,                \* the pending interrupts of each port
  busy,              \* the prepare state machine of CpPort has not finished
  intr,              \* CpPort has its interrupts enabled
  alerted,           \* the ALERT bit of the Slave in SLAVE_INTSTAT
  raises, fails,     \* how often the Slave and the faults have struck
  work,              \* where sdw_handle_slave_alerts is
  buf, buf2, buf_,   \* its copies of INT1 and of INTSTAT2 and INTSTAT3
  clear, notify,     \* clear, slave_notify
  count,
  todo,              \* bits of ports that are still to be handled this round
  status, pclear,    \* status, clear and count of sdw_handle_port_interrupt
  pcount,
  first,             \* history: the interrupts found on entry, those of
  again, missed,     \*   them raised again, and given up, since,
  told,              \*   and whether the driver was called
  usage,             \* the usage counts of the Slave and of the bus device
  port_ready,        \* the counter of the completion of CpPort
  prep,              \* where sdw_prep_deprep_slave_ports is
  prepare,           \* its argument prep: prepare or deprepare
  time_left,         \* its wait was ended by the completion
  preps,
  ret0               \* its last call returned 0

device == <<scp, dp, busy, intr, alerted, raises>>
locals == <<buf, buf2, buf_, clear, notify, count>>
history == <<first, again, missed, told>>
loop == <<locals, history>>
portloop == <<todo, status, pclear, pcount>>
caller == <<prep, prepare, time_left, preps, ret0>>
vars == <<device, fails, work, loop, portloop, usage, port_ready, caller>>

\* The local variables have the types of those of the two functions.
TypeOK ==
  /\ scp \subseteq Scp
  /\ dp \in [0..14 -> SUBSET DpKinds]
  /\ busy \in BOOLEAN /\ intr \in BOOLEAN /\ alerted \in BOOLEAN
  /\ raises \in 0..MaxRaise /\ fails \in 0..MaxFail
  /\ work \in {"idle", "int1", "int23", "ports", "port_write", "port_reread",
               "ack", "reint1", "reint23", "return"}
  /\ buf \subseteq 0..18 /\ buf2 \subseteq 0..18 /\ buf_ \subseteq 0..18
  /\ clear \subseteq Scp /\ notify \in BOOLEAN /\ count \in 0..Retry
  /\ todo \subseteq 0..14
  /\ status \subseteq DpKinds /\ pclear \subseteq DpKinds
  /\ pcount \in 0..Retry
  /\ first \subseteq 0..18 /\ again \subseteq 0..18
  /\ missed \subseteq 0..14 /\ told \in BOOLEAN
  /\ usage \in [slave : 0..MaxFail + 1, bus : -MaxFail..0]
  /\ port_ready \in Nat
  /\ prep \in {"idle", "ctrl", "wait", "status", "disable"}
  /\ prepare \in BOOLEAN /\ time_left \in BOOLEAN
  /\ preps \in 0..MaxPrep /\ ret0 \in BOOLEAN

Init ==
  /\ scp = {} /\ dp = [p \in 0..14 |-> {}] /\ busy = FALSE
  /\ intr = FALSE /\ alerted = FALSE
  /\ raises = 0 /\ fails = 0
  /\ work = "idle"
  /\ buf = {} /\ buf2 = {} /\ buf_ = {} /\ clear = {} /\ notify = FALSE
  /\ count = 0 /\ todo = {} /\ status = {} /\ pclear = {} /\ pcount = 0
  /\ first = {} /\ again = {} /\ missed = {} /\ told = FALSE
  /\ usage = [slave |-> 0, bus |-> 0]
  /\ port_ready = 0
  /\ prep = "idle" /\ prepare = FALSE /\ time_left = FALSE /\ preps = 0
  /\ ret0 = FALSE

-----------------------------------------------------------------------------
(* The Slave. *)

Pending(P) == \E p \in P : dp[p] # {}

\* What a read of SDW_SCP_INT1, and one of INTSTAT2 and INTSTAT3, returns.
Int1 ==
  scp \cup {p \in 0..3 : dp[p] # {}}
      \cup (IF Pending(4..14) THEN {SCP2_CASCADE} ELSE {})

Int23 ==
  {p \in 4..14 : dp[p] # {}}
      \cup (IF Pending(11..14) THEN {SCP3_CASCADE} ELSE {})

\* The status of the Slave in the PING frames is ALERT while any is pending.
InAlert == scp # {} \/ Pending(0..14)

\* What raising the interrupt with number i leaves besides its status bit.
Raise(i) ==
  /\ alerted' = (alerted \/ ~InAlert)
  /\ again' = again \cup (first \cap {i})

RaiseScp(i) ==
  /\ raises < MaxRaise /\ i \notin scp
  /\ scp' = scp \cup {i}
  /\ Raise(i)
  /\ raises' = raises + 1
  /\ UNCHANGED <<dp, busy, intr, fails, work, locals, first, missed, told,
                 portloop, usage, port_ready, caller>>

RaisePort(p) ==
  /\ raises < MaxRaise /\ "impdef" \notin dp[p]
  /\ dp' = [dp EXCEPT ![p] = @ \cup {"impdef"}]
  /\ Raise(p)
  /\ raises' = raises + 1
  /\ UNCHANGED <<scp, busy, intr, fails, work, locals, first, missed, told,
                 portloop, usage, port_ready, caller>>

\* The prepare state machine finishes and raises PORT_READY, if enabled.
Finish ==
  /\ busy
  /\ busy' = FALSE
  /\ \/ /\ intr
        /\ dp' = [dp EXCEPT ![CpPort] = @ \cup {"ready"}]
        /\ Raise(CpPort)
     \/ ~intr /\ UNCHANGED <<dp, alerted, again>>
  /\ UNCHANGED <<scp, intr, raises, fails, work, locals, first, missed, told,
                 portloop, usage, port_ready, caller>>

-----------------------------------------------------------------------------
(* sdw_handle_slave_alerts. *)

Fail == fails < MaxFail /\ fails' = fails + 1

\* The work item finds the Slave reported in ALERT and takes bus_lock for a
\* moment to look at the assigned numbers before it calls the handler.
Alert ==
  /\ work = "idle" /\ alerted
  /\ prep = "idle"
  /\ usage' = [usage EXCEPT !.slave = @ + 1]
  /\ work' = "int1"
  /\ UNCHANGED <<device, fails, loop, portloop, port_ready, caller>>

\* The Slave does not resume: its count stays up, that of the bus is dropped.
Alert_pm ==
  /\ work = "idle" /\ alerted
  /\ prep = "idle"
  /\ Fail
  /\ usage' = [slave |-> usage.slave + 1, bus |-> usage.bus - 1]
  /\ work' = "return"
  /\ UNCHANGED <<device, loop, portloop, port_ready, caller>>

ReadInt1 ==
  /\ work = "int1"
  /\ buf' = Int1
  /\ work' = "int23"
  /\ UNCHANGED <<device, fails, buf2, buf_, clear, notify, count, history,
                 portloop, usage, port_ready, caller>>

\* The bits that the loops over the ports go through, in the order of their
\* numbers, and the port that the loop over a register makes of a bit.
Reported(b, b2) ==
  (b \cap 0..3)
    \cup (IF SCP2_CASCADE \in b THEN b2 \cap 4..10 ELSE {})
    \cup (IF SCP3_CASCADE \in b2 THEN b2 \cap 11..14 ELSE {})

port_num(p) == IF p <= 3 THEN p ELSE p - 1

\* Variant: the tests of the control port are an else-if chain.
Round_else(b, b2) ==
  LET one == IF BUS_CLASH \in b THEN {BUS_CLASH} ELSE b \cap Scp
  IN /\ clear' = clear \cup one
     /\ notify' = (notify \/ IMPL_DEF \in one)
     /\ todo' = Reported(b, b2)
     /\ work' = "ports"

\* Variant: everything that was read is cleared.
Round_all(b, b2) ==
  /\ clear' = clear \cup b
  /\ notify' = (notify \/ IMPL_DEF \in b)
  /\ todo' = Reported(b, b2)
  /\ work' = "ports"

\* The head of the loop: note what has to be cleared and which ports to visit.
Round(b, b2) ==
  /\ clear' = clear \cup (b \cap Scp)
  /\ notify' = (notify \/ IMPL_DEF \in b)
  /\ todo' = Reported(b, b2)
  /\ work' = "ports"

ReadInt23 ==
  /\ work = "int23"
  /\ buf2' = Int23
  /\ Round(buf, Int23)
  /\ first' = (buf \cap Scp) \cup Reported(buf, Int23)
  /\ UNCHANGED <<device, fails, buf, buf_, count, again, missed, told, status,
                 pclear, pcount, usage, port_ready, caller>>

This == CHOOSE p \in todo : \A q \in todo : p <= q

\* The body of the loop over the status of a port, up to its write.
ServePort(st) ==
  /\ status' = st
  /\ pclear' = pclear \cup st
  /\ port_ready' = IF "ready" \in st /\ port_num(This) = CpPort
                   THEN port_ready + 1 ELSE port_ready
  /\ work' = "port_write"

NextPort ==
  /\ todo' = todo \ {This}
  /\ status' = {} /\ pclear' = {} /\ pcount' = 0
  /\ work' = "ports"

ReadPort ==
  /\ work = "ports" /\ todo # {}
  /\ ServePort(dp[port_num(This)])
  /\ UNCHANGED <<device, fails, loop, todo, pcount, usage, caller>>

WritePort ==
  /\ work = "port_write"
  /\ dp' = [dp EXCEPT ![port_num(This)] = @ \ pclear]
  /\ work' = "port_reread"
  /\ UNCHANGED <<scp, busy, intr, alerted, raises, fails, loop, portloop, usage,
                 port_ready, caller>>

RereadPort ==
  /\ work = "port_reread"
  /\ LET st == status \cap dp[port_num(This)]
     IN \/ /\ st # {} /\ pcount + 1 < Retry
           /\ pcount' = pcount + 1
           /\ ServePort(st)
           /\ todo' = todo
        \/ /\ st = {} \/ pcount + 1 = Retry
           /\ NextPort
           /\ port_ready' = port_ready
  /\ UNCHANGED <<device, fails, loop, usage, caller>>

\* An access to the port fails: its handler returns, its caller goes on.
PortFails ==
  /\ work \in {"ports", "port_write", "port_reread"} /\ todo # {}
  /\ Fail
  /\ missed' = missed \cup (first \cap {port_num(This)})
  /\ NextPort
  /\ UNCHANGED <<device, locals, first, again, told, usage, port_ready, caller>>

\* All ports are done: tell the driver of an implementation-defined interrupt.
interrupt_callback ==
  /\ work = "ports" /\ todo = {}
  /\ told' = (told \/ notify)
  /\ work' = "ack"
  /\ UNCHANGED <<device, fails, locals, first, again, missed, portloop, usage,
                 port_ready, caller>>

Ack ==
  /\ work = "ack"
  /\ scp' = scp \ clear
  /\ work' = "reint1"
  /\ UNCHANGED <<dp, busy, intr, alerted, raises, fails, loop, portloop, usage,
                 port_ready, caller>>

RereadInt1 ==
  /\ work = "reint1"
  /\ buf_' = Int1
  /\ work' = "reint23"
  /\ UNCHANGED <<device, fails, buf, buf2, clear, notify, count, history,
                 portloop, usage, port_ready, caller>>

\* The handler returns and its local variables are gone.
Put ==
  /\ work' = "return"
  /\ usage' = [usage EXCEPT !.slave = @ - 1]
  /\ buf' = {} /\ buf2' = {} /\ buf_' = {} /\ clear' = {} /\ notify' = FALSE
  /\ count' = 0 /\ todo' = {}
  /\ first' = {} /\ again' = {} /\ missed' = {} /\ told' = FALSE

RereadInt23 ==
  /\ work = "reint23"
  /\ LET b == buf \cap buf_
         b2 == buf2 \cap Int23
     IN \/ /\ b \cup b2 # {} /\ count + 1 < Retry
           /\ buf' = b /\ buf2' = b2 /\ buf_' = {}
           /\ count' = count + 1
           /\ Round(b, b2)
           /\ UNCHANGED <<history, usage>>
        \/ /\ b \cup b2 = {} \/ count + 1 = Retry
           /\ Put
  /\ UNCHANGED <<device, fails, status, pclear, pcount, port_ready, caller>>

\* Variant: the error path returns at once.
io_err_leak ==
  /\ work \in {"int1", "int23", "ack", "reint1", "reint23"}
  /\ Fail
  /\ work' = "return"
  /\ UNCHANGED <<device, loop, portloop, usage, port_ready, caller>>

\* An access to INT1, INTSTAT2 or INTSTAT3 fails.
io_err ==
  /\ work \in {"int1", "int23", "ack", "reint1", "reint23"}
  /\ Fail
  /\ Put
  /\ UNCHANGED <<device, status, pclear, pcount, port_ready, caller>>

\* The work item writes the report back that it was called for.
WriteBack ==
  /\ work = "return"
  /\ alerted' = FALSE
  /\ work' = "idle"
  /\ UNCHANGED <<scp, dp, busy, intr, raises, fails, loop, portloop, usage,
                 port_ready, caller>>

-----------------------------------------------------------------------------
(* sdw_prep_deprep_slave_ports; bus_lock is held unless prep is idle. *)

\* A call, to prepare the port or to deprepare it.  A port that is prepared
\* gets its interrupts enabled before.
sdw_prep_deprep_slave_ports ==
  /\ prep = "idle" /\ preps < MaxPrep
  /\ preps' = preps + 1
  /\ ret0' = FALSE
  /\ \/ \E b \in BOOLEAN : /\ prepare' = b
                           /\ intr' = (intr \/ b)
                           /\ prep' = "ctrl" /\ fails' = fails
     \/ Fail /\ UNCHANGED <<intr, prep, prepare>>
  /\ UNCHANGED <<scp, dp, busy, alerted, raises, work, loop, portloop, usage,
                 port_ready, time_left>>

\* The write to PREPARECTRL starts the state machine, in either direction.
PrepareCtrl ==
  /\ prep = "ctrl"
  /\ \/ /\ busy' = TRUE /\ prep' = "wait"
        /\ UNCHANGED <<fails, prepare>>
     \/ /\ Fail
        /\ prep' = "idle" /\ prepare' = FALSE /\ UNCHANGED busy
  /\ UNCHANGED <<scp, dp, intr, alerted, raises, work, loop, portloop, usage,
                 port_ready, time_left, preps, ret0>>

Completed ==
  /\ prep = "wait" /\ port_ready > 0
  /\ port_ready' = port_ready - 1
  /\ time_left' = TRUE /\ prep' = "status"
  /\ UNCHANGED <<device, fails, work, loop, portloop, usage, prepare, preps, ret0>>

\* Variant: wait_for_completion.
TimedOut_never == FALSE /\ UNCHANGED vars

TimedOut ==
  /\ prep = "wait" /\ port_ready = 0
  /\ time_left' = FALSE /\ prep' = "status"
  /\ UNCHANGED <<device, fails, work, loop, portloop, usage, port_ready, prepare,
                 preps, ret0>>

\* The low byte of -EIO, of -ENODATA and of -ETIMEDOUT.
Errors == {{0, 1, 3, 4, 5, 6, 7}, {0, 1, 6, 7}, {1, 4, 7}}

\* Variant: the completion is enough.
Ready_left(val) == time_left

\* The call succeeds if the wait did not time out and no channel in use has a
\* bit in what the read of PREPARESTATUS returned, an error code included.
Ready(val) == time_left /\ val \cap ChMask = {}

\* A port that is deprepared gets its interrupts disabled after.
PrepareStatus ==
  /\ prep = "status"
  /\ \E val \in {IF busy THEN ChMask ELSE {}} \cup Errors :
       /\ \/ val = (IF busy THEN ChMask ELSE {}) /\ fails' = fails
          \/ val \in Errors /\ Fail
       /\ prep' = IF Ready(val) /\ ~prepare THEN "disable" ELSE "idle"
       /\ ret0' = (Ready(val) /\ prepare)
  /\ prepare' = FALSE /\ time_left' = FALSE
  /\ UNCHANGED <<device, work, loop, portloop, usage, port_ready, preps>>

DisableIntr ==
  /\ prep = "disable"
  /\ \/ intr' = FALSE /\ ret0' = TRUE /\ fails' = fails
     \/ Fail /\ UNCHANGED <<intr, ret0>>
  /\ prep' = "idle"
  /\ UNCHANGED <<scp, dp, busy, alerted, raises, work, loop, portloop, usage,
                 port_ready, prepare, time_left, preps>>

-----------------------------------------------------------------------------
Handler ==
  \/ Alert \/ Alert_pm \/ ReadInt1 \/ ReadInt23
  \/ ReadPort \/ WritePort \/ RereadPort \/ PortFails
  \/ interrupt_callback \/ Ack \/ RereadInt1 \/ RereadInt23 \/ io_err
  \/ WriteBack

\* The steps of a call that has started.
Preparing ==
  PrepareCtrl \/ Completed \/ TimedOut \/ PrepareStatus \/ DisableIntr

Preparer == sdw_prep_deprep_slave_ports \/ Preparing

Next ==
  \/ \E i \in Scp : RaiseScp(i)
  \/ \E p \in Port : RaisePort(p)
  \/ Finish
  \/ Handler
  \/ Preparer

\* The work item and the stream go on; a stream need not call again, and
\* nothing obliges the Slave.
Fairness ==
  /\ WF_vars(Handler)
  /\ WF_vars(Preparing)

Spec == Init /\ [][Next]_vars /\ Fairness

-----------------------------------------------------------------------------
(* Properties. *)

\* The interrupts among B that the handler found on entry are dealt with: the
\* Slave does not report them any more, unless it has raised them again, or
\* an access to the register of their port failed.
DealtWith(B) ==
  first \cap B \cap (scp \cup {p \in 0..14 : dp[p] # {}}) \subseteq again \cup missed

\* When the handler reads the status once more, every interrupt of the control
\* port and of ports 0 to 3 that it found on entry has been cleared in the
\* Slave, and an implementation-defined one has been passed to the driver.
FirstServed ==
  work = "reint1" => /\ DealtWith(Scp \cup 0..3)
                     /\ IMPL_DEF \in first => told

\* The same for the ports of the cascaded registers, which the comments of
\* sdw_handle_slave_alerts say start from 4 and from 11.
CascadeServed == work = "reint1" => DealtWith(4..14)

\* As long as no resume has failed, the handler holds its reference to the
\* Slave exactly while it runs: each path out of it, those of the failed
\* accesses included, drops it once and on the device it was taken on.
PmBalanced ==
  usage.bus = 0 => usage.slave = IF work \in {"idle", "return"} THEN 0 ELSE 1

\* A call to sdw_prep_deprep_slave_ports that returns 0 leaves a port whose
\* state machine has finished, be it to prepare or to deprepare, though the
\* completion it waited for may be the late one of an earlier call that has
\* timed out.
PreparedIsReady == ret0 => ~busy

\* The handler and the stream both return, though the handler needs a lock that
\* the stream holds while it waits for the handler.
Returns ==
  /\ prep # "idle" ~> prep = "idle"
  /\ work # "idle" ~> work = "idle"

\* What a failed read of PREPARESTATUS returns meets the channels in use.
ErrorsSeen == \A e \in Errors : e \cap ChMask # {}
===============================================================================
