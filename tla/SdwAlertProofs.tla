---------------------------- MODULE SdwAlertProofs ----------------------------
(***************************************************************************)
(* Proofs about SdwAlert, for any ports, any channels, any bound on the    *)
(* retries and any number of interrupts, calls and failures.               *)
(***************************************************************************)
EXTENDS SdwAlert, TLAPS

InPort == {"port_write", "port_reread"}
InPorts == InPort \cup {"ports"}
InAck == {"ack", "reint1", "reint23"}

\* Port p has nothing pending that was found on entry.
Gone(p) == dp[p] = {} \/ p \in again \/ p \in missed

\* The handler will still visit port p this round, or is about to clear it.
ToVisit(p) ==
  \/ work = "ports" /\ p \in todo
  \/ work \in InPort /\ p \in todo /\ p # This
  \/ work = "port_write" /\ p = This /\ dp[p] \subseteq pclear

PortsOnTheirWay ==
  work \in InPorts \cup InAck => \A p \in first \cap 0..3 : Gone(p) \/ ToVisit(p)

\* An interrupt of the control port that was found on entry is noted in clear
\* and, once acknowledged, pending only if it was raised again; the driver is
\* told before the acknowledge.
ScpOnItsWay ==
  /\ work \in InPorts \cup InAck => first \cap Scp \subseteq clear
  /\ work \in {"reint1", "reint23"} => first \cap scp \subseteq again
  /\ IMPL_DEF \in clear => notify
  /\ work \in InAck /\ notify => told

OnItsWay ==
  /\ work \in InPort => todo # {}
  /\ PortsOnTheirWay
  /\ ScpOnItsWay

\* The references taken and dropped, when those of the Slave and of the bus
\* device are added up; each failed resume takes at most one from the bus.
BusUsage ==
  /\ usage.slave + usage.bus = IF work \in {"idle", "return"} THEN 0 ELSE 1
  /\ -fails <= usage.bus

IInv == TypeOK /\ BusUsage /\ OnItsWay

LEMMA TypeStutters ==
  ASSUME TypeOK, UNCHANGED vars
  PROVE  TypeOK'
<1>1. UNCHANGED <<scp, dp, busy, intr, alerted, raises, fails, work, usage, port_ready>>
  BY Zenon DEF vars, device
<1>2. UNCHANGED <<buf, buf2, buf_, clear, notify, count, todo>>
  BY Zenon DEF vars, loop, locals, portloop
<1>3. UNCHANGED <<status, pclear, pcount, first, again, missed, told>>
  BY Zenon DEF vars, loop, portloop, history
<1>4. UNCHANGED <<prep, prepare, time_left, preps, ret0>>
  BY Zenon DEF vars, caller
<1> QED BY <1>1, <1>2, <1>3, <1>4, SMT DEF TypeOK

USE AlertAssumption
USE DEF SCP2_CASCADE, SCP3_CASCADE, BUS_CLASH, IMPL_DEF, Scp

-------------------------------------------------------------------------------
(* The registers and the order of the ports *)

LEMMA IntTypes ==
  ASSUME TypeOK
  PROVE  Int1 \subseteq 0..18 /\ Int23 \subseteq 0..18
<1>1. \A x \in Scp : x \in 0..18
  OBVIOUS
<1>2. Int1 \subseteq 0..18
  <2>1. scp \subseteq 0..18
    BY <1>1 DEF TypeOK
  <2>2. {p \in 0..3 : dp[p] # {}} \subseteq 0..18
    OBVIOUS
  <2>3. (IF Pending(4..14) THEN {SCP2_CASCADE} ELSE {}) \subseteq 0..18
    OBVIOUS
  <2> QED BY <2>1, <2>2, <2>3, Zenon DEF Int1
<1>3. Int23 \subseteq 0..18
  BY SMT DEF Int23
<1> QED BY <1>2, <1>3

LEMMA LowestPort ==
  ASSUME todo \subseteq 0..14, todo # {}
  PROVE  This \in todo /\ port_num(This) \in 0..14
<1> DEFINE Low(n) == \A q \in todo : n <= q
<1>1. \A n \in 0..14 : Low(n) => n \in todo \/ Low(n + 1)
  OBVIOUS
<1>2. Low(0) /\ ~Low(15)
  <2>1. PICK q \in todo : TRUE
    BY Zenon
  <2>2. q \in 0..14
    BY <2>1
  <2> QED BY <2>2
<1>3. \E n \in todo : Low(n)
  <2> SUFFICES ASSUME \A n \in todo : ~Low(n)
               PROVE  FALSE
    OBVIOUS
  <2>1. \A n \in 0..14 : Low(n) => Low(n + 1)
    BY <1>1
  <2> HIDE DEF Low
  <2>2. Low(1) /\ Low(2) /\ Low(3) /\ Low(4) /\ Low(5)
    BY <1>2, <2>1
  <2>3. Low(6) /\ Low(7) /\ Low(8) /\ Low(9) /\ Low(10)
    BY <2>1, <2>2
  <2>4. Low(11) /\ Low(12) /\ Low(13) /\ Low(14) /\ Low(15)
    BY <2>1, <2>3
  <2> QED BY <1>2, <2>4
<1>4. This \in todo
  BY <1>3, Zenon DEF This
<1> QED BY <1>4 DEF port_num

-------------------------------------------------------------------------------
(* Types, one lemma per action *)

LEMMA RaiseTypes ==
  ASSUME TypeOK, NEW i, Raise(i)
  PROVE  alerted' \in BOOLEAN /\ again' \subseteq 0..18
<1>1. alerted' \in BOOLEAN
  BY Zenon DEF Raise
<1>2. first \subseteq 0..18 /\ again \subseteq 0..18
  BY DEF TypeOK
<1> QED BY <1>1, <1>2, Zenon DEF Raise

LEMMA DeviceTypes ==
  ASSUME TypeOK,
         \/ \E i \in Scp : RaiseScp(i)
         \/ \E p \in Port : RaisePort(p)
         \/ Finish
  PROVE  TypeOK'
<1>1. scp' \subseteq Scp
  BY Zenon DEF TypeOK, RaiseScp, RaisePort, Finish
<1>2. dp' \in [0..14 -> SUBSET DpKinds]
  BY DEF TypeOK, RaiseScp, RaisePort, Finish, DpKinds
<1>3. raises' \in 0..MaxRaise
  BY DEF TypeOK, RaiseScp, RaisePort, Finish
<1>4. busy' \in BOOLEAN
  BY Zenon DEF TypeOK, RaiseScp, RaisePort, Finish
<1>5. alerted' \in BOOLEAN /\ again' \subseteq 0..18
  <2>1. (\E i : Raise(i)) \/ UNCHANGED <<alerted, again>>
    BY Zenon DEF RaiseScp, RaisePort, Finish
  <2>2. alerted \in BOOLEAN /\ again \subseteq 0..18
    BY DEF TypeOK
  <2>3. CASE \E i : Raise(i)
    BY <2>3, RaiseTypes, Zenon
  <2>4. CASE UNCHANGED <<alerted, again>>
    BY <2>2, <2>4, Zenon
  <2> QED BY <2>1, <2>3, <2>4
<1>6. UNCHANGED <<intr, fails, work, locals, first, missed, told, portloop, usage,
                  port_ready, caller>>
  BY DEF RaiseScp, RaisePort, Finish
<1> QED BY <1>1, <1>2, <1>3, <1>4, <1>5, <1>6
        DEF TypeOK, locals, portloop, caller

LEMMA FailTypes ==
  ASSUME TypeOK, Fail \/ UNCHANGED fails
  PROVE  fails' \in 0..MaxFail /\ fails' >= fails
BY DEF TypeOK, Fail

\* A reference taken stays within the bound of the failures.
LEMMA AlertTypes ==
  ASSUME TypeOK, BusUsage, Alert \/ Alert_pm
  PROVE  TypeOK' /\ BusUsage'
<1>1. CASE Alert
  <2>1. usage' \in [slave : 0..MaxFail + 1, bus : -MaxFail..0] /\ BusUsage'
    BY <1>1 DEF TypeOK, BusUsage, Alert
  <2>2. work' = "int1" /\ UNCHANGED <<device, fails, loop, portloop, port_ready, caller>>
    BY <1>1 DEF Alert
  <2> QED BY <2>1, <2>2 DEF TypeOK, device, loop, locals, history, portloop, caller
<1>2. CASE Alert_pm
  <2>1. /\ usage' \in [slave : 0..MaxFail + 1, bus : -MaxFail..0] /\ BusUsage'
        /\ fails' \in 0..MaxFail
    BY <1>2 DEF TypeOK, BusUsage, Alert_pm, Fail
  <2>2. work' = "return" /\ UNCHANGED <<device, loop, portloop, port_ready, caller>>
    BY <1>2 DEF Alert_pm
  <2> QED BY <2>1, <2>2 DEF TypeOK, device, loop, locals, history, portloop, caller
<1> QED BY <1>1, <1>2

LEMMA ReportedType ==
  ASSUME NEW b, NEW b2
  PROVE  Reported(b, b2) \subseteq 0..14
<1>1. /\ b \cap 0..3 \subseteq 0..14
      /\ b2 \cap 4..10 \subseteq 0..14
      /\ b2 \cap 11..14 \subseteq 0..14
  BY SMT
<1> QED BY <1>1, Zenon DEF Reported

LEMMA RoundTypes ==
  ASSUME TypeOK, NEW b, NEW b2, Round(b, b2)
  PROVE  /\ clear' \subseteq Scp /\ notify' \in BOOLEAN
         /\ todo' \subseteq 0..14 /\ work' = "ports"
<1>1. clear' \subseteq Scp
  BY Zenon DEF TypeOK, Round
<1>2. notify' \in BOOLEAN
  BY Zenon DEF TypeOK, Round
<1> QED BY <1>1, <1>2, ReportedType DEF Round

LEMMA ReadTypes ==
  ASSUME TypeOK, ReadInt1 \/ ReadInt23 \/ RereadInt1
  PROVE  TypeOK'
<1>1. CASE ReadInt1
  <2>1. buf' \subseteq 0..18
    BY <1>1, IntTypes DEF ReadInt1
  <2> QED BY <1>1, <2>1 DEF ReadInt1, TypeOK, device, history, portloop, caller
<1>2. CASE ReadInt23
  <2>1. buf2' \subseteq 0..18
    BY <1>2, IntTypes DEF ReadInt23
  <2>2. /\ clear' \subseteq Scp /\ notify' \in BOOLEAN
        /\ todo' \subseteq 0..14 /\ work' = "ports"
    BY <1>2, RoundTypes DEF ReadInt23
  <2>3. first' \subseteq 0..18
    <3>1. first' = (buf \cap Scp) \cup Reported(buf, Int23)
      BY <1>2 DEF ReadInt23
    <3>2. Reported(buf, Int23) \subseteq 0..18
      BY ReportedType
    <3>3. buf \cap Scp \subseteq 0..18
      BY DEF TypeOK
    <3> QED BY <3>1, <3>2, <3>3, Zenon
  <2>4. UNCHANGED <<device, fails, buf, buf_, count, again, missed, told,
                    status, pclear, pcount, usage, port_ready, caller>>
    BY <1>2 DEF ReadInt23
  <2> QED BY <2>1, <2>2, <2>3, <2>4 DEF TypeOK, device, caller
<1>3. CASE RereadInt1
  <2>1. buf_' \subseteq 0..18
    BY <1>3, IntTypes DEF RereadInt1
  <2> QED BY <1>3, <2>1 DEF RereadInt1, TypeOK, device, history, portloop, caller
<1> QED BY <1>1, <1>2, <1>3

LEMMA AckTypes ==
  ASSUME TypeOK, interrupt_callback \/ Ack
  PROVE  TypeOK'
<1>1. told' \in BOOLEAN
  BY Zenon DEF interrupt_callback, Ack, TypeOK, loop, history
<1>2. scp' \subseteq Scp /\ work' \in {"ack", "reint1"}
  BY Zenon DEF interrupt_callback, Ack, TypeOK, device
<1>3. UNCHANGED <<dp, busy, intr, alerted, raises, fails, locals, first, again,
                  missed, portloop, usage, port_ready, caller>>
  BY DEF interrupt_callback, Ack, device, loop, history
<1> QED BY <1>1, <1>2, <1>3 DEF TypeOK, locals, portloop, caller

LEMMA ServePortTypes ==
  ASSUME TypeOK, NEW st, st \subseteq DpKinds, ServePort(st)
  PROVE  /\ status' \subseteq DpKinds /\ pclear' \subseteq DpKinds
         /\ port_ready' \in Nat /\ work' = "port_write"
BY DEF ServePort, TypeOK

LEMMA NextPortTypes ==
  ASSUME TypeOK, NextPort
  PROVE  /\ todo' \subseteq 0..14 /\ status' \subseteq DpKinds
         /\ pclear' \subseteq DpKinds /\ pcount' \in 0..Retry /\ work' = "ports"
<1>1. todo' \subseteq 0..14
  BY Zenon DEF NextPort, TypeOK
<1> QED BY <1>1 DEF NextPort

LEMMA PortTypes ==
  ASSUME TypeOK, OnItsWay, ReadPort \/ WritePort \/ RereadPort \/ PortFails
  PROVE  TypeOK'
<1>1. CASE ReadPort
  <2>1. port_num(This) \in 0..14
    BY <1>1, LowestPort DEF ReadPort, TypeOK
  <2>2. dp[port_num(This)] \subseteq DpKinds
    BY <2>1 DEF TypeOK
  <2>3. /\ status' \subseteq DpKinds /\ pclear' \subseteq DpKinds
        /\ port_ready' \in Nat /\ work' = "port_write"
    BY <1>1, <2>2, ServePortTypes DEF ReadPort
  <2>4. UNCHANGED <<device, fails, loop, todo, pcount, usage, caller>>
    BY <1>1 DEF ReadPort
  <2> QED BY <2>3, <2>4 DEF TypeOK, device, loop, locals, history, caller
<1>2. CASE WritePort
  <2>1. dp' \in [0..14 -> SUBSET DpKinds]
    BY <1>2, Zenon DEF WritePort, TypeOK
  <2> QED BY <1>2, <2>1
          DEF WritePort, TypeOK, loop, locals, history, portloop, caller
<1>3. CASE RereadPort
  <2>1. port_num(This) \in 0..14
    BY <1>3, LowestPort DEF RereadPort, TypeOK, OnItsWay, InPort
  <2> DEFINE st == status \cap dp[port_num(This)]
  <2>2. st \subseteq DpKinds
    BY DEF TypeOK
  <2>3. UNCHANGED <<device, fails, loop, usage, caller>>
    BY <1>3 DEF RereadPort
  <2>4. CASE pcount + 1 < Retry /\ pcount' = pcount + 1 /\ ServePort(st) /\ todo' = todo
    <3>1. /\ status' \subseteq DpKinds /\ pclear' \subseteq DpKinds
          /\ port_ready' \in Nat /\ work' = "port_write"
      BY <2>2, <2>4, ServePortTypes
    <3>2. pcount' \in 0..Retry
      BY <2>4 DEF TypeOK
    <3> QED BY <2>3, <2>4, <3>1, <3>2 DEF TypeOK, device, loop, locals, history, caller
  <2>5. CASE NextPort /\ port_ready' = port_ready
    <3>1. /\ todo' \subseteq 0..14 /\ status' \subseteq DpKinds
          /\ pclear' \subseteq DpKinds /\ pcount' \in 0..Retry /\ work' = "ports"
      BY <2>5, NextPortTypes
    <3> QED BY <2>3, <2>5, <3>1 DEF TypeOK, device, loop, locals, history, caller
  <2> QED BY <1>3, <2>4, <2>5 DEF RereadPort
<1>4. CASE PortFails
  <2>1. port_num(This) \in 0..14
    BY <1>4, LowestPort DEF PortFails, TypeOK
  <2>2. missed' \subseteq 0..14
    <3>1. missed \subseteq 0..14
      BY DEF TypeOK
    <3> QED BY <1>4, <2>1, <3>1, Zenon DEF PortFails
  <2>3. /\ todo' \subseteq 0..14 /\ status' \subseteq DpKinds
        /\ pclear' \subseteq DpKinds /\ pcount' \in 0..Retry /\ work' = "ports"
    BY <1>4, NextPortTypes DEF PortFails
  <2>4. fails' \in 0..MaxFail
    BY <1>4 DEF PortFails, Fail, TypeOK
  <2>5. UNCHANGED <<device, locals, first, again, told, usage, port_ready, caller>>
    BY <1>4 DEF PortFails
  <2> QED BY <2>2, <2>3, <2>4, <2>5 DEF TypeOK, device, locals, caller
<1> QED BY <1>1, <1>2, <1>3, <1>4

\* The handler returns: it drops one reference, and its locals are empty.
LEMMA PutTypes ==
  ASSUME TypeOK, BusUsage, Put, work \notin {"idle", "return"},
         fails' \in fails..MaxFail,
         UNCHANGED <<device, status, pclear, pcount, port_ready, caller>>
  PROVE  TypeOK' /\ BusUsage'
<1>1. /\ usage' \in [slave : 0..MaxFail + 1, bus : -MaxFail..0]
      /\ BusUsage' /\ fails' \in 0..MaxFail
  BY DEF TypeOK, BusUsage, Put
<1>2. /\ buf' = {} /\ buf2' = {} /\ buf_' = {} /\ clear' = {} /\ notify' = FALSE
      /\ count' = 0 /\ first' = {} /\ again' = {} /\ missed' = {} /\ told' = FALSE
      /\ todo' = {} /\ work' = "return"
  BY DEF Put
<1>3. /\ buf' \subseteq 0..18 /\ buf2' \subseteq 0..18 /\ buf_' \subseteq 0..18
      /\ clear' \subseteq Scp /\ first' \subseteq 0..18 /\ again' \subseteq 0..18
      /\ missed' \subseteq 0..14 /\ todo' \subseteq 0..14
  BY <1>2, Zenon
<1>4. notify' \in BOOLEAN /\ told' \in BOOLEAN
  BY <1>2, Zenon
<1>5. count' \in 0..Retry
  BY <1>2 DEF TypeOK
<1> QED BY <1>1, <1>2, <1>3, <1>4, <1>5 DEF TypeOK, device, caller

LEMMA RereadTypes ==
  ASSUME TypeOK, BusUsage, RereadInt23
  PROVE  TypeOK' /\ BusUsage'
<1>1. UNCHANGED <<device, fails, status, pclear, pcount, port_ready, caller>>
  BY DEF RereadInt23
<1>2. CASE Put
  <2>1. fails' \in fails..MaxFail /\ work \notin {"idle", "return"}
    BY <1>1 DEF TypeOK, RereadInt23
  <2> QED BY <1>1, <1>2, <2>1, PutTypes
<1> DEFINE b == buf \cap buf_
           b2 == buf2 \cap Int23
<1>3. CASE /\ count + 1 < Retry /\ count' = count + 1
           /\ buf' = b /\ buf2' = b2 /\ buf_' = {}
           /\ Round(b, b2)
           /\ UNCHANGED <<history, usage>>
  <2>1. /\ clear' \subseteq Scp /\ notify' \in BOOLEAN
        /\ todo' \subseteq 0..14 /\ work' = "ports"
    BY <1>3, RoundTypes
  <2>2. b \subseteq 0..18 /\ b2 \subseteq 0..18
    BY Zenon DEF TypeOK
  <2>3. count' \in 0..Retry
    BY <1>3 DEF TypeOK
  <2>4. TypeOK'
    BY <1>1, <1>3, <2>1, <2>2, <2>3 DEF TypeOK, device, history, caller
  <2>5. work = "reint23"
    BY DEF RereadInt23
  <2> QED BY <1>1, <1>3, <2>1, <2>4, <2>5 DEF BusUsage
<1> QED BY <1>2, <1>3 DEF RereadInt23

LEMMA IoErrTypes ==
  ASSUME TypeOK, BusUsage, io_err
  PROVE  TypeOK' /\ BusUsage'
<1>1. fails' \in fails..MaxFail /\ work \notin {"idle", "return"}
  BY DEF TypeOK, io_err, Fail
<1> QED BY <1>1, PutTypes DEF io_err

LEMMA WriteBackTypes ==
  ASSUME TypeOK, BusUsage, WriteBack
  PROVE  TypeOK' /\ BusUsage'
<1>1. work = "return" /\ work' = "idle" /\ alerted' \in BOOLEAN
  BY Zenon DEF WriteBack
<1>2. UNCHANGED <<scp, dp, busy, intr, raises, fails, loop, portloop, usage,
                  port_ready, caller>>
  BY DEF WriteBack
<1>3. TypeOK'
  BY <1>1, <1>2 DEF TypeOK, loop, locals, history, portloop, caller
<1>4. BusUsage'
  BY <1>1, <1>2 DEF BusUsage
<1> QED BY <1>3, <1>4

LEMMA PreparerTypes ==
  ASSUME TypeOK, Preparer
  PROVE  TypeOK' /\ fails' >= fails
<1>0. Fail \/ UNCHANGED fails
  BY Zenon DEF Preparer, Preparing, sdw_prep_deprep_slave_ports, PrepareCtrl,
               Completed, TimedOut, PrepareStatus, DisableIntr
<1>1. fails' \in 0..MaxFail /\ fails' >= fails
  BY <1>0, FailTypes
<1> SUFFICES TypeOK'
  BY <1>1
<1> USE DEF TypeOK, loop, locals, history, portloop
<1>2. CASE sdw_prep_deprep_slave_ports
  <2>1. preps' \in 0..MaxPrep
    BY <1>2 DEF sdw_prep_deprep_slave_ports
  <2>2. /\ intr' \in BOOLEAN /\ prepare' \in BOOLEAN /\ ret0' \in BOOLEAN
        /\ prep' \in {"idle", "ctrl"}
    BY <1>2, Zenon DEF sdw_prep_deprep_slave_ports
  <2>3. UNCHANGED <<scp, dp, busy, alerted, raises, work, loop, portloop, usage,
                    port_ready, time_left>>
    BY <1>2 DEF sdw_prep_deprep_slave_ports
  <2> QED BY <1>1, <2>1, <2>2, <2>3
<1>3. CASE PrepareCtrl
  <2>1. busy' \in BOOLEAN /\ prepare' \in BOOLEAN /\ prep' \in {"idle", "wait"}
    BY <1>3, Zenon DEF PrepareCtrl
  <2>2. UNCHANGED <<scp, dp, intr, alerted, raises, work, loop, portloop, usage,
                    port_ready, time_left, preps, ret0>>
    BY <1>3 DEF PrepareCtrl
  <2> QED BY <1>1, <2>1, <2>2
<1>4. CASE Completed
  <2>1. port_ready' \in Nat
    BY <1>4 DEF Completed
  <2> QED BY <1>4, <2>1 DEF Completed, device
<1>5. CASE TimedOut
  <2>1. /\ time_left' = FALSE /\ prep' = "status"
        /\ UNCHANGED <<device, fails, work, loop, portloop, usage, port_ready,
                       prepare, preps, ret0>>
    BY <1>5 DEF TimedOut
  <2>2. time_left' \in BOOLEAN
    BY <2>1, Zenon
  <2> QED BY <2>1, <2>2 DEF device
<1>6. CASE PrepareStatus
  <2>1. ret0' \in BOOLEAN /\ prepare' \in BOOLEAN /\ time_left' \in BOOLEAN
    BY <1>6, Zenon DEF PrepareStatus, Ready
  <2>2. prep' \in {"idle", "disable"}
    BY <1>6, Zenon DEF PrepareStatus
  <2>3. UNCHANGED <<device, work, loop, portloop, usage, port_ready, preps>>
    BY <1>6 DEF PrepareStatus
  <2> QED BY <1>1, <2>1, <2>2, <2>3 DEF device
<1>7. CASE DisableIntr
  <2>1. intr' \in BOOLEAN /\ ret0' \in BOOLEAN /\ prep' = "idle"
    BY <1>7, Zenon DEF DisableIntr
  <2>2. UNCHANGED <<scp, dp, busy, alerted, raises, work, loop, portloop, usage,
                    port_ready, prepare, time_left, preps>>
    BY <1>7 DEF DisableIntr
  <2> QED BY <1>1, <2>1, <2>2
<1> QED BY <1>2, <1>3, <1>4, <1>5, <1>6, <1>7, Zenon DEF Preparer, Preparing

-------------------------------------------------------------------------------
(* Service of what was found on entry, one lemma per action that can disturb it *)

\* Steps of the stream do not touch it.
LEMMA OthersKeep ==
  ASSUME OnItsWay, UNCHANGED <<scp, dp, work, loop, portloop>>
  PROVE  OnItsWay'
<1>1. This' = This
  BY DEF This, portloop
<1> QED BY <1>1, Zenon DEF OnItsWay, PortsOnTheirWay, ScpOnItsWay, Gone, ToVisit,
                           loop, locals, history, portloop

\* An interrupt that the Slave raises is new, or it was found and is raised
\* again.
LEMMA DeviceKeeps ==
  ASSUME OnItsWay, TypeOK,
         \/ \E i \in Scp : RaiseScp(i)
         \/ \E p \in Port : RaisePort(p)
         \/ Finish
  PROVE  OnItsWay'
<1>1. UNCHANGED <<work, locals, first, missed, told, portloop>>
  BY DEF RaiseScp, RaisePort, Finish
<1>2. again \subseteq again'
  BY Zenon DEF RaiseScp, RaisePort, Finish, Raise
<1>3. \A p \in first \cap 0..3 : dp'[p] = dp[p] \/ p \in again'
  <2> SUFFICES ASSUME NEW p \in first \cap 0..3, p \notin again'
               PROVE  dp'[p] = dp[p]
    BY Zenon
  <2>1. p \in 0..14 /\ dp \in [0..14 -> SUBSET DpKinds]
    BY DEF TypeOK
  <2>2. CASE \E i \in Scp : RaiseScp(i)
    BY <2>2, Zenon DEF RaiseScp
  <2>3. CASE \E q \in Port : RaisePort(q)
    <3>1. PICK q \in Port : RaisePort(q)
      BY <2>3, Zenon
    <3>2. q # p
      BY <3>1, Zenon DEF RaisePort, Raise
    <3> QED BY <2>1, <3>1, <3>2, Zenon DEF RaisePort
  <2>4. CASE Finish
    <3>1. CASE UNCHANGED dp
      BY <3>1, Zenon
    <3>2. CASE /\ dp' = [dp EXCEPT ![CpPort] = @ \cup {"ready"}]
               /\ Raise(CpPort)
      <4>1. CpPort # p
        BY <3>2, Zenon DEF Raise
      <4> QED BY <2>1, <3>2, <4>1, Zenon
    <3> QED BY <2>4, <3>1, <3>2, Zenon DEF Finish
  <2> QED BY <2>2, <2>3, <2>4
<1>4. first \cap scp' \subseteq again' \cup (first \cap scp)
  BY Zenon DEF RaiseScp, RaisePort, Finish, Raise
<1>5. PortsOnTheirWay'
  <2>1. This' = This
    BY <1>1 DEF This, portloop
  <2> SUFFICES ASSUME work \in InPorts \cup InAck, NEW p \in first \cap 0..3
               PROVE  Gone(p)' \/ ToVisit(p)'
    BY <1>1, Zenon DEF PortsOnTheirWay
  <2>2. Gone(p) \/ ToVisit(p)
    BY Zenon DEF OnItsWay, PortsOnTheirWay
  <2>3. CASE p \in again'
    BY <2>3 DEF Gone
  <2>4. CASE dp'[p] = dp[p]
    BY <1>1, <1>2, <2>1, <2>2, <2>4, Zenon DEF Gone, ToVisit, portloop
  <2> QED BY <1>3, <2>3, <2>4
<1>6. ScpOnItsWay'
  <2>1. UNCHANGED <<work, clear, notify, first, told>>
    BY <1>1 DEF locals
  <2>2. ScpOnItsWay
    BY DEF OnItsWay
  <2>3. work \in {"reint1", "reint23"} => first \cap scp' \subseteq again'
    BY <1>2, <1>4, <2>2, Zenon DEF ScpOnItsWay
  <2> QED BY <2>1, <2>2, <2>3, Zenon DEF ScpOnItsWay
<1>7. (work \in InPort => todo # {})'
  BY <1>1, Zenon DEF OnItsWay, portloop
<1> QED BY <1>5, <1>6, <1>7, Zenon DEF OnItsWay

LEMMA ReadInt23Keeps ==
  ASSUME TypeOK, OnItsWay, ReadInt23
  PROVE  OnItsWay'
<1>1. /\ work' = "ports" /\ clear' = clear \cup (buf \cap Scp)
      /\ notify' = (notify \/ IMPL_DEF \in buf)
      /\ todo' = Reported(buf, Int23)
      /\ first' = (buf \cap Scp) \cup Reported(buf, Int23)
  BY DEF ReadInt23, Round
<1>2. first' \cap 0..3 \subseteq todo'
  BY <1>1
<1>3. PortsOnTheirWay'
  BY <1>1, <1>2, Zenon DEF PortsOnTheirWay, ToVisit
<1>4. first' \cap Scp \subseteq clear'
  <2>1. Reported(buf, Int23) \cap Scp = {}
    BY ReportedType
  <2> QED BY <1>1, <2>1, Zenon
<1>5. IMPL_DEF \in clear' => notify'
  <2>1. IMPL_DEF \in clear => notify
    BY DEF OnItsWay, ScpOnItsWay
  <2> QED BY <1>1, <2>1, Zenon
<1>6. work' \notin InPort /\ work' \notin InAck /\ work' \notin {"reint1", "reint23"}
  BY <1>1 DEF InPort, InAck
<1> QED BY <1>3, <1>4, <1>5, <1>6, Zenon DEF OnItsWay, ScpOnItsWay

\* The handler takes up a port: what it read of it, it will clear.
LEMMA ReadPortKeeps ==
  ASSUME TypeOK, OnItsWay, ReadPort
  PROVE  PortsOnTheirWay'
<1>1. /\ work = "ports" /\ work' = "port_write" /\ todo # {}
      /\ pclear' = pclear \cup dp[port_num(This)]
      /\ UNCHANGED <<dp, todo, first, again, missed>>
  BY DEF ReadPort, ServePort, device, loop, history
<1>2. This' = This
  BY <1>1 DEF This
<1> SUFFICES ASSUME NEW p \in first \cap 0..3
             PROVE  Gone(p)' \/ ToVisit(p)'
  BY <1>1, Zenon DEF PortsOnTheirWay
<1>3. Gone(p) \/ p \in todo
  BY <1>1 DEF OnItsWay, PortsOnTheirWay, InPorts, InPort, ToVisit
<1>4. CASE Gone(p)
  BY <1>1, <1>4, Zenon DEF Gone
<1>5. CASE p \in todo /\ p # This
  BY <1>1, <1>2, <1>5, Zenon DEF ToVisit, InPort
<1>6. CASE p = This
  <2>1. port_num(This) = p
    BY <1>6 DEF port_num
  <2>2. dp'[p] \subseteq pclear'
    BY <1>1, <2>1, Zenon
  <2> QED BY <1>1, <1>2, <1>6, <2>2, Zenon DEF ToVisit
<1> QED BY <1>3, <1>4, <1>5, <1>6

\* ... and does.
LEMMA WritePortKeeps ==
  ASSUME TypeOK, OnItsWay, WritePort
  PROVE  PortsOnTheirWay'
<1>1. /\ work = "port_write" /\ work' = "port_reread"
      /\ dp' = [dp EXCEPT ![port_num(This)] = @ \ pclear]
      /\ UNCHANGED <<todo, first, again, missed>>
  BY DEF WritePort, loop, history, portloop
<1>2. This' = This
  BY <1>1 DEF This
<1> SUFFICES ASSUME NEW p \in first \cap 0..3
             PROVE  Gone(p)' \/ ToVisit(p)'
  BY <1>1, Zenon DEF PortsOnTheirWay
<1>3. p \in 0..14 /\ dp \in [0..14 -> SUBSET DpKinds]
  BY DEF TypeOK
<1>4. dp'[p] = dp[p] \/ dp'[p] = dp[p] \ pclear
  BY <1>1, <1>3, Zenon
<1>5. Gone(p) \/ (p \in todo /\ p # This) \/ (p = This /\ dp[p] \subseteq pclear)
  BY <1>1 DEF OnItsWay, PortsOnTheirWay, InPorts, InPort, ToVisit
<1>6. CASE Gone(p)
  BY <1>1, <1>4, <1>6, Zenon DEF Gone
<1>7. CASE p \in todo /\ p # This
  BY <1>1, <1>2, <1>7, Zenon DEF ToVisit, InPort
<1>8. CASE p = This /\ dp[p] \subseteq pclear
  <2>1. port_num(This) = p
    BY <1>8 DEF port_num
  <2>2. dp'[p] = dp[p] \ pclear
    BY <1>1, <1>3, <2>1, Zenon
  <2>3. dp'[p] = {}
    BY <1>8, <2>2, Zenon
  <2> QED BY <2>3 DEF Gone
<1> QED BY <1>5, <1>6, <1>7, <1>8

\* The handler leaves a port behind that is cleared, raised again or missed.
LEMMA NextPortKeeps ==
  ASSUME TypeOK, OnItsWay, NextPort, work \in InPorts, todo # {},
         UNCHANGED <<dp, first, again>>, missed \subseteq missed',
         This \in first \cap 0..3 => Gone(This) \/ This \in missed'
  PROVE  PortsOnTheirWay'
<1>1. work' = "ports" /\ todo' = todo \ {This}
  BY DEF NextPort
<1> SUFFICES ASSUME NEW p \in first \cap 0..3
             PROVE  Gone(p)' \/ ToVisit(p)'
  BY <1>1, Zenon DEF PortsOnTheirWay
<1>2. Gone(p) \/ ToVisit(p)
  BY Zenon DEF OnItsWay, PortsOnTheirWay
<1>3. CASE Gone(p)
  BY <1>3, Zenon DEF Gone
<1>4. CASE p # This /\ p \in todo
  BY <1>1, <1>4, Zenon DEF ToVisit
<1>5. CASE p = This
  BY <1>5, Zenon DEF Gone
<1> QED BY <1>2, <1>3, <1>4, <1>5, Zenon DEF ToVisit

LEMMA RereadPortKeeps ==
  ASSUME TypeOK, OnItsWay, RereadPort
  PROVE  PortsOnTheirWay'
<1>1. /\ work = "port_reread" /\ UNCHANGED <<dp, first, again, missed>>
  BY DEF RereadPort, device, loop, history
<1>2. \A p \in first \cap 0..3 : Gone(p) \/ (p \in todo /\ p # This)
  BY <1>1 DEF OnItsWay, PortsOnTheirWay, InPorts, InPort, ToVisit
<1>3. CASE NextPort
  <2>1. work \in InPorts /\ todo # {}
    BY <1>1 DEF OnItsWay, InPort, InPorts
  <2> QED BY <1>1, <1>2, <1>3, <2>1, NextPortKeeps, Zenon
<1>4. CASE work' = "port_write" /\ todo' = todo
  <2>1. This' = This
    BY <1>4 DEF This
  <2> SUFFICES ASSUME NEW p \in first \cap 0..3
               PROVE  Gone(p)' \/ ToVisit(p)'
    BY <1>1, Zenon DEF PortsOnTheirWay
  <2>2. CASE Gone(p)
    BY <1>1, <2>2, Zenon DEF Gone
  <2>3. CASE p \in todo /\ p # This
    BY <1>4, <2>1, <2>3, Zenon DEF ToVisit, InPort
  <2> QED BY <1>2, <2>2, <2>3
<1> QED BY <1>3, <1>4, Zenon DEF RereadPort, ServePort

LEMMA PortFailsKeeps ==
  ASSUME TypeOK, OnItsWay, PortFails
  PROVE  PortsOnTheirWay'
<1>1. /\ NextPort /\ work \in InPorts /\ todo # {}
      /\ missed' = missed \cup (first \cap {port_num(This)})
      /\ UNCHANGED <<dp, first, again>>
  BY DEF PortFails, InPorts, InPort, device
<1>2. This \in first \cap 0..3 => This \in missed'
  <2> SUFFICES ASSUME This \in first \cap 0..3
               PROVE  This \in missed'
    OBVIOUS
  <2>1. port_num(This) = This
    BY DEF port_num
  <2> QED BY <1>1, <2>1, Zenon
<1>3. missed \subseteq missed'
  BY <1>1, Zenon
<1> QED BY <1>1, <1>2, <1>3, NextPortKeeps, Zenon

LEMMA PortKeeps ==
  ASSUME TypeOK, OnItsWay, ReadPort \/ WritePort \/ RereadPort \/ PortFails
  PROVE  OnItsWay'
<1>1. PortsOnTheirWay'
  BY ReadPortKeeps, WritePortKeeps, RereadPortKeeps, PortFailsKeeps, Zenon
<1>2. UNCHANGED <<clear, notify, first, told>>
  BY DEF ReadPort, WritePort, RereadPort, PortFails, loop, locals, history
<1>3. work \in InPorts /\ work' \in InPorts /\ work' \notin InAck
  BY DEF ReadPort, WritePort, RereadPort, PortFails, ServePort, NextPort,
         InPort, InPorts, InAck
<1>4. ScpOnItsWay'
  <2>1. ScpOnItsWay /\ work' \notin {"reint1", "reint23"}
    BY <1>3 DEF OnItsWay, InAck
  <2> QED BY <1>2, <1>3, <2>1, Zenon DEF ScpOnItsWay
<1>5. work' \in InPort => todo' # {}
  BY DEF ReadPort, WritePort, RereadPort, PortFails, ServePort, NextPort,
         OnItsWay, InPort, portloop
<1> QED BY <1>1, <1>4, <1>5, Zenon DEF OnItsWay

\* Once the ports are done, none is left to visit.
LEMMA AckKeeps ==
  ASSUME TypeOK, OnItsWay, interrupt_callback \/ Ack \/ RereadInt1
  PROVE  OnItsWay'
<1>1. /\ work \in InPorts \cup InAck /\ work' \in InAck /\ work' \notin InPort
      /\ UNCHANGED <<dp, first, again, missed, clear, notify>>
  BY DEF interrupt_callback, Ack, RereadInt1, InAck, InPorts, InPort,
         device, loop, locals, history
<1>2. \A p \in first \cap 0..3 : ~ToVisit(p)
  BY Zenon DEF interrupt_callback, Ack, RereadInt1, ToVisit, InPort
<1>3. PortsOnTheirWay'
  <2> SUFFICES ASSUME NEW p \in first \cap 0..3
               PROVE  Gone(p)'
    BY <1>1, Zenon DEF PortsOnTheirWay
  <2>1. Gone(p)
    BY <1>1, <1>2, Zenon DEF OnItsWay, PortsOnTheirWay
  <2> QED BY <1>1, <2>1, Zenon DEF Gone
<1>4. ScpOnItsWay
  BY DEF OnItsWay
<1>5. notify' => told'
  <2>1. CASE interrupt_callback
    BY <2>1, Zenon DEF interrupt_callback, locals
  <2>2. CASE Ack \/ RereadInt1
    <3>1. work \in InAck /\ told' = told
      BY <2>2 DEF Ack, RereadInt1, InAck, loop, history
    <3> QED BY <1>1, <1>4, <3>1, Zenon DEF ScpOnItsWay
  <2> QED BY <2>1, <2>2
<1>6. work' \in {"reint1", "reint23"} => first' \cap scp' \subseteq again'
  <2>1. CASE interrupt_callback
    BY <2>1 DEF interrupt_callback
  <2>2. CASE Ack
    <3>1. first \cap Scp \subseteq clear
      BY <1>1, <1>4, Zenon DEF ScpOnItsWay
    <3>2. scp \subseteq Scp /\ scp' = scp \ clear
      BY <2>2 DEF TypeOK, Ack
    <3>3. first \cap scp' = {}
      BY <3>1, <3>2, Zenon
    <3> QED BY <1>1, <3>3, Zenon
  <2>3. CASE RereadInt1
    <3>1. work \in {"reint1", "reint23"} /\ scp' = scp
      BY <2>3 DEF RereadInt1, device
    <3> QED BY <1>1, <1>4, <3>1, Zenon DEF ScpOnItsWay
  <2> QED BY <2>1, <2>2, <2>3
<1>7. ScpOnItsWay'
  BY <1>1, <1>4, <1>5, <1>6, Zenon DEF ScpOnItsWay
<1> QED BY <1>1, <1>3, <1>7, Zenon DEF OnItsWay

\* Before the first read of the status, and once the handler is on its way
\* out, nothing counts as found.
LEMMA OutsideKeeps ==
  ASSUME work' \in {"idle", "int1", "int23", "return"},
         IMPL_DEF \in clear' => notify'
  PROVE  OnItsWay'
<1>1. /\ work' \notin InPort /\ work' \notin InPorts \cup InAck
      /\ work' \notin {"reint1", "reint23"} /\ work' \notin InAck
  BY DEF InPort, InPorts, InAck
<1> QED BY <1>1, Zenon DEF OnItsWay, PortsOnTheirWay, ScpOnItsWay

\* The next round keeps what was dealt with; a return forgets all.
LEMMA RereadKeeps ==
  ASSUME TypeOK, OnItsWay, RereadInt23
  PROVE  OnItsWay'
<1>1. CASE Put
  <2>1. work' = "return" /\ clear' = {}
    BY <1>1 DEF Put
  <2> QED BY <2>1, OutsideKeeps
<1> DEFINE b == buf \cap buf_
           b2 == buf2 \cap Int23
<1>2. CASE Round(b, b2) /\ UNCHANGED <<history, usage>>
  <2>1. /\ work' = "ports" /\ clear' = clear \cup (b \cap Scp)
        /\ notify' = (notify \/ IMPL_DEF \in b)
        /\ UNCHANGED <<dp, first, again, missed>>
    BY <1>2 DEF Round, RereadInt23, device, history
  <2>2. work = "reint23"
    BY DEF RereadInt23
  <2>3. PortsOnTheirWay'
    <3> SUFFICES ASSUME NEW p \in first \cap 0..3
                 PROVE  Gone(p)'
      BY <2>1, Zenon DEF PortsOnTheirWay
    <3>1. Gone(p)
      BY <2>2 DEF OnItsWay, PortsOnTheirWay, InAck, ToVisit, InPort
    <3> QED BY <2>1, <3>1, Zenon DEF Gone
  <2>4. first' \cap Scp \subseteq clear'
    BY <2>1, <2>2, Zenon DEF OnItsWay, ScpOnItsWay, InAck
  <2>5. IMPL_DEF \in clear' => notify'
    <3>1. IMPL_DEF \in clear => notify
      BY DEF OnItsWay, ScpOnItsWay
    <3> QED BY <2>1, <3>1, Zenon
  <2>6. work' \notin InPort /\ work' \notin InAck /\ work' \notin {"reint1", "reint23"}
    BY <2>1 DEF InPort, InAck
  <2> QED BY <2>3, <2>4, <2>5, <2>6, Zenon DEF OnItsWay, ScpOnItsWay
<1> QED BY <1>1, <1>2 DEF RereadInt23

LEMMA EntryAndReturnKeep ==
  ASSUME OnItsWay, Alert \/ Alert_pm \/ ReadInt1 \/ io_err \/ WriteBack
  PROVE  OnItsWay'
<1>1. work' \in {"idle", "int1", "int23", "return"}
  BY DEF Alert, Alert_pm, ReadInt1, io_err, Put, WriteBack
<1>2. IMPL_DEF \in clear' => notify'
  <2>1. CASE io_err
    BY <2>1 DEF io_err, Put
  <2>2. CASE Alert \/ Alert_pm \/ ReadInt1 \/ WriteBack
    <3>1. UNCHANGED <<clear, notify>>
      BY <2>2 DEF Alert, Alert_pm, ReadInt1, WriteBack, loop, locals
    <3> QED BY <3>1, Zenon DEF OnItsWay, ScpOnItsWay
  <2> QED BY <2>1, <2>2
<1> QED BY <1>1, <1>2, OutsideKeeps

-------------------------------------------------------------------------------
(* The theorems *)

LEMMA InitIInv == Init => IInv
<1> SUFFICES ASSUME Init PROVE IInv
  OBVIOUS
<1>1. /\ raises \in 0..MaxRaise /\ fails \in 0..MaxFail /\ count \in 0..Retry
      /\ pcount \in 0..Retry /\ preps \in 0..MaxPrep
  BY DEF Init
<1>2. usage \in [slave : 0..MaxFail + 1, bus : -MaxFail..0]
  BY DEF Init
<1>3. /\ buf \subseteq 0..18 /\ buf2 \subseteq 0..18 /\ buf_ \subseteq 0..18
      /\ first \subseteq 0..18 /\ again \subseteq 0..18 /\ missed \subseteq 0..14
      /\ todo \subseteq 0..14 /\ scp \subseteq Scp /\ clear \subseteq Scp
      /\ dp \in [0..14 -> SUBSET DpKinds]
      /\ status \subseteq DpKinds /\ pclear \subseteq DpKinds
  BY Zenon DEF Init
<1>4. TypeOK
  BY <1>1, <1>2, <1>3, Zenon DEF Init, TypeOK
<1>5. BusUsage
  BY DEF Init, BusUsage
<1>6. OnItsWay
  BY DEF Init, OnItsWay, PortsOnTheirWay, ScpOnItsWay, InPort, InPorts, InAck
<1> QED BY <1>4, <1>5, <1>6 DEF IInv

LEMMA UsageKept ==
  ASSUME TypeOK, TypeOK', BusUsage, usage' = usage, fails' >= fails,
         work' \in {"idle", "return"} <=> work \in {"idle", "return"}
  PROVE  BusUsage'
<1>1. -fails' <= usage'.bus
  BY DEF BusUsage, TypeOK
<1> QED BY <1>1, Zenon DEF BusUsage

LEMMA NextIInv == IInv /\ [Next]_vars => IInv'
<1> SUFFICES ASSUME IInv, [Next]_vars PROVE IInv'
  OBVIOUS
<1> USE DEF IInv
<1>0. ASSUME UNCHANGED <<fails, usage, work>> PROVE BusUsage'
  BY <1>0 DEF BusUsage
<1>1. CASE \/ \E i \in Scp : RaiseScp(i)
           \/ \E p \in Port : RaisePort(p)
           \/ Finish
  <2>1. UNCHANGED <<fails, usage, work>>
    BY <1>1 DEF RaiseScp, RaisePort, Finish
  <2> QED BY <1>0, <1>1, <2>1, DeviceTypes, DeviceKeeps
<1>2. CASE Alert \/ Alert_pm
  BY <1>2, AlertTypes, EntryAndReturnKeep
<1>3. CASE WriteBack
  BY <1>3, WriteBackTypes, EntryAndReturnKeep
<1>4. CASE ReadInt1 \/ ReadInt23 \/ RereadInt1
  <2>1. TypeOK' /\ OnItsWay'
    BY <1>4, ReadTypes, EntryAndReturnKeep, ReadInt23Keeps, AckKeeps
  <2>2. BusUsage'
    BY <1>4 DEF ReadInt1, ReadInt23, Round, RereadInt1, BusUsage
  <2> QED BY <2>1, <2>2
<1>5. CASE ReadPort \/ WritePort \/ RereadPort \/ PortFails
  <2>1. TypeOK' /\ OnItsWay'
    BY <1>5, PortTypes, PortKeeps
  <2>2. work \notin {"idle", "return"} /\ work' \notin {"idle", "return"}
    BY <1>5, Zenon DEF ReadPort, WritePort, RereadPort, PortFails, ServePort, NextPort
  <2>3. usage' = usage /\ (Fail \/ UNCHANGED fails)
    BY <1>5, Zenon DEF ReadPort, WritePort, RereadPort, PortFails
  <2>4. fails' >= fails
    BY <2>3, FailTypes
  <2> QED BY <2>1, <2>2, <2>3, <2>4, UsageKept
<1>6. CASE interrupt_callback \/ Ack
  <2>1. TypeOK' /\ OnItsWay'
    BY <1>6, AckTypes, AckKeeps
  <2>2. BusUsage'
    BY <1>6 DEF interrupt_callback, Ack, BusUsage
  <2> QED BY <2>1, <2>2
<1>7. CASE RereadInt23
  BY <1>7, RereadTypes, RereadKeeps
<1>8. CASE io_err
  BY <1>8, IoErrTypes, EntryAndReturnKeep
<1>9. CASE Preparer
  <2>1. UNCHANGED <<usage, scp, dp, work, loop, portloop>>
    BY <1>9, Zenon DEF Preparer, Preparing, sdw_prep_deprep_slave_ports, PrepareCtrl,
                       Completed, TimedOut, PrepareStatus, DisableIntr, device
  <2>2. TypeOK' /\ OnItsWay' /\ fails' >= fails
    BY <1>9, <2>1, PreparerTypes, OthersKeep
  <2> QED BY <2>1, <2>2, UsageKept
<1>10. CASE UNCHANGED vars
  <2>1. TypeOK'
    BY <1>10, TypeStutters, Zenon DEF IInv
  <2>2. UNCHANGED <<scp, dp, fails, usage, work, loop, portloop>>
    BY <1>10 DEF vars, device
  <2> QED BY <1>0, <2>1, <2>2, OthersKeep
<1> QED BY <1>1, <1>2, <1>3, <1>4, <1>5, <1>6, <1>7, <1>8, <1>9, <1>10
        DEF Next, Handler

LEMMA AlwaysIInv == Spec => []IInv
BY InitIInv, NextIInv, PTL DEF Spec

\* The variables of the two functions stay within their types, for any number
\* of retries, interrupts and failures.
THEOREM AlertTypeCorrect == Spec => []TypeOK
<1>1. IInv => TypeOK
  BY DEF IInv
<1> QED BY <1>1, AlwaysIInv, PTL

\* Whatever arrives or fails between two accesses: when
\* sdw_handle_slave_alerts reads the status again, the interrupts of INT1 that
\* it found on entry are cleared in the Slave, but for those raised again and
\* the ports it could not access, and the driver has been told of its own.
THEOREM FoundIsServed == Spec => []FirstServed
<1>1. IInv => FirstServed
  <2> SUFFICES ASSUME IInv, work = "reint1"
               PROVE  DealtWith(Scp \cup 0..3) /\ (IMPL_DEF \in first => told)
    BY DEF FirstServed
  <2>1. \A p \in first \cap 0..3 : Gone(p)
    BY DEF IInv, OnItsWay, PortsOnTheirWay, InAck, ToVisit, InPort
  <2>2. first \cap scp \subseteq again
    BY Zenon DEF IInv, OnItsWay, ScpOnItsWay
  <2>3. IMPL_DEF \in first => told
    BY DEF IInv, OnItsWay, ScpOnItsWay, InAck
  <2>4. DealtWith(Scp \cup 0..3)
    <3> SUFFICES ASSUME NEW x \in first, x \in Scp \cup 0..3,
                        x \in scp \/ (x \in 0..14 /\ dp[x] # {})
                 PROVE  x \in again \cup missed
      BY Zenon DEF DealtWith
    <3>1. x \in scp => x \in again
      BY <2>2, Zenon
    <3>2. x \in 0..14 => x \in 0..3
      OBVIOUS
    <3> QED BY <2>1, <3>1, <3>2, Zenon DEF Gone
  <2> QED BY <2>3, <2>4
<1> QED BY <1>1, AlwaysIInv, PTL

\* As long as no resume fails, sdw_handle_slave_alerts holds its reference to
\* the Slave exactly while it runs, on every path through it.
THEOREM ReferencesBalance == Spec => []PmBalanced
<1>1. IInv => PmBalanced
  BY DEF IInv, BusUsage, PmBalanced, TypeOK
<1> QED BY <1>1, AlwaysIInv, PTL

\* If every error code meets the channels of the stream, a call to
\* sdw_prep_deprep_slave_ports that returns 0 leaves a port whose state machine
\* has finished, whichever call's completion it consumed.
THEOREM PreparedPortsAreReady ==
  ASSUME ErrorsSeen
  PROVE  Spec => []PreparedIsReady
<1> DEFINE J == /\ PreparedIsReady
                /\ prep = "disable" => ~busy
                /\ prep # "idle" => ~ret0
<1>1. Init => J
  BY DEF Init, PreparedIsReady
<1>2. J /\ [Next]_vars => J'
  <2> SUFFICES ASSUME J, [Next]_vars
               PROVE  J'
    OBVIOUS
  <2>1. CASE sdw_prep_deprep_slave_ports
    BY <2>1 DEF sdw_prep_deprep_slave_ports, PreparedIsReady
  <2>2. CASE PrepareCtrl
    <3>1. ~ret0 /\ ret0' = ret0 /\ prep' # "disable"
      BY <2>2 DEF PrepareCtrl
    <3> QED BY <3>1 DEF PreparedIsReady
  <2>3. CASE PrepareStatus
    <3>1. busy' = busy
      BY <2>3 DEF PrepareStatus, device
    <3>2. busy => ~Ready(ChMask)
      BY AlertAssumption, Zenon DEF Ready
    <3>3. \A e \in Errors : ~Ready(e)
      BY ErrorsSeen, Zenon DEF ErrorsSeen, Ready
    <3>4. PICK val : /\ val = (IF busy THEN ChMask ELSE {}) \/ val \in Errors
                     /\ prep' = IF Ready(val) /\ ~prepare THEN "disable" ELSE "idle"
                     /\ ret0' = (Ready(val) /\ prepare)
      BY <2>3, Zenon DEF PrepareStatus
    <3>5. busy => ~Ready(val)
      BY <3>2, <3>3, <3>4, Zenon
    <3>6. busy => prep' = "idle" /\ ~ret0'
      BY <3>4, <3>5, Zenon
    <3>7. prep' # "idle" => ~ret0'
      BY <3>4, Zenon
    <3> QED BY <3>1, <3>6, <3>7 DEF PreparedIsReady
  <2>4. CASE DisableIntr
    BY <2>4 DEF DisableIntr, PreparedIsReady
  <2>5. CASE Finish
    BY <2>5 DEF Finish, PreparedIsReady, caller
  <2>6. CASE UNCHANGED <<busy, ret0, prep>>
    BY <2>6 DEF PreparedIsReady
  <2>7. CASE Handler
    <3>1. UNCHANGED <<busy, ret0, prep>>
      BY <2>7, Zenon DEF Handler, Alert, Alert_pm, ReadInt1, ReadInt23, ReadPort,
                  WritePort, RereadPort, PortFails, interrupt_callback, Ack,
                  RereadInt1, RereadInt23, io_err, WriteBack, device, caller
    <3> QED BY <2>6, <3>1
  <2>8. CASE Completed \/ TimedOut
    BY <2>8 DEF Completed, TimedOut, PreparedIsReady, device
  <2>9. CASE \/ \E i \in Scp : RaiseScp(i)
             \/ \E p \in Port : RaisePort(p)
             \/ UNCHANGED vars
    <3>1. UNCHANGED <<busy, ret0, prep>>
      BY <2>9, Zenon DEF RaiseScp, RaisePort, vars, device, caller
    <3> QED BY <2>6, <3>1
  <2> QED BY <2>1, <2>2, <2>3, <2>4, <2>5, <2>7, <2>8, <2>9, Zenon
          DEF Next, Preparer, Preparing
<1> QED BY <1>1, <1>2, PTL DEF Spec
===============================================================================
