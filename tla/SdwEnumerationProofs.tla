------------------------- MODULE SdwEnumerationProofs -------------------------
(***************************************************************************)
(* Proofs about SdwEnumeration, for any devices, any number of them and    *)
(* any of the Events.                                                      *)
(***************************************************************************)
EXTENDS SdwEnumeration, TLAPS

\* A number belongs to one Slave entry for good: it is handed out once, the
\* entry uses it or zero, and the device answers to it or to zero.  While the
\* write of a number is in flight it is the number of the entry that answered.
NumbersOwned ==
  /\ 0 \in assigned
  /\ \A d \in Slave : dev_num[d] \in {0, dev_num_sticky[d]}
  /\ \A d \in Slave : dev_num_sticky[d] \in assigned
  /\ \A d, e \in Slave :
       dev_num_sticky[d] # 0 /\ dev_num_sticky[d] = dev_num_sticky[e] => d = e
  /\ \A d \in Device : at[d] \in Number => d \in Slave /\ at[d] = dev_num_sticky[d]
  /\ pc = "write" => num = dev_num_sticky[cur] /\ num # 0

IInv == TypeOK /\ NumbersOwned

USE EnumAssumption DEF Off, DevNum, Number

-------------------------------------------------------------------------------
LEMMA PingType ==
  ASSUME NEW i, NEW a, NEW l
  PROVE  Ping(i, a, l) \in Status
BY Zenon DEF Ping, Status

LEMMA ReportedType ==
  ASSUME NEW a, NEW l
  PROVE  Reported(a, l) \subseteq DevNum \X Status
BY PingType DEF Reported

LEMMA StatusOfType ==
  ASSUME NEW i, ack \subseteq DevNum \X Status
  PROVE  StatusOf(i) \in Status
<1> DEFINE bits == {b \in ack : b[1] = i}
<1>1. CASE bits = {}
  BY <1>1, Zenon DEF StatusOf, Status
<1>2. CASE bits # {}
  <2>1. (CHOOSE b \in bits : TRUE) \in bits
    BY <1>2, Zenon
  <2>2. (CHOOSE b \in bits : TRUE)[2] \in Status
    BY <2>1, Zenon
  <2> QED BY <1>2, <2>2, PingType, Zenon DEF StatusOf
<1> QED BY <1>1, <1>2, Zenon

LEMMA NobodyType == Nobody \in Slave
BY Zenon DEF Nobody, Slave

\* The handler marks Slaves without leaving the types of its two fields.
LEMMA UnattachedType ==
  ASSUME NEW D, TypeOK, Unattached(D)
  PROVE  /\ status' \in [Slave -> Status]
         /\ initialization_complete' \in [Slave -> Nat]
BY Zenon DEF Unattached, TypeOK, Status

LEMMA UpdateStatusType ==
  ASSUME NEW d \in Slave, NEW s, TypeOK, UpdateStatus(d, s)
  PROVE  hw_init' \in [Slave -> BOOLEAN]
<1>1. hw_init \in [Slave -> BOOLEAN]
  BY Zenon DEF TypeOK
<1> QED BY <1>1, Zenon DEF UpdateStatus

-------------------------------------------------------------------------------
(* Types, one lemma per action *)

LEMMA AttachType ==
  ASSUME NEW d \in Device, TypeOK, Attach(d)
  PROVE  TypeOK'
BY ReportedType, SMTT(40) DEF Attach, TypeOK, hwVars, irqVars, workVars, numVars, slaveVars, codecVars

LEMMA DropType ==
  ASSUME NEW d \in Device, TypeOK, Drop(d)
  PROVE  TypeOK'
BY ReportedType, Zenon DEF Drop, TypeOK, hwVars, irqVars, workVars, numVars, slaveVars, codecVars

LEMMA AlertType ==
  ASSUME NEW d \in Device, TypeOK, Alert(d)
  PROVE  TypeOK'
BY ReportedType, Zenon DEF Alert, TypeOK, hwVars, irqVars, workVars, numVars, slaveVars, codecVars

LEMMA sdw_cdns_irqType ==
  ASSUME TypeOK, sdw_cdns_irq
  PROVE  TypeOK'
BY Zenon DEF sdw_cdns_irq, TypeOK, hwVars, irqVars, workVars, numVars, slaveVars, codecVars

LEMMA cdns_update_slave_status_workType ==
  ASSUME TypeOK, cdns_update_slave_status_work
  PROVE  TypeOK'
BY Zenon DEF cdns_update_slave_status_work, TypeOK, hwVars, irqVars, workVars, numVars, slaveVars, codecVars

LEMMA cdns_update_slave_statusType ==
  ASSUME TypeOK, cdns_update_slave_status
  PROVE  TypeOK'
BY StatusOfType, Zenon DEF cdns_update_slave_status, TypeOK, hwVars, irqVars, workVars, numVars, slaveVars, codecVars

LEMMA AcknowledgeType ==
  ASSUME TypeOK, Acknowledge
  PROVE  TypeOK'
BY NobodyType DEF Acknowledge, TypeOK, hwVars, irqVars, workVars, numVars, slaveVars, codecVars, Acked, Status

LEMMA FirstLoopType ==
  ASSUME TypeOK, FirstLoop
  PROVE  TypeOK'
<1>1. Unattached(FellOff)
  BY Zenon DEF FirstLoop
<1>2. /\ status' \in [Slave -> Status]
      /\ initialization_complete' \in [Slave -> Nat]
  BY <1>1, UnattachedType, Zenon
<1>3. /\ pc' \in {"devid", "status"}
      /\ count' \in Nat
      /\ todo' \subseteq Number
  <2>1. CASE seen[0] = "ATTACHED"
    <3>1. pc' = "devid" /\ count' = 0 /\ todo' = todo
      BY <2>1, Zenon DEF FirstLoop
    <3> QED BY <3>1, Zenon DEF TypeOK
  <2>2. CASE seen[0] # "ATTACHED"
    BY <2>2, Zenon DEF FirstLoop, TypeOK
  <2> QED BY <2>1, <2>2, Zenon
<1> QED BY <1>2, <1>3, Zenon DEF FirstLoop, TypeOK, hwVars, irqVars, workVars, numVars, slaveVars, codecVars

LEMMA EndOfIdsType ==
  ASSUME TypeOK, EndOfIds
  PROVE  TypeOK'
BY Zenon DEF EndOfIds, TypeOK, hwVars, irqVars, workVars, numVars, slaveVars, codecVars

LEMMA NotFoundType ==
  ASSUME NEW d \in Device, TypeOK, NotFound(d)
  PROVE  TypeOK'
BY DEF NotFound, TypeOK, hwVars, irqVars, workVars, numVars, slaveVars, codecVars, Again

LEMMA sdw_assign_device_numType ==
  ASSUME NEW d \in Slave, TypeOK, sdw_assign_device_num(d)
  PROVE  TypeOK'
<1>1. /\ num' \in DevNum
      /\ assigned' \subseteq DevNum
      /\ dev_num_sticky' \in [Slave -> DevNum]
  <2>1. CASE Reused(d) # 0
    <3>1. num' = Reused(d) /\ UNCHANGED <<assigned, dev_num_sticky>>
      BY <2>1, Zenon DEF sdw_assign_device_num
    <3>2. Reused(d) \in DevNum
      BY Zenon DEF Reused, TypeOK
    <3> QED BY <3>1, <3>2, Zenon DEF TypeOK
  <2>2. CASE Reused(d) = 0
    <3>1. PICK b \in DevNum :
            /\ num' = b
            /\ assigned' = assigned \cup {b}
            /\ dev_num_sticky' = [dev_num_sticky EXCEPT ![d] = b]
      BY <2>2, Zenon DEF sdw_assign_device_num, Taken
    <3> QED BY <3>1, Zenon DEF TypeOK
  <2> QED BY <2>1, <2>2, Zenon
<1>2. dev_num' \in [Slave -> DevNum]
  BY DEF sdw_assign_device_num, TypeOK
<1> QED BY <1>1, <1>2, Zenon DEF sdw_assign_device_num, TypeOK, hwVars, irqVars, workVars, numVars, slaveVars, codecVars

LEMMA NoNumberType ==
  ASSUME NEW d \in Slave, TypeOK, NoNumber(d)
  PROVE  TypeOK'
BY Zenon DEF NoNumber, TypeOK, hwVars, irqVars, workVars, numVars, slaveVars, codecVars

LEMMA WriteDevNumberType ==
  ASSUME TypeOK, WriteDevNumber
  PROVE  TypeOK'
<1>1. at' \in [Device -> {Off} \cup DevNum]
  BY Zenon DEF WriteDevNumber, TypeOK, Slave
<1>2. intstat' \subseteq DevNum \X Status
  BY ReportedType, Zenon DEF WriteDevNumber, TypeOK
<1>3. dev_num' \in [Slave -> DevNum]
  BY Zenon DEF WriteDevNumber, TypeOK
<1>4. count' \in Nat /\ pc' \in {"devid", "ack"}
  BY DEF WriteDevNumber, Again, TypeOK
<1> QED BY <1>1, <1>2, <1>3, <1>4, Zenon DEF WriteDevNumber, TypeOK, hwVars, irqVars, workVars, numVars, slaveVars, codecVars

LEMMA WriteDevNumberErrType ==
  ASSUME TypeOK, WriteDevNumberErr
  PROVE  TypeOK'
BY Zenon DEF WriteDevNumberErr, TypeOK, hwVars, irqVars, workVars, numVars, slaveVars, codecVars

LEMMA EndOfSlavesType ==
  ASSUME TypeOK, EndOfSlaves
  PROVE  TypeOK'
BY Zenon DEF EndOfSlaves, TypeOK, hwVars, irqVars, workVars, numVars, slaveVars, codecVars

LEMMA SlaveGoneType ==
  ASSUME NEW d \in Slave, TypeOK, SlaveGone(d)
  PROVE  TypeOK'
BY UnattachedType, UpdateStatusType, Zenon DEF SlaveGone, TypeOK, hwVars, irqVars, workVars, numVars, slaveVars, codecVars, Handled

LEMMA SlaveStillType ==
  ASSUME NEW d \in Slave, TypeOK, SlaveStill(d)
  PROVE  TypeOK'
BY UpdateStatusType, Zenon DEF SlaveStill, TypeOK, hwVars, irqVars, workVars, numVars, slaveVars, codecVars, Handled, Status

LEMMA SlaveAttachedType ==
  ASSUME NEW d \in Slave, TypeOK, SlaveAttached(d)
  PROVE  TypeOK'
BY Zenon DEF SlaveAttached, TypeOK, hwVars, irqVars, workVars, numVars, slaveVars, codecVars, Status

LEMMA CompleteType ==
  ASSUME TypeOK, Complete
  PROVE  TypeOK'
<1>1. hw_init' \in [Slave -> BOOLEAN]
  <2>1. cur \in Slave /\ UpdateStatus(cur, "ATTACHED")
    BY Zenon DEF Complete, TypeOK
  <2> QED BY <2>1, UpdateStatusType, Zenon
<1>2. initialization_complete' \in [Slave -> Nat]
  BY DEF Complete, TypeOK
<1>3. todo' \subseteq Number
  BY Zenon DEF Complete, Handled, TypeOK
<1> QED BY <1>1, <1>2, <1>3, Zenon DEF Complete, TypeOK, hwVars, irqVars, workVars, numVars, slaveVars, codecVars

LEMMA SlaveAlertType ==
  ASSUME NEW d \in Slave, TypeOK, SlaveAlert(d)
  PROVE  TypeOK'
<1>1. hw_init' \in [Slave -> BOOLEAN]
  BY UpdateStatusType, Zenon DEF SlaveAlert
<1>2. /\ codec' \in [Slave -> {"active", "suspended", "resuming"}]
      /\ unattach_request' \in [Slave -> BOOLEAN]
      /\ initialization_complete' \in [Slave -> Nat]
  <2>1. CASE codec[d] = "active"
    BY <2>1, Zenon DEF SlaveAlert, TypeOK
  <2>2. CASE codec[d] # "active" /\ MayResume(d)
    <3>1. codec' = [codec EXCEPT ![d] = "active"]
      BY <2>2, Zenon DEF SlaveAlert
    <3>2. unattach_request' =
            [unattach_request EXCEPT ![d] = unattach_request[d] /\ ~hw_init[d]]
      BY <2>2, Zenon DEF SlaveAlert
    <3>3. initialization_complete' =
            [initialization_complete EXCEPT ![d] = initialization_complete[d]]
      BY <2>2, Zenon DEF SlaveAlert
    <3>4. /\ codec \in [Slave -> {"active", "suspended", "resuming"}]
          /\ unattach_request \in [Slave -> BOOLEAN]
          /\ initialization_complete \in [Slave -> Nat]
      BY Zenon DEF TypeOK
    <3>5. unattach_request' \in [Slave -> BOOLEAN]
      BY <3>2, <3>4, Zenon
    <3> QED BY <3>1, <3>3, <3>4, <3>5, Zenon
  <2>3. CASE codec[d] # "active" /\ ~MayResume(d)
    <3>1. initialization_complete[d] \in Nat /\ initialization_complete[d] # 0
      BY <2>3, Zenon DEF SlaveAlert, Stuck, TypeOK
    <3>2. initialization_complete' =
            [initialization_complete EXCEPT ![d] = initialization_complete[d] - 1]
      BY <2>3, Zenon DEF SlaveAlert
    <3>3. initialization_complete' \in [Slave -> Nat]
      BY <3>1, <3>2 DEF TypeOK
    <3>4. /\ codec' \in [Slave -> {"active", "suspended", "resuming"}]
          /\ unattach_request' \in [Slave -> BOOLEAN]
      BY <2>3, Zenon DEF SlaveAlert, TypeOK
    <3> QED BY <3>3, <3>4, Zenon
  <2> QED BY <2>1, <2>2, <2>3, Zenon
<1>3. /\ alert' \in [Device -> BOOLEAN]
      /\ status' \in [Slave -> Status]
      /\ todo' \subseteq Number
  BY Zenon DEF SlaveAlert, Handled, TypeOK, Status
<1>4. intstat' \subseteq DevNum \X Status
  BY ReportedType, Zenon DEF SlaveAlert, TypeOK
<1> QED BY <1>1, <1>2, <1>3, <1>4, Zenon DEF SlaveAlert, TypeOK, hwVars, irqVars, workVars, numVars, slaveVars, codecVars

LEMMA SlaveAlertStuckType ==
  ASSUME NEW d \in Slave, TypeOK, SlaveAlertStuck(d)
  PROVE  TypeOK'
BY UpdateStatusType, Zenon DEF SlaveAlertStuck, TypeOK, hwVars, irqVars, workVars, numVars, slaveVars, codecVars, Handled, Status

LEMMA CodecResumeType ==
  ASSUME NEW d \in Slave, TypeOK, CodecResume(d)
  PROVE  TypeOK'
BY Zenon DEF CodecResume, TypeOK, hwVars, irqVars, workVars, numVars, slaveVars, codecVars

LEMMA CodecResumedType ==
  ASSUME NEW d \in Slave, TypeOK, CodecResumed(d)
  PROVE  TypeOK'
<1>1. initialization_complete \in [Slave -> Nat] /\ initialization_complete[d] > 0
  BY Zenon DEF CodecResumed, Initialized, TypeOK
<1>2. initialization_complete' =
        [initialization_complete EXCEPT ![d] = initialization_complete[d] - 1]
  BY Zenon DEF CodecResumed
<1>3. initialization_complete' \in [Slave -> Nat]
  BY <1>1, <1>2
<1>4. /\ codec' \in [Slave -> {"active", "suspended", "resuming"}]
      /\ unattach_request' \in [Slave -> BOOLEAN]
  BY Zenon DEF CodecResumed, TypeOK
<1> QED BY <1>3, <1>4, Zenon DEF CodecResumed, TypeOK, hwVars, irqVars, workVars, numVars

LEMMA CodecTimeoutType ==
  ASSUME NEW d \in Slave, TypeOK, CodecTimeout(d)
  PROVE  TypeOK'
BY Zenon DEF CodecTimeout, TypeOK, hwVars, irqVars, workVars, numVars, slaveVars, codecVars

LEMMA intel_suspend_runtimeType ==
  ASSUME TypeOK, intel_suspend_runtime
  PROVE  TypeOK'
BY ZenonT(40) DEF intel_suspend_runtime, TypeOK, hwVars, irqVars, workVars, numVars, slaveVars, codecVars

LEMMA intel_resume_runtimeType ==
  ASSUME TypeOK, intel_resume_runtime
  PROVE  TypeOK'
BY UnattachedType, Zenon DEF intel_resume_runtime, TypeOK, hwVars, irqVars, workVars, numVars, slaveVars, codecVars, Requested

LEMMA NextType ==
  ASSUME TypeOK, [Next]_vars
  PROVE  TypeOK'
<1>1. CASE Bus
  BY <1>1, AttachType, DropType, AlertType, Zenon DEF Bus
<1>2. CASE sdw_cdns_irq
  BY <1>2, sdw_cdns_irqType, Zenon
<1>3. CASE Work
  BY Zenon, <1>3, cdns_update_slave_status_workType, cdns_update_slave_statusType,
     AcknowledgeType, FirstLoopType, EndOfIdsType, NotFoundType,
     sdw_assign_device_numType, NoNumberType, WriteDevNumberType,
     WriteDevNumberErrType, EndOfSlavesType, SlaveGoneType, SlaveStillType,
     SlaveAttachedType, CompleteType, SlaveAlertType, SlaveAlertStuckType
     DEF Work
<1>4. CASE Codecs
  BY <1>4, CodecResumeType, CodecResumedType, CodecTimeoutType, Zenon DEF Codecs
<1>5. CASE Power
  BY <1>5, intel_suspend_runtimeType, intel_resume_runtimeType, Zenon DEF Power
<1>6. CASE UNCHANGED vars
  BY <1>6, Zenon DEF vars, TypeOK, hwVars, irqVars, workVars, numVars, slaveVars, codecVars
<1> QED BY <1>1, <1>2, <1>3, <1>4, <1>5, <1>6, Zenon DEF Next

-------------------------------------------------------------------------------
(* Ownership of device numbers *)

\* A step that moves no device, hands out no number and leaves no write in
\* flight but the one there was.
LEMMA OwnedQuiet ==
  ASSUME NumbersOwned, UNCHANGED <<at, numVars, cur, num>>,
         pc' = "write" => pc = "write"
  PROVE  NumbersOwned'
BY Zenon DEF NumbersOwned, numVars

\* A step outside the work item that moves devices off the bus or to 0.
LEMMA OwnedMoved ==
  ASSUME TypeOK, TypeOK', NumbersOwned, UNCHANGED <<numVars, pc, cur, num>>,
         \A d \in Device : at'[d] \in {Off, 0, at[d]}
  PROVE  NumbersOwned'
BY DEF NumbersOwned, numVars

\* A step that ends with no write in flight and moves nothing.
LEMMA OwnedNoWrite ==
  ASSUME NumbersOwned, UNCHANGED <<at, numVars>>, pc' # "write"
  PROVE  NumbersOwned'
BY Zenon DEF NumbersOwned, numVars

LEMMA OwnedBus ==
  ASSUME IInv, TypeOK', Bus
  PROVE  NumbersOwned'
<1>1. UNCHANGED <<numVars, pc, cur, num>>
  BY Zenon DEF Bus, Attach, Drop, Alert, workVars
<1>2. \A d \in Device : at'[d] \in {Off, 0, at[d]}
  BY Zenon DEF Bus, Attach, Drop, Alert, IInv, TypeOK
<1> QED BY <1>1, <1>2, OwnedMoved, Zenon DEF IInv

LEMMA OwnedPower ==
  ASSUME IInv, TypeOK', Power
  PROVE  NumbersOwned'
<1>1. UNCHANGED <<numVars, pc, cur, num>>
  BY Zenon DEF Power, intel_suspend_runtime, intel_resume_runtime, workVars
<1>2. \A d \in Device : at'[d] \in {Off, 0, at[d]}
  BY SMTT(40) DEF Power, intel_suspend_runtime, intel_resume_runtime, hwVars, IInv, TypeOK
<1> QED BY <1>1, <1>2, OwnedMoved, Zenon DEF IInv

\* A new number is a bit that was clear, so no entry had it.
LEMMA OwnedAssign ==
  ASSUME IInv, TypeOK', NEW d \in Slave, sdw_assign_device_num(d)
  PROVE  NumbersOwned'
<1>1. /\ dev_num' = [dev_num EXCEPT ![d] = 0]
      /\ cur' = d /\ at' = at
  BY Zenon DEF sdw_assign_device_num, hwVars
<1>2. CASE Reused(d) # 0
  <2>1. num' = Reused(d) /\ assigned' = assigned /\ dev_num_sticky' = dev_num_sticky
    BY <1>2, Zenon DEF sdw_assign_device_num
  <2>2. Reused(d) = dev_num_sticky[d]
    BY <1>2, Zenon DEF Reused, IInv, NumbersOwned
  <2> QED BY <1>1, <1>2, <2>1, <2>2, Zenon DEF IInv, NumbersOwned, TypeOK
<1>3. CASE Reused(d) = 0
  <2>1. PICK b \in DevNum :
          /\ b \notin assigned
          /\ num' = b
          /\ assigned' = assigned \cup {b}
          /\ dev_num_sticky' = [dev_num_sticky EXCEPT ![d] = b]
    BY <1>3, Zenon DEF sdw_assign_device_num, Taken, FirstZeroBit
  <2>2. dev_num_sticky[d] = 0
    BY <1>3, Zenon DEF Reused, IInv, NumbersOwned
  <2>3. b # 0 /\ \A e \in Slave : dev_num_sticky[e] # b
    BY <2>1, Zenon DEF IInv, NumbersOwned
  <2>4. \A e \in Device : at[e] \in Number => e # d
    BY <2>2 DEF IInv, NumbersOwned
  <2>5. \A e \in Slave : dev_num_sticky'[e] = IF e = d THEN b ELSE dev_num_sticky[e]
    BY <2>1, Zenon DEF IInv, TypeOK
  <2>6. \A e \in Slave : dev_num'[e] \in {0, dev_num_sticky'[e]}
    BY <1>1, <2>5, Zenon DEF IInv, TypeOK, NumbersOwned
  <2>7. \A e \in Slave : dev_num_sticky'[e] \in assigned'
    BY <2>1, <2>5 DEF IInv, NumbersOwned
  <2>8. \A e, f \in Slave :
          dev_num_sticky'[e] # 0 /\ dev_num_sticky'[e] = dev_num_sticky'[f] => e = f
    BY <2>3, <2>5, Zenon DEF IInv, NumbersOwned
  <2>9. \A e \in Device : at'[e] \in Number => e \in Slave /\ at'[e] = dev_num_sticky'[e]
    BY <1>1, <2>4, <2>5, Zenon DEF IInv, NumbersOwned
  <2> QED BY <1>1, <2>1, <2>3, <2>5, <2>6, <2>7, <2>8, <2>9, Zenon DEF IInv, NumbersOwned
<1> QED BY <1>2, <1>3, Zenon

\* The write gives the device the number of its entry.
LEMMA OwnedWrite ==
  ASSUME IInv, TypeOK', WriteDevNumber
  PROVE  NumbersOwned'
<1>1. /\ at' = [at EXCEPT ![cur] = num]
      /\ dev_num' = [dev_num EXCEPT ![cur] = dev_num_sticky[cur]]
      /\ UNCHANGED <<assigned, dev_num_sticky>>
      /\ pc' # "write"
  BY Zenon DEF WriteDevNumber, Again
<1>2. cur \in Slave /\ num = dev_num_sticky[cur]
  BY Zenon DEF WriteDevNumber, IInv, TypeOK, NumbersOwned
<1>3. \A d \in Slave : dev_num'[d] \in {0, dev_num_sticky'[d]}
  BY <1>1, Zenon DEF IInv, TypeOK, NumbersOwned
<1>4. \A d \in Device : at'[d] \in Number => d \in Slave /\ at'[d] = dev_num_sticky'[d]
  BY <1>1, <1>2, Zenon DEF IInv, TypeOK, NumbersOwned
<1> QED BY <1>1, <1>3, <1>4, Zenon DEF IInv, NumbersOwned

LEMMA OwnedWork ==
  ASSUME IInv, TypeOK', Work
  PROVE  NumbersOwned'
<1>1. CASE WriteDevNumber
  BY <1>1, OwnedWrite, Zenon
<1>2. CASE \E d \in Slave : sdw_assign_device_num(d)
  BY <1>2, OwnedAssign, Zenon
<1>3. CASE \/ cdns_update_slave_status_work \/ cdns_update_slave_status
           \/ Acknowledge \/ FirstLoop \/ EndOfIds \/ WriteDevNumberErr
           \/ EndOfSlaves \/ Complete
  <2>1. UNCHANGED <<at, numVars>> /\ pc' # "write"
    BY <1>3, Zenon DEF cdns_update_slave_status_work, cdns_update_slave_status,
       Acknowledge, FirstLoop, EndOfIds, WriteDevNumberErr, EndOfSlaves,
       Complete, hwVars
  <2> QED BY <2>1, OwnedNoWrite, Zenon DEF IInv
<1>4. CASE \/ \E d \in Device : NotFound(d)
           \/ \E d \in Slave : \/ NoNumber(d) \/ SlaveGone(d) \/ SlaveStill(d)
                               \/ SlaveAttached(d) \/ SlaveAlert(d)
                               \/ SlaveAlertStuck(d)
  <2>1. UNCHANGED <<at, numVars>> /\ pc' # "write"
    BY <1>4, Zenon DEF NotFound, Again, NoNumber, SlaveGone, SlaveStill,
       SlaveAttached, SlaveAlert, SlaveAlertStuck, NextSlave, hwVars
  <2> QED BY <2>1, OwnedNoWrite, Zenon DEF IInv
<1> QED BY <1>1, <1>2, <1>3, <1>4, Zenon DEF Work

LEMMA OwnedNext ==
  ASSUME IInv, TypeOK', [Next]_vars
  PROVE  NumbersOwned'
<1>1. CASE Bus
  BY <1>1, OwnedBus, Zenon
<1>2. CASE Work
  BY <1>2, OwnedWork, Zenon
<1>3. CASE Power
  BY <1>3, OwnedPower, Zenon
<1>4. CASE sdw_cdns_irq \/ Codecs \/ UNCHANGED vars
  <2>1. UNCHANGED <<at, numVars, cur, num, pc>>
    BY <1>4, Zenon DEF sdw_cdns_irq, Codecs, CodecResume, CodecResumed, CodecTimeout,
       vars, hwVars, workVars
  <2> QED BY <2>1, OwnedQuiet, Zenon DEF IInv
<1> QED BY <1>1, <1>2, <1>3, <1>4, Zenon DEF Next

-------------------------------------------------------------------------------
LEMMA InitIInv == Init => IInv
<1> SUFFICES ASSUME Init PROVE IInv
  BY Zenon
<1>1. /\ link \in {"up", "down"}
      /\ at \in [Device -> {Off} \cup DevNum]
      /\ alert \in [Device -> BOOLEAN] /\ armed \in [Device -> BOOLEAN]
      /\ intstat \subseteq DevNum \X Status
      /\ unmasked \in BOOLEAN /\ work \in BOOLEAN
  BY Zenon DEF Init
<1>2. /\ pc \in {"idle", "combine", "fell", "devid", "write", "status", "complete", "ack"}
      /\ ack \subseteq DevNum \X Status
      /\ seen \in [DevNum -> Status]
      /\ cur \in Slave /\ num \in DevNum /\ count \in Nat /\ todo \subseteq Number
  BY NobodyType DEF Init, Status
<1>3. /\ assigned \subseteq DevNum
      /\ dev_num \in [Slave -> DevNum] /\ dev_num_sticky \in [Slave -> DevNum]
      /\ status \in [Slave -> Status]
      /\ initialization_complete \in [Slave -> Nat]
  BY DEF Init, Status
<1>4. /\ unattach_request \in [Slave -> BOOLEAN]
      /\ codec \in [Slave -> {"active", "suspended", "resuming"}]
      /\ hw_init \in [Slave -> BOOLEAN] /\ owed \in [Slave -> BOOLEAN]
  BY Zenon DEF Init
<1>5. TypeOK
  BY <1>1, <1>2, <1>3, <1>4, Zenon DEF TypeOK
<1>6. NumbersOwned
  BY DEF Init, NumbersOwned
<1> QED BY <1>5, <1>6, Zenon DEF IInv

LEMMA IInvNext == IInv /\ [Next]_vars => IInv'
BY NextType, OwnedNext, Zenon DEF IInv

\* The inductive invariant holds of every behaviour.
THEOREM NumbersAreOwned == Spec => []IInv
BY InitIInv, IInvNext, PTL DEF Spec

\* The fields of the Slave entries, the locals of the work item and the
\* sticky bits stay in their types, whatever the bus, the power management
\* and the codecs do in between.
THEOREM EnumTypeCorrect == Spec => []TypeOK
<1>1. IInv => TypeOK
  BY DEF IInv
<1> QED BY <1>1, NumbersAreOwned, PTL

\* The owner of a number is the one device and the one entry that have it.
LEMMA OwnedAddressee == IInv => RightAddressee
<1> SUFFICES ASSUME IInv PROVE RightAddressee
  BY Zenon
<1>1. \A d \in Slave : dev_num[d] # 0 => dev_num[d] = dev_num_sticky[d] /\ dev_num[d] \in Number
  BY DEF IInv, TypeOK, NumbersOwned
<1>2. \A d \in Device : at[d] \in Number => d \in Slave /\ at[d] = dev_num_sticky[d]
  BY Zenon DEF IInv, NumbersOwned
<1>3. \A d, e \in Slave :
        dev_num_sticky[d] # 0 /\ dev_num_sticky[d] = dev_num_sticky[e] => d = e
  BY Zenon DEF IInv, NumbersOwned
<1>4. \A d \in Slave, e \in Device : dev_num[d] # 0 /\ at[e] = dev_num[d] => e = d
  <2> TAKE d \in Slave, e \in Device
  <2> HAVE dev_num[d] # 0 /\ at[e] = dev_num[d]
  <2>1. dev_num[d] = dev_num_sticky[d] /\ at[e] \in Number
    BY <1>1, Zenon
  <2>2. e \in Slave /\ at[e] = dev_num_sticky[e]
    BY <1>2, <2>1, Zenon
  <2> QED BY <1>3, <2>1, <2>2, Zenon
<1>5. \A d, e \in Device : at[d] \in Number /\ at[d] = at[e] => d = e
  BY <1>2, <1>3
<1>6. \A d, e \in Slave : dev_num[d] # 0 /\ dev_num[d] = dev_num[e] => d = e
  BY <1>1, <1>3, Zenon
<1> QED BY <1>4, <1>5, <1>6, Zenon DEF RightAddressee

\* For any devices and any device numbers: a message sent to the dev_num of a
\* Slave entry (sdw_assign_device_num) reaches the device of that entry or
\* none, and no two devices answer to one number.
THEOREM MessagesReachTheirSlave == Spec => []RightAddressee
BY OwnedAddressee, NumbersAreOwned, PTL

-------------------------------------------------------------------------------
(* Completions, when power management waits for the work item *)

\* A completion is counted only while the entry of its Slave is not UNATTACHED:
\* sdw_modify_slave_status takes it back.
CompletionIsCurrent ==
  \A d \in Slave : initialization_complete[d] > 0 => status[d] # "UNATTACHED"

\* The bus is reset only while no work item is queued or running, so nobody
\* takes a Slave off the bus between its two steps SlaveAttached and Complete.
CInv ==
  /\ TypeOK
  /\ CompletionIsCurrent
  /\ pc = "complete" => status[cur] # "UNATTACHED"
  /\ link = "down" => pc = "idle" /\ ~work

\* A step that leaves status alone and adds no completion.
LEMMA CurrentQuiet ==
  ASSUME CInv, TypeOK', status' = status,
         \A d \in Slave : initialization_complete'[d] <= initialization_complete[d]
  PROVE  CompletionIsCurrent'
<1> SUFFICES ASSUME NEW d \in Slave, initialization_complete'[d] > 0
             PROVE  status'[d] # "UNATTACHED"
  BY Zenon DEF CompletionIsCurrent
<1>1. initialization_complete[d] \in Nat /\ initialization_complete'[d] \in Nat
  BY Zenon DEF CInv, TypeOK
<1>2. initialization_complete[d] > 0
  BY <1>1
<1> QED BY <1>2, Zenon DEF CInv, CompletionIsCurrent

\* Slaves that leave the bus lose their completion with it.
LEMMA CurrentUnattached ==
  ASSUME CInv, NEW D, Unattached(D)
  PROVE  CompletionIsCurrent'
BY DEF CInv, TypeOK, Unattached, CompletionIsCurrent

\* A step that moves one Slave to a status other than UNATTACHED.
LEMMA CurrentPresent ==
  ASSUME CInv, TypeOK', NEW d \in Slave, NEW s \in {"ATTACHED", "ALERT"},
         status' = [status EXCEPT ![d] = s],
         \A e \in Slave : initialization_complete'[e] <= initialization_complete[e]
  PROVE  CompletionIsCurrent'
<1> SUFFICES ASSUME NEW e \in Slave, initialization_complete'[e] > 0
             PROVE  status'[e] # "UNATTACHED"
  BY Zenon DEF CompletionIsCurrent
<1>1. initialization_complete[e] \in Nat /\ initialization_complete'[e] \in Nat
  BY Zenon DEF CInv, TypeOK
<1>2. initialization_complete[e] > 0
  BY <1>1
<1>3. status[e] # "UNATTACHED"
  BY <1>2, Zenon DEF CInv, CompletionIsCurrent
<1>4. status'[e] = IF e = d THEN s ELSE status[e]
  BY Zenon DEF CInv, TypeOK
<1> QED BY <1>3, <1>4, Zenon

\* The work item runs only while the link is up.
LEMMA WorkLinkUp ==
  ASSUME CInv, Work
  PROVE  link = "up" /\ link' = link
<1>1. pc # "idle" \/ work
  BY ZenonT(40) DEF Work, cdns_update_slave_status_work, cdns_update_slave_status,
     Acknowledge, FirstLoop, EndOfIds, WriteDevNumber, WriteDevNumberErr,
     EndOfSlaves, Complete, NotFound, sdw_assign_device_num, NoNumber,
     SlaveGone, SlaveStill, SlaveAttached, SlaveAlert, SlaveAlertStuck, NextSlave
<1>2. link' = link
  BY ZenonT(40) DEF Work, cdns_update_slave_status_work, cdns_update_slave_status,
     Acknowledge, FirstLoop, EndOfIds, WriteDevNumber, WriteDevNumberErr,
     EndOfSlaves, Complete, NotFound, sdw_assign_device_num, NoNumber,
     SlaveGone, SlaveStill, SlaveAttached, SlaveAlert, SlaveAlertStuck, hwVars
<1> QED BY <1>1, <1>2, Zenon DEF CInv, TypeOK

LEMMA CurrentWork ==
  ASSUME CInv, TypeOK', Work
  PROVE  CInv'
<1>1. link = "up"
  BY WorkLinkUp, Zenon
<1>2. link' = link
  BY WorkLinkUp, Zenon
<1>3. CASE \/ cdns_update_slave_status_work \/ cdns_update_slave_status
           \/ Acknowledge \/ EndOfIds \/ WriteDevNumber \/ WriteDevNumberErr
           \/ EndOfSlaves
           \/ \E d \in Device : NotFound(d)
           \/ \E d \in Slave : sdw_assign_device_num(d) \/ NoNumber(d)
  <2>1. UNCHANGED <<status, initialization_complete>> /\ pc' # "complete"
    BY <1>3, Zenon DEF cdns_update_slave_status_work, cdns_update_slave_status,
       Acknowledge, EndOfIds, WriteDevNumber, WriteDevNumberErr, EndOfSlaves,
       NotFound, Again, sdw_assign_device_num, NoNumber, slaveVars
  <2> QED BY <1>1, <1>2, <2>1, Zenon DEF CInv, CompletionIsCurrent
<1>4. CASE FirstLoop
  <2>1. Unattached(FellOff) /\ pc' # "complete"
    BY <1>4, Zenon DEF FirstLoop
  <2> QED BY <1>1, <1>2, <2>1, CurrentUnattached, Zenon DEF CInv
<1>5. ASSUME NEW d \in Slave, SlaveGone(d)
      PROVE  CInv'
  <2>1. Unattached({d}) /\ pc' # "complete"
    BY <1>5, Zenon DEF SlaveGone, NextSlave
  <2> QED BY <1>1, <1>2, <2>1, CurrentUnattached, Zenon DEF CInv
<1>6. ASSUME NEW d \in Slave, SlaveStill(d) \/ SlaveAttached(d)
      PROVE  CInv'
  <2>1. /\ status' = [status EXCEPT ![d] = "ATTACHED"]
        /\ initialization_complete' = initialization_complete
        /\ pc' = "complete" => cur' = d
    <3>1. CASE SlaveStill(d)
      BY <3>1, Zenon DEF SlaveStill, NextSlave
    <3>2. CASE SlaveAttached(d)
      BY <3>2, Zenon DEF SlaveAttached, NextSlave
    <3> QED BY <1>6, <3>1, <3>2, Zenon
  <2>2. \A e \in Slave : initialization_complete'[e] <= initialization_complete[e]
    <3> TAKE e \in Slave
    <3>1. initialization_complete[e] \in Nat
      BY Zenon DEF CInv, TypeOK
    <3> QED BY <2>1, <3>1
  <2>3. CompletionIsCurrent'
    BY <2>1, <2>2, CurrentPresent, Zenon
  <2>4. pc' = "complete" => status'[cur'] # "UNATTACHED"
    BY <2>1, Zenon DEF CInv, TypeOK
  <2> QED BY <1>1, <1>2, <2>3, <2>4, Zenon DEF CInv
<1>7. ASSUME NEW d \in Slave, SlaveAlert(d) \/ SlaveAlertStuck(d)
      PROVE  CInv'
  <2>1. status' = [status EXCEPT ![d] = "ALERT"] /\ pc' # "complete"
    <3>1. CASE SlaveAlert(d)
      BY <3>1, Zenon DEF SlaveAlert, NextSlave
    <3>2. CASE SlaveAlertStuck(d)
      BY <3>2, Zenon DEF SlaveAlertStuck, NextSlave
    <3> QED BY <1>7, <3>1, <3>2, Zenon
  <2>2. \A e \in Slave : initialization_complete'[e] <= initialization_complete[e]
    <3>1. CASE initialization_complete' = initialization_complete
      <4> TAKE e \in Slave
      <4>1. initialization_complete[e] \in Nat
        BY Zenon DEF CInv, TypeOK
      <4>2. initialization_complete'[e] = initialization_complete[e]
        BY <3>1, Zenon
      <4> QED BY <4>1, <4>2
    <3>2. CASE initialization_complete' =
                 [initialization_complete EXCEPT ![d] =
                    IF MayResume(d) THEN @ ELSE @ - 1]
      <4> TAKE e \in Slave
      <4>1. initialization_complete[e] \in Nat
        BY Zenon DEF CInv, TypeOK
      <4>2. initialization_complete'[e] \in
              {initialization_complete[e], initialization_complete[e] - 1}
        BY <3>2, Zenon DEF CInv, TypeOK
      <4> QED BY <4>1, <4>2
    <3> QED BY <1>7, <3>1, <3>2, Zenon DEF SlaveAlert, SlaveAlertStuck
  <2>3. CompletionIsCurrent'
    BY <2>1, <2>2, CurrentPresent, Zenon
  <2> QED BY <1>1, <1>2, <2>1, <2>3, Zenon DEF CInv
<1>8. CASE Complete
  <2>1. /\ initialization_complete' =
             [initialization_complete EXCEPT ![cur] = initialization_complete[cur] + 1]
        /\ status' = status /\ pc = "complete" /\ pc' # "complete"
    BY <1>8, Zenon DEF Complete
  <2>2. status[cur] # "UNATTACHED" /\ cur \in Slave
    BY <2>1, Zenon DEF CInv, TypeOK
  <2>3. CompletionIsCurrent'
    BY <2>1, <2>2, Zenon DEF CInv, TypeOK, CompletionIsCurrent
  <2> QED BY <1>1, <1>2, <2>1, <2>3, Zenon DEF CInv
<1> QED BY <1>3, <1>4, <1>5, <1>6, <1>7, <1>8, Zenon DEF Work

LEMMA CurrentNext ==
  ASSUME "midwork" \notin Events, CInv, [Next]_vars
  PROVE  CInv'
<1>1. TypeOK'
  BY NextType, Zenon DEF CInv
<1>2. CASE Work
  BY <1>1, <1>2, CurrentWork, Zenon
<1>3. CASE Bus \/ UNCHANGED vars
  <2>1. UNCHANGED <<status, initialization_complete, pc, cur, link, work>>
    BY <1>3, Zenon DEF Bus, Attach, Drop, Alert, vars, hwVars, irqVars, workVars, slaveVars
  <2> QED BY <1>1, <2>1, Zenon DEF CInv, CompletionIsCurrent
<1>4. CASE sdw_cdns_irq
  <2>1. UNCHANGED <<status, initialization_complete, pc, cur, link>> /\ link = "up"
    BY <1>4, Zenon DEF sdw_cdns_irq, hwVars, workVars, slaveVars
  <2> QED BY <1>1, <2>1, Zenon DEF CInv, CompletionIsCurrent
<1>5. CASE Codecs
  <2>1. UNCHANGED <<status, pc, cur, link, work>>
    BY <1>5, ZenonT(40) DEF Codecs, CodecResume, CodecResumed, CodecTimeout, hwVars, irqVars,
       workVars, slaveVars
  <2>2. \A e \in Slave : initialization_complete'[e] <= initialization_complete[e]
    <3>1. CASE initialization_complete' = initialization_complete
      <4> TAKE e \in Slave
      <4>1. initialization_complete[e] \in Nat
        BY Zenon DEF CInv, TypeOK
      <4>2. initialization_complete'[e] = initialization_complete[e]
        BY <3>1, Zenon
      <4> QED BY <4>1, <4>2
    <3>2. ASSUME NEW d \in Slave, CodecResumed(d)
          PROVE  \A e \in Slave : initialization_complete'[e] <= initialization_complete[e]
      <4> TAKE e \in Slave
      <4>1. initialization_complete[e] \in Nat
        BY Zenon DEF CInv, TypeOK
      <4>2. initialization_complete'[e] \in
              {initialization_complete[e], initialization_complete[e] - 1}
        BY <3>2, Zenon DEF CodecResumed, CInv, TypeOK
      <4> QED BY <4>1, <4>2
    <3> QED BY <1>5, <3>1, <3>2, ZenonT(40) DEF Codecs, CodecResume, CodecTimeout, slaveVars
  <2>3. CompletionIsCurrent'
    BY <1>1, <2>1, <2>2, CurrentQuiet, Zenon
  <2> QED BY <1>1, <2>1, <2>3, Zenon DEF CInv
<1>6. CASE intel_suspend_runtime
  <2>1. /\ UNCHANGED <<status, initialization_complete, pc, cur, work>>
        /\ pc = "idle" /\ ~work
    BY <1>6, Zenon DEF intel_suspend_runtime, slaveVars, workVars
  <2> QED BY <1>1, <2>1, Zenon DEF CInv, CompletionIsCurrent
<1>7. CASE intel_resume_runtime
  <2>1. /\ Unattached(UNION {sdw_get_slave(i) : i \in Number})
        /\ UNCHANGED <<pc, work>> /\ link = "down"
    BY <1>7, Zenon DEF intel_resume_runtime, workVars
  <2>2. CompletionIsCurrent'
    BY <2>1, CurrentUnattached, Zenon
  <2> QED BY <1>1, <2>1, <2>2, Zenon DEF CInv
<1> QED BY <1>2, <1>3, <1>4, <1>5, <1>6, <1>7, Zenon DEF Next, Power

-------------------------------------------------------------------------------
(* Resuming codecs, when devices stay on the bus and transfers succeed *)

\* No device drops off, no transfer fails, and power management waits for the
\* work item.
Calm == {"drop", "midwork", "io"} \cap Events = {}

\* With the devices at a and the interrupts r enabled: a number of status s
\* has a device, and an alert comes from an initialized one.
Shown(i, s, a, r) ==
  s # "UNATTACHED" => \E d \in Device : a[d] = i /\ (s = "ALERT" => r[d])

\* Exactly the devices initialized since the bus was reset have their interrupts
\* enabled, so a reset makes every Slave owe its initialization; and no codec runs
\* or waits while the link is down.
InitializedInv ==
  /\ link = "down" => \A d \in Slave : codec[d] = "suspended"
  /\ \A d \in Device : alert[d] => armed[d]
  /\ \A d \in Slave : armed[d] <=> ~owed[d]
  /\ pc = "write" => at[cur] = 0
  /\ pc = "idle" => ack = {}

\* What was reported, read or combined since the bus was reset is about
\* devices that are still there.
SeenInv ==
  /\ link = "up" => \A b \in intstat \cup ack :
                      b[1] \in Number => Shown(b[1], b[2], at, armed)
  /\ pc \in {"fell", "status", "complete"} =>
       \A i \in Number : Shown(i, seen[i], at, armed)

\* A Slave whose dev_num a failed enumeration left at zero would be skipped by
\* sdw_clear_slave_status: there is none.  On a bus that is up, a Slave that
\* was not initialized since the reset is UNATTACHED, and its codec has to
\* wait.
OwedInv ==
  /\ \A d \in Slave : dev_num[d] = 0 /\ ~(pc = "write" /\ cur = d)
                        => ~hw_init[d] /\ status[d] = "UNATTACHED"
  /\ link = "up" =>
       \A d \in Slave :
         status[d] # "UNATTACHED" \/ (hw_init[d] /\ ~unattach_request[d]) => ~owed[d]

RInv == IInv /\ CInv /\ InitializedInv /\ SeenInv /\ OwedInv

\* What the status bits gain is true of the bus they were gained on.
LEMMA ReportedShown ==
  ASSUME NEW a, NEW l, NEW r, \A d \in Device : l[d] => r[d],
         NEW b \in Reported(a, l)
  PROVE  Shown(b[1], b[2], a, r)
<1>1. PICK i \in DevNum : b = <<i, Ping(i, a, l)>>
  BY Zenon DEF Reported
<1>2. Shown(i, Ping(i, a, l), a, r)
  BY Zenon DEF Ping, Shown
<1> QED BY <1>1, <1>2, Zenon

\* The same of the PING frames, and so of the status array.
LEMMA StatusOfShown ==
  ASSUME RInv, link = "up", NEW i \in Number
  PROVE  Shown(i, StatusOf(i), at, armed)
<1> DEFINE bits == {b \in ack : b[1] = i}
<1>1. CASE bits = {}
  BY <1>1, Zenon DEF StatusOf, Shown
<1>2. CASE bits # {}
  <2>1. PICK c \in bits : c = CHOOSE b \in bits : TRUE
    BY <1>2, Zenon
  <2>2. Shown(i, c[2], at, armed)
    BY <2>1, Zenon DEF RInv, SeenInv
  <2>3. Shown(i, Ping(i, at, alert), at, armed)
    BY Zenon DEF RInv, InitializedInv, Ping, Shown
  <2> QED BY <1>2, <2>1, <2>2, <2>3, Zenon DEF StatusOf
<1> QED BY <1>1, <1>2, Zenon

\* A device that answers to a number keeps it, and one that has its interrupts
\* enabled keeps them so: nothing takes a device off the bus.
Stays ==
  /\ \A d \in Device : at[d] \in Number => at'[d] = at[d]
  /\ \A d \in Device : armed[d] => armed'[d]

LEMMA ShownStays ==
  ASSUME Stays, NEW i \in Number, NEW s, Shown(i, s, at, armed)
  PROVE  Shown(i, s, at', armed')
BY Zenon DEF Stays, Shown

\* A step that reports no more than what changed on the bus, reads no more
\* than what was reported, and goes on with the status array it had.
LEMMA SeenStays ==
  ASSUME RInv, Stays, link' = link, \A d \in Device : alert'[d] => armed'[d],
         intstat' \subseteq intstat \cup Reported(at', alert'),
         ack' \subseteq ack \cup intstat,
         pc' \in {"fell", "status", "complete"} =>
           pc \in {"fell", "status", "complete"} /\ seen' = seen
  PROVE  SeenInv'
<1>1. ASSUME link' = "up", NEW b \in intstat' \cup ack', b[1] \in Number
      PROVE  Shown(b[1], b[2], at', armed')
  <2>1. CASE b \in intstat \cup ack
    <3>1. Shown(b[1], b[2], at, armed)
      BY <1>1, <2>1, Zenon DEF RInv, SeenInv
    <3> QED BY <1>1, <3>1, ShownStays, Zenon
  <2>2. CASE b \in Reported(at', alert')
    BY <2>2, ReportedShown, Zenon
  <2> QED BY <1>1, <2>1, <2>2, Zenon
<1>2. ASSUME pc' \in {"fell", "status", "complete"}, NEW i \in Number
      PROVE  Shown(i, seen'[i], at', armed')
  <2>1. Shown(i, seen[i], at, armed)
    BY <1>2, Zenon DEF RInv, SeenInv
  <2> QED BY <1>2, <2>1, ShownStays, Zenon
<1> QED BY <1>1, <1>2, Zenon DEF SeenInv

LEMMA InitializedBus ==
  ASSUME Calm, RInv, Bus
  PROVE  InitializedInv' /\ Stays
<1>1. PICK d \in Device : Attach(d) \/ Alert(d)
  BY Zenon DEF Bus, Drop, Calm
<1>2. /\ UNCHANGED <<link, codec, armed, owed, pc, cur, ack>>
      /\ \A e \in Slave : at[e] = 0 => at'[e] = 0
      /\ \A e \in Device : at[e] \in Number => at'[e] = at[e]
      /\ \A e \in Device : alert'[e] => alert[e] \/ armed[e]
  <2>1. CASE Attach(d)
    <3>1. /\ UNCHANGED <<link, codec, armed, owed, pc, cur, ack, alert>>
          /\ at' = [at EXCEPT ![d] = 0] /\ at[d] = Off
      BY <2>1, Zenon DEF Attach, workVars, codecVars
    <3>2. \A e \in Device : at'[e] = IF e = d THEN 0 ELSE at[e]
      BY <3>1, Zenon DEF RInv, IInv, TypeOK
    <3>3. at[d] \notin Number
      BY <3>1
    <3> QED BY <3>1, <3>2, <3>3, Zenon DEF Slave
  <2>2. CASE Alert(d)
    BY <2>2, Zenon DEF Alert, RInv, IInv, TypeOK, workVars, codecVars
  <2> QED BY <1>1, <2>1, <2>2, Zenon
<1>3. cur \in Slave
  BY Zenon DEF RInv, IInv, TypeOK
<1>4. Stays
  BY <1>2, Zenon DEF Stays
<1>5. InitializedInv'
  BY <1>2, <1>3, Zenon DEF RInv, InitializedInv
<1> QED BY <1>4, <1>5, Zenon

\* A step of the work item that changes nothing of the devices and starts no
\* write.
LEMMA InitializedQuiet ==
  ASSUME RInv, link = "up", UNCHANGED <<link, at, alert, armed, owed>>,
         pc' \notin {"idle", "write"}
  PROVE  InitializedInv' /\ Stays
BY Zenon DEF RInv, InitializedInv, Stays

LEMMA InitializedWork ==
  ASSUME Calm, RInv, Work
  PROVE  InitializedInv' /\ Stays
<1>1. link = "up" /\ link' = link
  BY WorkLinkUp, Zenon DEF RInv
<1>2. CASE \/ cdns_update_slave_status_work \/ cdns_update_slave_status
           \/ FirstLoop \/ EndOfIds \/ WriteDevNumberErr
           \/ EndOfSlaves \/ Complete
  <2>1. UNCHANGED <<at, alert, armed, owed>> /\ pc' \notin {"idle", "write"}
    BY <1>2, Zenon DEF cdns_update_slave_status_work, cdns_update_slave_status,
       FirstLoop, EndOfIds, WriteDevNumberErr, EndOfSlaves, Complete, hwVars
  <2> QED BY <1>1, <2>1, InitializedQuiet, Zenon
<1>3. CASE \/ \E d \in Device : NotFound(d)
           \/ \E d \in Slave : NoNumber(d) \/ SlaveGone(d) \/ SlaveStill(d)
                               \/ SlaveAlertStuck(d)
  <2>1. UNCHANGED <<at, alert, armed, owed>> /\ pc' \notin {"idle", "write"}
    BY <1>3, Zenon DEF NotFound, Again, NoNumber, SlaveGone, SlaveStill,
       SlaveAlertStuck, NextSlave, hwVars
  <2> QED BY <1>1, <2>1, InitializedQuiet, Zenon
<1>4. CASE Acknowledge
  <2>1. UNCHANGED <<at, alert, armed, owed>> /\ pc' = "idle" /\ ack' = {}
    BY <1>4, Zenon DEF Acknowledge, hwVars
  <2> QED BY <1>1, <2>1, Zenon DEF RInv, InitializedInv, Stays
<1>5. CASE WriteDevNumber
  <2>1. /\ at' = [at EXCEPT ![cur] = num] /\ at[cur] = 0
        /\ UNCHANGED <<alert, armed, owed>> /\ pc' \notin {"idle", "write"}
    BY <1>5, Zenon DEF WriteDevNumber, Again
  <2>2. \A d \in Device : at[d] \in Number => at'[d] = at[d]
    BY <2>1 DEF RInv, IInv, TypeOK
  <2> QED BY <1>1, <2>1, <2>2, Zenon DEF RInv, InitializedInv, Stays
<1>6. ASSUME NEW d \in Slave, sdw_assign_device_num(d)
      PROVE  InitializedInv' /\ Stays
  <2>1. UNCHANGED <<at, alert, armed, owed>> /\ pc' = "write" /\ cur' = d /\ at[d] = 0
    BY <1>6, Zenon DEF sdw_assign_device_num, hwVars
  <2> QED BY <1>1, <2>1, Zenon DEF RInv, InitializedInv, Stays
<1>7. ASSUME NEW d \in Slave, SlaveAttached(d)
      PROVE  InitializedInv' /\ Stays
  <2>1. UNCHANGED <<at, alert>> /\ pc' = "complete"
    BY <1>7, Zenon DEF SlaveAttached
  <2>2. \/ UNCHANGED <<armed, owed>>
        \/ armed' = [armed EXCEPT ![d] = TRUE] /\ owed' = [owed EXCEPT ![d] = FALSE]
    BY <1>7, Zenon DEF SlaveAttached
  <2>3. \A e \in Device : armed[e] => armed'[e]
    BY <2>2, Zenon DEF RInv, IInv, TypeOK
  <2>4. \A e \in Slave : armed'[e] <=> ~owed'[e]
    <3> TAKE e \in Slave
    <3>1. e \in Device /\ (armed[e] <=> ~owed[e])
      BY Zenon DEF Slave, RInv, InitializedInv
    <3>2. CASE e = d
      BY <2>2, <3>1, <3>2, Zenon DEF RInv, IInv, TypeOK
    <3>3. CASE e # d
      BY <2>2, <3>1, <3>3, Zenon DEF RInv, IInv, TypeOK
    <3> QED BY <3>2, <3>3, Zenon
  <2> QED BY <1>1, <2>1, <2>3, <2>4, Zenon DEF RInv, InitializedInv, Stays
<1>8. ASSUME NEW d \in Slave, SlaveAlert(d)
      PROVE  InitializedInv' /\ Stays
  <2>1. UNCHANGED <<at, armed, owed>> /\ pc' = "status"
    BY <1>8, Zenon DEF SlaveAlert, NextSlave
  <2>2. \A e \in Device : alert'[e] => alert[e]
    BY <1>8, Zenon DEF SlaveAlert, RInv, IInv, TypeOK
  <2> QED BY <1>1, <2>1, <2>2, Zenon DEF RInv, InitializedInv, Stays
<1> QED BY <1>2, <1>3, <1>4, <1>5, <1>6, <1>7, <1>8, Zenon DEF Work

\* The bits that were read are the ones of the status array, the bits that a
\* step of the work item adds are what it changed on the bus.
LEMMA SeenWork ==
  ASSUME Calm, RInv, Work
  PROVE  SeenInv'
<1>1. link = "up" /\ link' = link /\ Stays
  BY WorkLinkUp, InitializedWork, Zenon DEF RInv
<1>2. \A d \in Device : alert'[d] => armed'[d]
  BY InitializedWork, Zenon DEF InitializedInv
<1>3. CASE cdns_update_slave_status
  <2>1. UNCHANGED <<intstat, ack, at, armed>> /\ seen' = [i \in DevNum |-> StatusOf(i)]
    BY <1>3, Zenon DEF cdns_update_slave_status, irqVars, hwVars
  <2>2. \A i \in Number : Shown(i, seen'[i], at', armed')
    <3> TAKE i \in Number
    <3>1. Shown(i, StatusOf(i), at, armed)
      BY <1>1, StatusOfShown, Zenon
    <3>2. seen'[i] = StatusOf(i)
      BY <2>1
    <3> QED BY <2>1, <3>1, <3>2, Zenon
  <2> QED BY <1>1, <2>1, <2>2, Zenon DEF RInv, SeenInv
<1>4. CASE \/ cdns_update_slave_status_work \/ Acknowledge \/ FirstLoop \/ EndOfIds
           \/ WriteDevNumberErr \/ EndOfSlaves \/ Complete
  <2>1. /\ intstat' \subseteq intstat
        /\ ack' \subseteq ack \cup intstat
        /\ pc' \in {"fell", "status", "complete"} =>
             pc \in {"fell", "status", "complete"} /\ seen' = seen
    BY <1>4, Zenon DEF cdns_update_slave_status_work, Acknowledge, FirstLoop, EndOfIds,
       WriteDevNumberErr, EndOfSlaves, Complete, irqVars
  <2> QED BY <1>1, <1>2, <2>1, SeenStays, Zenon
<1>5. CASE \/ \E d \in Device : NotFound(d)
           \/ \E d \in Slave : sdw_assign_device_num(d) \/ NoNumber(d) \/ SlaveGone(d)
                               \/ SlaveStill(d) \/ SlaveAttached(d) \/ SlaveAlertStuck(d)
  <2>1. /\ UNCHANGED <<intstat, ack, seen>>
        /\ pc' \in {"fell", "status", "complete"} => pc \in {"fell", "status", "complete"}
    BY <1>5, Zenon DEF NotFound, Again, sdw_assign_device_num, NoNumber, SlaveGone,
       SlaveStill, SlaveAttached, SlaveAlertStuck, NextSlave, irqVars
  <2> QED BY <1>1, <1>2, <2>1, SeenStays, Zenon
<1>6. CASE WriteDevNumber
  <2>1. /\ intstat' = intstat \cup Reported(at', alert') /\ UNCHANGED ack
        /\ pc' \notin {"fell", "status", "complete"}
    BY <1>6, Zenon DEF WriteDevNumber, Again
  <2> QED BY <1>1, <1>2, <2>1, SeenStays, Zenon
<1>7. CASE \E d \in Slave : SlaveAlert(d)
  <2>1. /\ intstat' = intstat \cup Reported(at', alert') /\ UNCHANGED <<ack, seen>>
        /\ pc = "status"
    BY <1>7, Zenon DEF SlaveAlert, NextSlave
  <2> QED BY <1>1, <1>2, <2>1, SeenStays, Zenon
<1> QED BY <1>3, <1>4, <1>5, <1>6, <1>7, Zenon DEF Work

LEMMA SeenBus ==
  ASSUME Calm, RInv, Bus
  PROVE  SeenInv'
<1>1. Stays /\ \A d \in Device : alert'[d] => armed'[d]
  BY InitializedBus, Zenon DEF InitializedInv
<1>2. /\ intstat' = intstat \cup Reported(at', alert')
      /\ UNCHANGED <<link, pc, ack, seen>>
  BY Zenon DEF Bus, Attach, Drop, Alert, workVars
<1> QED BY <1>1, <1>2, SeenStays, Zenon

\* The interrupt and the codecs change nothing of the bus.
LEMMA SeenQuiet ==
  ASSUME RInv, sdw_cdns_irq \/ Codecs \/ UNCHANGED vars
  PROVE  InitializedInv' /\ SeenInv'
<1>1. UNCHANGED <<link, at, alert, armed, intstat, pc, ack, seen, cur, owed>>
  BY Zenon DEF sdw_cdns_irq, Codecs, CodecResume, CodecResumed, CodecTimeout, vars,
     hwVars, irqVars, workVars
<1>2. link = "down" => codec' = codec
  <2>1. CASE Codecs
    <3>1. PICK d \in Slave : CodecResume(d) \/ CodecResumed(d) \/ CodecTimeout(d)
      BY <2>1, Zenon DEF Codecs
    <3>2. CASE link = "down"
      <4>1. codec[d] = "suspended"
        BY <3>2, Zenon DEF RInv, InitializedInv
      <4> QED BY <3>1, <3>2, <4>1, Zenon DEF CodecResume, CodecResumed, CodecTimeout
    <3> QED BY <3>2, Zenon
  <2>2. CASE sdw_cdns_irq \/ UNCHANGED vars
    BY <2>2, Zenon DEF sdw_cdns_irq, vars, codecVars
  <2> QED BY <2>1, <2>2, Zenon
<1>3. InitializedInv'
  BY <1>1, <1>2, Zenon DEF RInv, InitializedInv
<1>4. SeenInv'
  BY <1>1, Zenon DEF RInv, SeenInv
<1> QED BY <1>3, <1>4, Zenon

\* A reset takes the devices, their interrupts and the old reports away
\* together, while no work item has read any.
LEMMA SeenPower ==
  ASSUME Calm, RInv, Power
  PROVE  InitializedInv' /\ SeenInv'
<1>1. UNCHANGED <<pc, ack, seen, cur>>
  BY Zenon DEF Power, intel_suspend_runtime, intel_resume_runtime, workVars
<1>2. pc = "idle" /\ ack = {}
  BY Zenon DEF Power, intel_suspend_runtime, intel_resume_runtime, Calm, RInv, CInv, InitializedInv
<1>3. CASE intel_suspend_runtime
  <2>1. codec' = [d \in Slave |-> "suspended"] /\ intstat' = intstat /\ link = "up"
    BY <1>3, Zenon DEF intel_suspend_runtime
  <2>2. CASE UNCHANGED <<hwVars, owed>>
    <3>1. InitializedInv'
      BY <1>1, <1>2, <2>1, <2>2, Zenon DEF hwVars, RInv, InitializedInv
    <3>2. SeenInv'
      BY <1>1, <2>1, <2>2, Zenon DEF hwVars, RInv, SeenInv
    <3> QED BY <3>1, <3>2, Zenon
  <2>3. CASE /\ link' = "down"
             /\ alert' = [d \in Device |-> FALSE]
             /\ armed' = [d \in Device |-> FALSE]
             /\ owed' = [d \in Slave |-> pc = "idle" /\ ~work /\ (owed[d] \/ armed[d])]
    <3>0. \A d \in Slave : owed'[d]
      BY <1>2, <1>3, <2>3, Zenon DEF intel_suspend_runtime, Calm, RInv, InitializedInv
    <3>1. InitializedInv'
      BY <1>1, <1>2, <2>1, <2>3, <3>0, Zenon DEF Slave, InitializedInv
    <3>2. SeenInv'
      BY <1>1, <1>2, <2>3, Zenon DEF SeenInv
    <3> QED BY <3>1, <3>2, Zenon
  <2> QED BY <1>3, <2>2, <2>3, Zenon DEF intel_suspend_runtime
<1>4. CASE intel_resume_runtime
  <2>1. UNCHANGED <<at, alert, armed, codec, owed>> /\ intstat' = {} /\ link = "down"
    BY <1>4, Zenon DEF intel_resume_runtime, codecVars
  <2>2. InitializedInv'
    BY <1>1, <1>2, <2>1, Zenon DEF RInv, InitializedInv
  <2>3. SeenInv'
    BY <1>1, <1>2, <2>1, Zenon DEF SeenInv
  <2> QED BY <2>2, <2>3, Zenon
<1> QED BY <1>3, <1>4, Zenon DEF Power

\* The Slave that the loop of sdw_handle_slave_status comes to is the device
\* that its status was read from.
LEMMA LoopFindsDevice ==
  ASSUME RInv, NEW d \in Slave, NextSlave(d), seen[dev_num[d]] # "UNATTACHED"
  PROVE  /\ at[d] = dev_num[d]
         /\ seen[dev_num[d]] = "ALERT" => ~owed[d]
<1>1. pc = "status" /\ dev_num[d] \in Number
  BY Zenon DEF NextSlave, RInv, IInv, TypeOK
<1>2. Shown(dev_num[d], seen[dev_num[d]], at, armed)
  BY <1>1, Zenon DEF RInv, SeenInv
<1>3. PICK e \in Device : at[e] = dev_num[d] /\ (seen[dev_num[d]] = "ALERT" => armed[e])
  BY <1>2, Zenon DEF Shown
<1>4. e = d
  BY <1>1, <1>3, OwnedAddressee DEF RInv, RightAddressee
<1> QED BY <1>3, <1>4, Zenon DEF RInv, InitializedInv

\* A step that leaves numbers, requests and debts alone, and moves only Slaves
\* that owe nothing and have a number to a status on the bus or to hw_init.
LEMMA OwedKept ==
  ASSUME RInv, UNCHANGED <<link, dev_num, owed>>,
         pc = "write" => UNCHANGED <<pc, cur>>,
         \A d \in Slave : unattach_request[d] /\ hw_init[d] => unattach_request'[d] \/ ~owed[d],
         \A d \in Slave : (status'[d] # "UNATTACHED" => status[d] # "UNATTACHED")
                            \/ (dev_num[d] # 0 /\ (link = "up" => ~owed[d])),
         \A d \in Slave : (hw_init'[d] => hw_init[d])
                            \/ (dev_num[d] # 0 /\ (link = "up" => ~owed[d]))
  PROVE  OwedInv'
<1>1. ASSUME NEW d \in Slave, dev_num'[d] = 0, ~(pc' = "write" /\ cur' = d)
      PROVE  ~hw_init'[d] /\ status'[d] = "UNATTACHED"
  <2>1. ~hw_init[d] /\ status[d] = "UNATTACHED"
    BY <1>1, Zenon DEF RInv, OwedInv
  <2> QED BY <1>1, <2>1, Zenon
<1>2. ASSUME link' = "up", NEW d \in Slave,
             status'[d] # "UNATTACHED" \/ (hw_init'[d] /\ ~unattach_request'[d])
      PROVE  ~owed'[d]
  <2>1. status[d] # "UNATTACHED" \/ (hw_init[d] /\ ~unattach_request[d]) => ~owed[d]
    BY <1>2, Zenon DEF RInv, OwedInv
  <2> QED BY <1>2, <2>1, Zenon
<1> QED BY <1>1, <1>2, Zenon DEF OwedInv

\* Numbers are written and taken; nothing else of a Slave changes.
LEMMA OwedNumbers ==
  ASSUME Calm, RInv, WriteDevNumber \/ \E d \in Slave : sdw_assign_device_num(d)
  PROVE  OwedInv'
<1>1. UNCHANGED <<link, status, hw_init, unattach_request, owed>>
  BY Zenon DEF WriteDevNumber, sdw_assign_device_num, hwVars, slaveVars, codecVars
<1>2. ASSUME NEW d \in Slave, dev_num'[d] = 0, ~(pc' = "write" /\ cur' = d)
      PROVE  dev_num[d] = 0 /\ ~(pc = "write" /\ cur = d)
  <2>1. CASE WriteDevNumber
    <3>1. /\ pc = "write" /\ cur \in Slave /\ dev_num_sticky[cur] # 0
          /\ dev_num' = [dev_num EXCEPT ![cur] = dev_num_sticky[cur]]
      BY <2>1, Zenon DEF WriteDevNumber, RInv, IInv, TypeOK, NumbersOwned
    <3> QED BY <1>2, <3>1, Zenon DEF RInv, IInv, TypeOK
  <2>2. ASSUME NEW e \in Slave, sdw_assign_device_num(e)
        PROVE  dev_num[d] = 0 /\ ~(pc = "write" /\ cur = d)
    <3>1. pc = "devid" /\ pc' = "write" /\ cur' = e /\ dev_num' = [dev_num EXCEPT ![e] = 0]
      BY <2>2, Zenon DEF sdw_assign_device_num
    <3> QED BY <1>2, <3>1, Zenon DEF RInv, IInv, TypeOK
  <2> QED BY <2>1, <2>2, Zenon
<1> QED BY <1>1, <1>2, Zenon DEF RInv, OwedInv

\* update_status sets hw_init only of the Slave it is told ATTACHED of.
LEMMA UpdateStatusSets ==
  ASSUME TypeOK, NEW d \in Slave, NEW s, UpdateStatus(d, s), NEW e \in Slave,
         hw_init'[e], ~hw_init[e]
  PROVE  e = d /\ s = "ATTACHED"
<1>1. hw_init \in [Slave -> BOOLEAN]
  BY Zenon DEF TypeOK
<1> QED BY <1>1, Zenon DEF UpdateStatus

\* A Slave on the bus has a number and owes nothing.
LEMMA PresentIsPaid ==
  ASSUME RInv, link = "up", NEW d \in Slave, status[d] # "UNATTACHED", pc # "write"
  PROVE  dev_num[d] # 0 /\ ~owed[d]
BY Zenon DEF RInv, OwedInv

\* The steps of the loop over the Slaves, but for the initialization.
LEMMA OwedLoop ==
  ASSUME Calm, RInv, link = "up", link' = link,
         \/ FirstLoop \/ Complete
         \/ \E d \in Slave : SlaveGone(d) \/ SlaveStill(d) \/ SlaveAlert(d) \/ SlaveAlertStuck(d)
  PROVE  OwedInv'
<1>0. TypeOK
  BY Zenon DEF RInv, IInv
<1>1. CASE FirstLoop
  <2>1. UNCHANGED <<dev_num, owed, hw_init, unattach_request>> /\ pc = "fell"
    BY <1>1, Zenon DEF FirstLoop, numVars, codecVars
  <2>2. \A e \in Slave : status'[e] # "UNATTACHED" => status[e] # "UNATTACHED"
    BY <1>1, Zenon DEF FirstLoop, Unattached
  <2> QED BY <2>1, <2>2, OwedKept, Zenon
<1>2. CASE Complete
  <2>1. /\ UNCHANGED <<dev_num, owed, status, unattach_request>> /\ pc = "complete"
        /\ cur \in Slave /\ UpdateStatus(cur, "ATTACHED")
    BY <1>0, <1>2, Zenon DEF Complete, numVars, TypeOK
  <2>2. dev_num[cur] # 0 /\ ~owed[cur]
    BY <2>1, PresentIsPaid, Zenon DEF RInv, CInv
  <2>3. \A e \in Slave : (hw_init'[e] => hw_init[e]) \/ (dev_num[e] # 0 /\ ~owed[e])
    BY <1>0, <2>1, <2>2, UpdateStatusSets, Zenon
  <2> QED BY <2>1, <2>3, OwedKept, Zenon
<1>3. ASSUME NEW d \in Slave, SlaveGone(d)
      PROVE  OwedInv'
  <2>1. /\ UNCHANGED <<dev_num, owed, unattach_request>> /\ pc = "status"
        /\ UpdateStatus(d, "UNATTACHED")
    BY <1>3, Zenon DEF SlaveGone, NextSlave, numVars
  <2>2. \A e \in Slave : status'[e] # "UNATTACHED" => status[e] # "UNATTACHED"
    BY <1>3, Zenon DEF SlaveGone, Unattached
  <2>3. \A e \in Slave : hw_init'[e] => hw_init[e]
    BY <1>0, <2>1, UpdateStatusSets
  <2> QED BY <2>1, <2>2, <2>3, OwedKept, Zenon
<1>4. ASSUME NEW d \in Slave, SlaveStill(d)
      PROVE  OwedInv'
  <2>1. /\ UNCHANGED <<dev_num, owed, unattach_request>> /\ pc = "status"
        /\ status' = [status EXCEPT ![d] = "ATTACHED"] /\ status[d] # "UNATTACHED"
        /\ UpdateStatus(d, "ATTACHED")
    BY <1>4, Zenon DEF SlaveStill, NextSlave, numVars
  <2>2. dev_num[d] # 0 /\ ~owed[d]
    BY <2>1, PresentIsPaid, Zenon
  <2>3. \A e \in Slave : status'[e] # "UNATTACHED" => status[e] # "UNATTACHED"
    BY <1>0, <2>1, Zenon DEF TypeOK
  <2>4. \A e \in Slave : (hw_init'[e] => hw_init[e]) \/ (dev_num[e] # 0 /\ ~owed[e])
    BY <1>0, <2>1, <2>2, UpdateStatusSets, Zenon
  <2> QED BY <2>1, <2>3, <2>4, OwedKept, Zenon
<1>5. ASSUME NEW d \in Slave, SlaveAlert(d) \/ SlaveAlertStuck(d)
      PROVE  OwedInv'
  <2>1. /\ UNCHANGED <<dev_num, owed>> /\ pc = "status" /\ dev_num[d] # 0
        /\ NextSlave(d) /\ seen[dev_num[d]] = "ALERT"
        /\ status' = [status EXCEPT ![d] = "ALERT"]
        /\ UpdateStatus(d, "ALERT")
    <3>1. /\ UNCHANGED <<dev_num, owed>> /\ NextSlave(d) /\ seen[dev_num[d]] = "ALERT"
          /\ status' = [status EXCEPT ![d] = "ALERT"]
          /\ UpdateStatus(d, "ALERT")
      BY <1>5, Zenon DEF SlaveAlert, SlaveAlertStuck, numVars
    <3>2. pc = "status" /\ dev_num[d] \in Number
      BY <1>0, <3>1, Zenon DEF NextSlave, TypeOK
    <3> QED BY <3>1, <3>2
  <2>2. ~owed[d]
    BY <2>1, LoopFindsDevice, Zenon
  <2>3. \A e \in Slave : unattach_request[e] => unattach_request'[e] \/ e = d
    <3>1. \/ UNCHANGED unattach_request
          \/ unattach_request' =
               [unattach_request EXCEPT ![d] = unattach_request[d] /\ ~hw_init[d]]
      BY <1>5, Zenon DEF SlaveAlert, SlaveAlertStuck
    <3> QED BY <1>0, <3>1, Zenon DEF TypeOK
  <2>4. \A e \in Slave : (status'[e] # "UNATTACHED" => status[e] # "UNATTACHED")
                           \/ (dev_num[e] # 0 /\ ~owed[e])
    BY <1>0, <2>1, <2>2, Zenon DEF TypeOK
  <2>5. \A e \in Slave : hw_init'[e] => hw_init[e]
    BY <1>0, <2>1, UpdateStatusSets, Zenon
  <2> QED BY <2>1, <2>2, <2>3, <2>4, <2>5, OwedKept, Zenon
<1> QED BY <1>1, <1>2, <1>3, <1>4, <1>5, Zenon

\* sdw_initialize_slave reaches the device and initializes it.
LEMMA OwedAttached ==
  ASSUME Calm, RInv, NEW d \in Slave, SlaveAttached(d)
  PROVE  OwedInv'
<1>1. at[d] = dev_num[d] /\ dev_num[d] # 0 /\ pc = "status"
  <2>1. NextSlave(d) /\ seen[dev_num[d]] = "ATTACHED"
    BY Zenon DEF SlaveAttached
  <2>2. pc = "status" /\ dev_num[d] \in Number
    BY <2>1, Zenon DEF NextSlave, RInv, IInv, TypeOK
  <2>3. at[d] = dev_num[d]
    BY <2>1, LoopFindsDevice, Zenon
  <2> QED BY <2>2, <2>3
<1>2. /\ owed' = [owed EXCEPT ![d] = FALSE]
      /\ status' = [status EXCEPT ![d] = "ATTACHED"]
      /\ UNCHANGED <<link, dev_num, hw_init, unattach_request>> /\ pc' = "complete"
  BY <1>1, Zenon DEF SlaveAttached, Calm, numVars, codecVars
<1>3. /\ ~owed'[d]
      /\ \A e \in Slave : e # d => owed'[e] = owed[e] /\ status'[e] = status[e]
  BY <1>2, Zenon DEF RInv, IInv, TypeOK
<1>4. ASSUME NEW e \in Slave, dev_num'[e] = 0
      PROVE  ~hw_init'[e] /\ status'[e] = "UNATTACHED"
  BY <1>1, <1>2, <1>3, <1>4, Zenon DEF RInv, OwedInv
<1>5. ASSUME link' = "up", NEW e \in Slave,
             status'[e] # "UNATTACHED" \/ (hw_init'[e] /\ ~unattach_request'[e])
      PROVE  ~owed'[e]
  BY <1>2, <1>3, <1>5, Zenon DEF RInv, OwedInv
<1> QED BY <1>4, <1>5, Zenon DEF OwedInv

LEMMA OwedWork ==
  ASSUME Calm, RInv, Work
  PROVE  OwedInv'
<1>1. link = "up" /\ link' = link
  BY WorkLinkUp, Zenon DEF RInv
<1>2. CASE \/ cdns_update_slave_status_work \/ cdns_update_slave_status
           \/ Acknowledge \/ EndOfIds \/ EndOfSlaves
           \/ \E d \in Device : NotFound(d)
           \/ \E d \in Slave : NoNumber(d)
  <2>1. UNCHANGED <<dev_num, owed, status, hw_init, unattach_request>> /\ pc # "write"
    BY <1>2, Zenon DEF cdns_update_slave_status_work, cdns_update_slave_status,
       Acknowledge, EndOfIds, EndOfSlaves, NotFound, NoNumber, numVars, slaveVars, codecVars
  <2> QED BY <1>1, <2>1, OwedKept, Zenon
<1>3. CASE WriteDevNumberErr
  BY <1>1, <1>3, Zenon DEF WriteDevNumberErr, Calm, RInv, InitializedInv
<1>4. CASE \/ FirstLoop \/ Complete
           \/ \E d \in Slave : SlaveGone(d) \/ SlaveStill(d) \/ SlaveAlert(d)
                               \/ SlaveAlertStuck(d)
  BY <1>1, <1>4, OwedLoop, Zenon
<1>5. CASE \E d \in Slave : SlaveAttached(d)
  BY <1>5, OwedAttached, Zenon
<1>6. CASE WriteDevNumber \/ \E d \in Slave : sdw_assign_device_num(d)
  BY <1>6, OwedNumbers, Zenon
<1> QED BY <1>2, <1>3, <1>4, <1>5, <1>6, Zenon DEF Work

\* A codec that waited consumes a completion, and a completion is there only
\* for an initialized Slave.
LEMMA WaitedIsPaid ==
  ASSUME RInv, link = "up", NEW d \in Slave, initialization_complete[d] > 0
  PROVE  ~owed[d]
<1>1. status[d] # "UNATTACHED"
  BY Zenon DEF RInv, CInv, CompletionIsCurrent
<1> QED BY <1>1, Zenon DEF RInv, OwedInv

LEMMA ResumingIsUp ==
  ASSUME RInv, NEW d \in Slave, codec[d] = "resuming"
  PROVE  link = "up"
BY Zenon DEF RInv, IInv, TypeOK, InitializedInv

LEMMA OwedCodecs ==
  ASSUME RInv, Codecs
  PROVE  OwedInv'
<1>1. UNCHANGED <<link, dev_num, owed, pc, cur, status, hw_init>>
  BY Zenon DEF Codecs, CodecResume, CodecResumed, CodecTimeout, hwVars, workVars, numVars,
     slaveVars
<1>2. ASSUME NEW e \in Slave, unattach_request[e], hw_init[e], ~unattach_request'[e]
      PROVE  ~owed[e]
  <2>1. PICK d \in Slave : CodecResume(d) \/ CodecResumed(d) \/ CodecTimeout(d)
    BY Zenon DEF Codecs
  <2>2. unattach_request \in [Slave -> BOOLEAN]
    BY Zenon DEF RInv, IInv, TypeOK
  <2>3. CASE CodecResume(d)
    <3>1. CASE MayResume(d)
      <4>1. unattach_request' =
              [unattach_request EXCEPT ![d] = unattach_request[d] /\ ~hw_init[d]]
        BY <2>3, <3>1, Zenon DEF CodecResume
      <4>2. e = d
        BY <1>2, <2>2, <4>1, Zenon
      <4> QED BY <1>2, <3>1, <4>2, Zenon DEF MayResume
    <3>2. CASE ~MayResume(d)
      BY <1>2, <2>3, <3>2, Zenon DEF CodecResume
    <3> QED BY <3>1, <3>2, Zenon
  <2>4. CASE CodecResumed(d)
    <3>1. /\ unattach_request' = [unattach_request EXCEPT ![d] = FALSE]
          /\ codec[d] = "resuming" /\ initialization_complete[d] > 0
      BY <2>4, Zenon DEF CodecResumed, Initialized
    <3>2. e = d
      BY <1>2, <2>2, <3>1, Zenon
    <3> QED BY <3>1, <3>2, ResumingIsUp, WaitedIsPaid, Zenon
  <2>5. CASE CodecTimeout(d)
    BY <1>2, <2>5, Zenon DEF CodecTimeout, slaveVars
  <2> QED BY <2>1, <2>3, <2>4, <2>5, Zenon
<1> QED BY <1>1, <1>2, OwedKept, Zenon

\* sdw_clear_slave_status finds every Slave that was ever initialized.
LEMMA OwedResume ==
  ASSUME RInv, intel_resume_runtime
  PROVE  OwedInv'
<1> DEFINE D == UNION {sdw_get_slave(i) : i \in Number}
<1>1. /\ Unattached(D) /\ unattach_request' = Requested(D)
      /\ UNCHANGED <<dev_num, pc, cur, hw_init>> /\ link = "down"
  BY Zenon DEF intel_resume_runtime, workVars, numVars, codecVars
<1>2. pc = "idle"
  BY <1>1, Zenon DEF RInv, CInv
<1>3. \A d \in Slave : dev_num[d] # 0 => d \in D
  <2> SUFFICES ASSUME NEW d \in Slave, dev_num[d] # 0
               PROVE  d \in D
    BY Zenon
  <2>1. /\ dev_num[d] \in DevNum
        /\ dev_num[d] \in {0, dev_num_sticky[d]}
        /\ dev_num_sticky[d] \in assigned
    BY Zenon DEF RInv, IInv, TypeOK, NumbersOwned
  <2>2. dev_num[d] \in Number /\ dev_num[d] \in assigned
    BY <2>1
  <2>3. d \in sdw_get_slave(dev_num[d])
    BY <2>2, Zenon DEF sdw_get_slave
  <2> QED BY <2>2, <2>3, Zenon
<1>4. \A d \in Slave : dev_num[d] = 0 => ~hw_init[d] /\ status[d] = "UNATTACHED"
  BY <1>2, Zenon DEF RInv, OwedInv
<1>5. \A d \in Slave : status'[d] = "UNATTACHED"
  BY <1>1, <1>3, <1>4, Zenon DEF Unattached
<1>6. \A d \in Slave : hw_init[d] => unattach_request'[d]
  BY <1>1, <1>3, <1>4, Zenon DEF Requested
<1> QED BY <1>1, <1>4, <1>5, <1>6, Zenon DEF OwedInv

LEMMA OwedNext ==
  ASSUME Calm, RInv, [Next]_vars
  PROVE  OwedInv'
<1>1. CASE Work
  BY <1>1, OwedWork, Zenon
<1>2. CASE Codecs
  BY <1>2, OwedCodecs, Zenon
<1>3. CASE intel_resume_runtime
  BY <1>3, OwedResume, Zenon
<1>4. CASE Bus \/ sdw_cdns_irq \/ UNCHANGED vars
  <2>1. UNCHANGED <<link, dev_num, owed, pc, cur, status, hw_init, unattach_request>>
    BY <1>4, Zenon DEF Bus, Attach, Drop, Alert, sdw_cdns_irq, vars, hwVars, workVars,
       numVars, slaveVars, codecVars
  <2> QED BY <2>1, Zenon DEF RInv, OwedInv
<1>5. CASE intel_suspend_runtime
  <2>1. UNCHANGED <<dev_num, pc, cur, status, hw_init, unattach_request>>
    BY <1>5, Zenon DEF intel_suspend_runtime, workVars, numVars, slaveVars
  <2>2. link' # "up" \/ UNCHANGED <<link, owed>>
    BY <1>5, Zenon DEF intel_suspend_runtime, hwVars
  <2> QED BY <2>1, <2>2, Zenon DEF RInv, OwedInv
<1> QED BY <1>1, <1>2, <1>3, <1>4, <1>5, Zenon DEF Next, Power

LEMMA RInvInit == Init => RInv
<1> SUFFICES ASSUME Init PROVE RInv
  BY Zenon
<1>1. IInv
  BY InitIInv, Zenon
<1>2. CInv
  BY <1>1 DEF IInv, CInv, Init, CompletionIsCurrent
<1>3. InitializedInv /\ SeenInv
  BY Zenon DEF Init, InitializedInv, SeenInv, Slave
<1>4. OwedInv
  BY Zenon DEF Init, OwedInv
<1> QED BY <1>1, <1>2, <1>3, <1>4, Zenon DEF RInv

LEMMA RInvNext ==
  ASSUME Calm, RInv, [Next]_vars
  PROVE  RInv'
<1>1. IInv'
  BY IInvNext, Zenon DEF RInv
<1>2. CInv'
  BY CurrentNext, Zenon DEF RInv, Calm
<1>3. InitializedInv' /\ SeenInv'
  <2>1. CASE Bus
    BY <2>1, InitializedBus, SeenBus, Zenon
  <2>2. CASE Work
    BY <2>2, InitializedWork, SeenWork, Zenon
  <2>3. CASE sdw_cdns_irq \/ Codecs \/ UNCHANGED vars
    BY <2>3, SeenQuiet, Zenon
  <2>4. CASE Power
    BY <2>4, SeenPower, Zenon
  <2> QED BY <2>1, <2>2, <2>3, <2>4, Zenon DEF Next
<1>4. OwedInv'
  BY OwedNext, Zenon
<1> QED BY <1>1, <1>2, <1>3, <1>4, Zenon DEF RInv

\* A codec becomes active by its own resume, which waited if it had to, or to
\* service an alert of its initialized Slave.
LEMMA BecomesActive ==
  ASSUME Calm, RInv, [Next]_vars, NEW d \in Slave,
         codec[d] # "active", codec'[d] = "active", hw_init[d]
  PROVE  ~owed[d]
<1>0. codec \in [Slave -> {"active", "suspended", "resuming"}]
  BY Zenon DEF RInv, IInv, TypeOK
<1>1. CASE Codecs
  <2>1. PICK e \in Slave : CodecResume(e) \/ CodecResumed(e) \/ CodecTimeout(e)
    BY <1>1, Zenon DEF Codecs
  <2>2. e = d
    BY <1>0, <2>1, Zenon DEF CodecResume, CodecResumed, CodecTimeout
  <2>3. CASE CodecResume(d)
    <3>1. link = "up" /\ MayResume(d)
      BY <1>0, <2>3, Zenon DEF CodecResume
    <3> QED BY <3>1, Zenon DEF MayResume, RInv, OwedInv
  <2>4. CASE CodecResumed(d)
    BY <2>4, ResumingIsUp, WaitedIsPaid, Zenon DEF CodecResumed, Initialized
  <2>5. CASE CodecTimeout(d)
    BY <1>0, <2>5, Zenon DEF CodecTimeout
  <2> QED BY <2>1, <2>2, <2>3, <2>4, <2>5, Zenon
<1>2. CASE \E e \in Slave : SlaveAlert(e)
  <2>1. PICK e \in Slave : SlaveAlert(e)
    BY <1>2, Zenon
  <2>2. e = d
    BY <1>0, <2>1, Zenon DEF SlaveAlert
  <2> QED BY <2>1, <2>2, LoopFindsDevice, Zenon DEF SlaveAlert
<1>3. CASE \E e \in Slave : SlaveAlertStuck(e)
  <2>1. PICK e \in Slave : codec' = [codec EXCEPT ![e] = "suspended"]
    BY <1>3, Zenon DEF SlaveAlertStuck
  <2> QED BY <1>0, <2>1, Zenon
<1>4. CASE intel_suspend_runtime
  BY <1>4, Zenon DEF intel_suspend_runtime
<1>5. CASE codec' = codec
  BY <1>5, Zenon
<1>6. CASE Work
  BY <1>2, <1>3, <1>5, <1>6, Zenon DEF Work, cdns_update_slave_status_work,
     cdns_update_slave_status, Acknowledge, FirstLoop, EndOfIds, WriteDevNumber,
     WriteDevNumberErr, EndOfSlaves, Complete, NotFound, sdw_assign_device_num, NoNumber,
     SlaveGone, SlaveStill, SlaveAttached, codecVars
<1>7. CASE Bus \/ sdw_cdns_irq \/ intel_resume_runtime \/ UNCHANGED vars
  BY <1>5, <1>7, Zenon DEF Bus, Attach, Drop, Alert, sdw_cdns_irq, intel_resume_runtime,
     vars, codecVars
<1> QED BY <1>1, <1>4, <1>6, <1>7, Zenon DEF Next, Power

\* For any devices and any device numbers, with alerts, attachments at any
\* moment, resets, failing power sequences and failing notifications: while no
\* device drops off, no transfer fails and power management waits for the work
\* item, a codec that has run before and resumes (rt711_dev_resume) finds its
\* Slave initialized since the last reset of the bus.
THEOREM ResumedAfterInit ==
  ASSUME Calm
  PROVE  Spec => ResumedIsInitialized
<1> DEFINE A == \A d \in Slave :
                  codec[d] # "active" /\ codec'[d] = "active" /\ hw_init[d] => ~owed[d]
<1>1. RInv /\ [Next]_vars => RInv'
  BY RInvNext, Zenon
<1>2. RInv /\ [Next]_vars => [A]_vars
  BY BecomesActive, Zenon
<1>3. [][A]_vars <=> ResumedIsInitialized
  BY PTL DEF ResumedIsInitialized
<1> QED BY <1>1, <1>2, <1>3, RInvInit, PTL DEF Spec
===============================================================================
