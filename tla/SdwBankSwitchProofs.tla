------------------------- MODULE SdwBankSwitchProofs --------------------------
(***************************************************************************)
(* Proofs about SdwBankSwitch: the interrupt hands every answer to the     *)
(* message it belongs to, and the message of a synchronized bank switch is *)
(* allocated as long as it is used.  They hold for any links, streams,     *)
(* message lengths and failures.                                           *)
(***************************************************************************)
EXTENDS SdwBankSwitch, TLAPS

-------------------------------------------------------------------------------
(* Type correctness: TypeOK in three parts, what a transfer that goes on *)
(* looks like, and one lemma per group of steps                          *)

XferType == [st : {"idle", "send", "wait", "done"}, by : Stream \cup {"io"},
             page : BOOLEAN, want : Nat, len : Nat,
             stage : {"page", "data", "reset"}, chunk : Nat,
             try : 0 .. ErrThreshold, ret : Code, sent : Seq(Nat)]
CmdType == [st : {"none", "held", "run"}, by : {"xfer", "defer"}, code : Code]

-------------------------------------------------------------------------------
(* Transfers *)

LEMMA IdleType == Idle \in XferType
BY BankSwitchAssumption DEF Idle, XferType, Code

LEMMA CmdTypes ==
  /\ NoCmd \in CmdType /\ Held \in CmdType
  /\ \A by \in {"xfer", "defer"}, code \in Code : Run(by, code) \in CmdType
BY Zenon DEF NoCmd, Held, Run, CmdType, Code

LEMMA AnswersType == Answers \subseteq Code /\ SwitchAnswers \subseteq Code
BY DEF Answers, SwitchAnswers, Answer, Code

LEMMA CountType == \A x \in XferType : Count(x) \in Int
BY BankSwitchAssumption DEF Count, XferType

\* The numbers of the registers of a chunk.
LEMMA ChunkType == \A n \in Int : [i \in 1 .. n |-> i] \in Seq(Nat)
<1> TAKE n \in Int
<1>1. CASE n \in Nat
  BY <1>1
<1>2. CASE n \notin Nat
  <2>1. 1 .. n = 1 .. 0
    BY <1>2
  <2> QED  BY <2>1
<1> QED  BY <1>1, <1>2, Zenon

\* What an answer makes of a transfer: it goes on or is done, for its caller.
Goes_on(x, y) == y \in XferType /\ y.by = x.by /\ y.st \in {"send", "done"}

LEMMA AttemptEnds ==
  ASSUME NEW x \in XferType, NEW ret \in Code
  PROVE  Goes_on(x, do_transfer(x, ret))
<1>1. CASE ret \in {"OK", "IGNORED"} \/ x.try = ErrThreshold
  <2> DEFINE y == [x EXCEPT !.ret = ret, !.try = 0, !.stage = "reset",
                            !.st = IF x.page THEN "send" ELSE "done"]
  <2>0. 0 \in 0 .. ErrThreshold
    BY BankSwitchAssumption
  <2>1. Goes_on(x, y)
    BY <2>0, Zenon DEF Goes_on, XferType
  <2> QED  BY <1>1, <2>1, Zenon DEF do_transfer
<1>2. CASE ~(ret \in {"OK", "IGNORED"} \/ x.try = ErrThreshold)
  <2> DEFINE y == [x EXCEPT !.try = @ + 1, !.ret = "OK", !.stage = FirstStage(x),
                            !.st = "send", !.sent = <<>>, !.chunk = 0]
  <2>1. x.try + 1 \in 0 .. ErrThreshold
    BY <1>2, BankSwitchAssumption DEF XferType
  <2>2. FirstStage(x) \in {"page", "data"} /\ "OK" \in Code /\ <<>> \in Seq(Nat)
    BY DEF FirstStage, Code
  <2>3. Goes_on(x, y)
    BY <2>1, <2>2, Zenon DEF Goes_on, XferType
  <2> QED  BY <1>2, <2>3, Zenon DEF do_transfer
<1> QED  BY <1>1, <1>2, Zenon

LEMMA PageAnswered ==
  ASSUME NEW x \in XferType, NEW ret \in Code
  PROVE  Goes_on(x, cdns_prep_msg(x, ret))
<1>1. CASE ret = "OK"
  BY <1>1, Zenon DEF Goes_on, cdns_prep_msg, XferType
<1>2. CASE ret # "OK"
  <2> DEFINE y == [x EXCEPT !.len = 0]
  <2>1. y \in XferType /\ y.by = x.by
    BY Zenon DEF XferType
  <2>2. "FAIL" \in Code
    BY Zenon DEF Code
  <2>3. Goes_on(y, do_transfer(y, "FAIL"))
    BY <2>1, <2>2, AttemptEnds, Zenon
  <2> QED  BY <1>2, <2>1, <2>3, Zenon DEF Goes_on, cdns_prep_msg
<1> QED  BY <1>1, <1>2, Zenon

LEMMA ChunkAnswered ==
  ASSUME NEW x \in XferType, NEW ret \in Code
  PROVE  Goes_on(x, _cdns_xfer_msg(x, ret))
<1>1. x.sent \o [i \in 1 .. Count(x) |-> i] \in Seq(Nat)
  <2>1. x.sent \in Seq(Nat)
    BY Zenon DEF XferType
  <2>2. [i \in 1 .. Count(x) |-> i] \in Seq(Nat)
    BY CountType, ChunkType, Zenon
  <2> QED  BY <2>1, <2>2
<1> DEFINE s == IF ret = "OK" THEN x.sent \o [i \in 1 .. Count(x) |-> i] ELSE x.sent
           l == IF ret = "TIMEOUT" THEN 0 ELSE x.len
           y == [x EXCEPT !.st = "send", !.chunk = x.chunk + 1, !.ret = ret,
                          !.len = l, !.sent = s]
<1>2. s \in Seq(Nat) /\ l \in Nat /\ x.chunk + 1 \in Nat
  BY <1>1 DEF XferType
<1>3. _cdns_xfer_msg(x, ret) = y
  BY Zenon DEF _cdns_xfer_msg
<1> HIDE DEF s, l
<1>4. Goes_on(x, y)
  BY <1>2, Zenon DEF Goes_on, XferType
<1> QED  BY <1>3, <1>4, Zenon

LEMMA ResetAnswered ==
  ASSUME NEW x \in XferType, NEW ret \in Code
  PROVE  Goes_on(x, sdw_reset_page(x, ret))
<1>1. CASE ret \in {"OK", "IGNORED"} \/ x.try = ErrThreshold
  <2>0. 0 \in 0 .. ErrThreshold
    BY BankSwitchAssumption
  <2>1. Goes_on(x, [x EXCEPT !.st = "done", !.try = 0])
    BY <2>0, Zenon DEF Goes_on, XferType
  <2> QED  BY <1>1, <2>1, Zenon DEF sdw_reset_page
<1>2. CASE ~(ret \in {"OK", "IGNORED"} \/ x.try = ErrThreshold)
  <2>1. x.try + 1 \in 0 .. ErrThreshold
    BY <1>2, BankSwitchAssumption DEF XferType
  <2>2. Goes_on(x, [x EXCEPT !.try = @ + 1, !.st = "send"])
    BY <2>1, Zenon DEF Goes_on, XferType
  <2> QED  BY <1>2, <2>2, Zenon DEF sdw_reset_page
<1> QED  BY <1>1, <1>2, Zenon

LEMMA AnsweredType ==
  ASSUME NEW x \in XferType, NEW ret \in Code
  PROVE  Goes_on(x, Answered(x, ret))
<1>1. x.stage \in {"page", "data", "reset"}
  BY Zenon DEF XferType
<1> QED  BY <1>1, PageAnswered, ChunkAnswered, ResetAnswered, Zenon DEF Answered

-------------------------------------------------------------------------------
(* Types, one lemma per action *)

Pc == {"idle", "acquire", "pre", "switch", "wait", "post", "sync", "error"}

\* The variables of the stream threads, and those of the message path.
ThreadType ==
  /\ multi_link \in BOOLEAN /\ failed \in BOOLEAN
  /\ master_list \in [Stream -> MasterLists]
  /\ pc \in [Stream -> Pc]
  /\ at \in [Stream -> Nat] /\ \A s \in Stream : at[s] \in DOMAIN master_list[s]
LinkType ==
  /\ bus_lock \in [Bus -> Stream \cup {NoOne}] /\ msg_lock \in [Bus -> Holder]
  /\ mem \in [Bus -> {"null", "live", "freed"}]
  /\ cmdsync \subseteq Bus
  /\ curr_bank \in [Bus -> {0, 1}] /\ hw_bank \in [Bus -> {0, 1}]
PathType ==
  /\ defer \in [Bus -> BOOLEAN] /\ complete \in [Bus -> BOOLEAN]
  /\ tx_complete \in [Bus -> Code \cup {"none"}]
  /\ cmd \in [Bus -> CmdType]
  /\ xfer \in [Bus -> XferType]

Types == ThreadType /\ LinkType /\ PathType

LEMMA TypeParts == TypeOK <=> Types
BY Zenon DEF Types, TypeOK, ThreadType, LinkType, PathType, Pc, CmdType, XferType

LEMMA Positions ==
  ASSUME ThreadType, NEW s \in Stream
  PROVE  /\ master_list[s] \in Seq(Bus) /\ Len(master_list[s]) \in Nat
         /\ DOMAIN master_list[s] = 1 .. Len(master_list[s])
         /\ at[s] \in 1 .. Len(master_list[s])
         /\ \A i, j \in 1 .. Len(master_list[s]) :
              master_list[s][i] = master_list[s][j] => i = j
         /\ \A i \in 1 .. Len(master_list[s]) : master_list[s][i] \in Bus
<1>1. master_list[s] \in MasterLists /\ at[s] \in DOMAIN master_list[s]
  BY Zenon DEF ThreadType
<1>2. master_list[s] \in Seq(Bus)
  BY <1>1, BankSwitchAssumption, Zenon
<1>3. \A i, j \in DOMAIN master_list[s] : master_list[s][i] = master_list[s][j] => i = j
  BY <1>1, BankSwitchAssumption, Zenon
<1>4. Len(master_list[s]) \in Nat /\ DOMAIN master_list[s] = 1 .. Len(master_list[s])
  BY <1>2
<1>5. \A i \in 1 .. Len(master_list[s]) : master_list[s][i] \in Bus
  BY <1>2
<1> QED  BY <1>1, <1>2, <1>3, <1>4, <1>5, Zenon

LEMMA LinkInBus ==
  ASSUME ThreadType, NEW s \in Stream
  PROVE  Link(s) \in Bus /\ Link(s) \in Links(s) /\ Links(s) \subseteq Bus
BY Positions DEF Link, Links

LEMMA NextType ==
  ASSUME ThreadType, NEW s \in Stream, NEW same \in Pc, NEW after \in Pc,
         Next_m_rt(s, same, after), UNCHANGED <<multi_link, master_list, failed>>
  PROVE  ThreadType'
<1>1. pc' \in [Stream -> Pc]
  BY Zenon DEF Next_m_rt, ThreadType
<1>2. (IF IsLast(s) THEN 1 ELSE at[s] + 1) \in 1 .. Len(master_list[s])
  BY Positions DEF IsLast
<1>3. at' \in [Stream -> Nat] /\ \A t \in Stream : at'[t] \in DOMAIN master_list[t]
  BY <1>2, Positions DEF Next_m_rt, ThreadType
<1> QED  BY <1>1, <1>3, Zenon DEF ThreadType

LEMMA PcType ==
  ASSUME ThreadType, NEW s \in Stream, NEW p \in Pc, pc' = [pc EXCEPT ![s] = p],
         UNCHANGED <<multi_link, master_list, at, failed>>
  PROVE  ThreadType'
BY Zenon DEF ThreadType

LEMMA GoesType ==
  ASSUME LinkType, PathType, NEW b \in Bus, NEW x, Goes_on(xfer[b], x), Goes(b, x)
  PROVE  xfer' \in [Bus -> XferType] /\ msg_lock' \in [Bus -> Holder]
BY Zenon DEF LinkType, PathType, Goes_on, Goes, Holder

LEMMA TransferType ==
  ASSUME LinkType, PathType, NEW b \in Bus, NEW who \in Stream \cup {"io"},
         NEW n \in Nat, NEW page \in BOOLEAN, sdw_transfer(b, who, n, page)
  PROVE  xfer' \in [Bus -> XferType] /\ msg_lock' \in [Bus -> Holder]
<1> DEFINE x == [Idle EXCEPT !.st = "send", !.by = who, !.page = page,
                             !.want = n, !.len = n]
           y == [x EXCEPT !.stage = FirstStage(x)]
<1>1. x \in XferType
  BY IdleType, Zenon DEF XferType
<1>2. y \in XferType
  BY <1>1, Zenon DEF XferType, FirstStage
<1>3. xfer' = [xfer EXCEPT ![b] = y]
  BY Zenon DEF sdw_transfer
<1> HIDE DEF y
<1> QED  BY <1>2, <1>3 DEF LinkType, PathType, Holder, sdw_transfer

LEMMA BusStepType ==
  ASSUME Types, NEW b \in Bus, BusStep(b)
  PROVE  Types'
<1>0. ThreadType /\ LinkType /\ PathType
  BY Zenon DEF Types
<1>a. UNCHANGED switchVars
  BY Zenon DEF BusStep, Io, Send, EndAttempt, Wake, Timeout, RxIrq, Return
<1>b. ThreadType'
  BY <1>0, <1>a, Zenon DEF ThreadType, switchVars
<1>1. CASE \E n \in 1 .. MaxLen, page \in BOOLEAN : Io(b, n, page)
  <2> PICK n \in 1 .. MaxLen, page \in BOOLEAN : Io(b, n, page)
    BY <1>1, Zenon
  <2>1. n \in Nat
    BY BankSwitchAssumption
  <2>2. xfer' \in [Bus -> XferType] /\ msg_lock' \in [Bus -> Holder]
    BY <1>0, <2>1, TransferType, Zenon DEF Io
  <2> QED  BY <1>0, <1>a, <1>b, <2>2, Zenon DEF Types, LinkType, PathType, switchVars, Io
<1>2. CASE Send(b)
  <2>1. xfer' \in [Bus -> XferType]
    <3> DEFINE y == [xfer[b] EXCEPT !.st = "wait"]
    <3>1. y \in XferType
      <4>1. xfer[b] \in XferType
        BY <1>0, Zenon DEF PathType
      <4> QED  BY <4>1, Zenon DEF XferType
    <3>2. xfer' = [xfer EXCEPT ![b] = y]
      BY <1>2, Zenon DEF Send
    <3> QED  BY <1>0, <3>1, <3>2, Zenon DEF PathType
  <2>2. cmd' \in [Bus -> CmdType] /\ hw_bank' \in [Bus -> {0, 1}]
    BY <1>0, <1>2, CmdTypes, AnswersType DEF Send, PathType, LinkType
  <2> QED  BY <1>0, <1>2, <1>a, <1>b, <2>1, <2>2, Zenon DEF Types, LinkType, PathType, switchVars, Send
<1>3. CASE EndAttempt(b) \/ Wake(b) \/ Timeout(b)
  <2>1. \E x : Goes_on(xfer[b], x) /\ Goes(b, x)
    <3>1. xfer[b] \in XferType /\ xfer[b].ret \in Code /\ "TIMEOUT" \in Code
      BY <1>0, Zenon DEF PathType, XferType, Code
    <3>2. tx_complete[b] # "none" => tx_complete[b] \in Code
      BY <1>0, Zenon DEF PathType
    <3> QED  BY <1>3, <3>1, <3>2, AttemptEnds, AnsweredType, Zenon DEF EndAttempt, Wake, Timeout
  <2>2. xfer' \in [Bus -> XferType] /\ msg_lock' \in [Bus -> Holder]
    BY <1>0, <2>1, GoesType, Zenon
  <2>3. tx_complete' \in [Bus -> Code \cup {"none"}]
    BY <1>0, <1>3, Zenon DEF PathType, EndAttempt, Wake, Timeout
  <2>4. UNCHANGED <<defer, complete, cmd, hw_bank>>
    BY <1>3, Zenon DEF EndAttempt, Wake, Timeout
  <2> QED  BY <1>0, <1>a, <1>b, <2>2, <2>3, <2>4, Zenon DEF Types, LinkType, PathType, switchVars
<1>4. CASE RxIrq(b)
  <2>1. cmd' \in [Bus -> CmdType] /\ defer' \in [Bus -> BOOLEAN]
    BY <1>0, <1>4, CmdTypes, Zenon DEF RxIrq, PathType
  <2>2. complete' \in [Bus -> BOOLEAN]
    BY <1>0, <1>4, Zenon DEF RxIrq, PathType
  <2>3. tx_complete' \in [Bus -> Code \cup {"none"}]
    BY <1>0, <1>4, Zenon DEF RxIrq, PathType, CmdType
  <2> QED  BY <1>0, <1>4, <1>a, <1>b, <2>1, <2>2, <2>3, Zenon DEF Types, LinkType, PathType, switchVars, RxIrq
<1>5. CASE Return(b)
  <2>1. xfer' \in [Bus -> XferType]
    BY <1>0, <1>5, IdleType, Zenon DEF PathType, Return
  <2> QED  BY <1>0, <1>5, <1>a, <1>b, <2>1, Zenon DEF Types, LinkType, PathType, switchVars, Return
<1> QED  BY <1>1, <1>2, <1>3, <1>4, <1>5, Zenon DEF BusStep

LEMMA SyncGoType ==
  ASSUME LinkType, PathType, SyncGo \/ UNCHANGED <<cmd, hw_bank, cmdsync>>
  PROVE  /\ cmd' \in [Bus -> CmdType] /\ hw_bank' \in [Bus -> {0, 1}]
         /\ cmdsync' \subseteq Bus
<1>1. CASE SyncGo
  BY <1>1, CmdTypes, AnswersType DEF SyncGo, LinkType, PathType
<1>2. CASE UNCHANGED <<cmd, hw_bank, cmdsync>>
  BY <1>2, Zenon DEF LinkType, PathType
<1> QED  BY <1>1, <1>2, Zenon

LEMMA UnlockedType ==
  ASSUME LinkType, NEW s \in Stream
  PROVE  Unlocked(bus_lock, s) \in [Bus -> Stream \cup {NoOne}]
BY Zenon DEF LinkType, Unlocked

\* Where a call goes next is a place of do_bank_switch.
LEMMA StreamStepThread ==
  ASSUME ThreadType, NEW s \in Stream, StreamStep(s)
  PROVE  ThreadType'
<1>1. CASE Call(s) \/ intel_pre_bank_switch(s) \/ sdw_bank_switch_transfer(s)
           \/ intel_post_bank_switch(s)
  BY <1>1, PcType, Zenon DEF Pc, Call, intel_pre_bank_switch, sdw_bank_switch_transfer,
     intel_post_bank_switch, pathVars
<1>2. CASE sdw_bank_switch_nomem(s) \/ intel_post_bank_switch_err(s)
           \/ sdw_ml_sync_bank_switch_err(s)
  BY <1>2, PcType, Zenon DEF Pc, Fail, sdw_bank_switch_nomem, intel_post_bank_switch_err,
     sdw_ml_sync_bank_switch_err, pathVars
<1>3. CASE sdw_acquire_bus_lock(s) \/ sdw_bank_switch_defer(s)
           \/ sdw_ml_sync_bank_switch(s)
  BY <1>3, NextType, Zenon DEF Pc, sdw_acquire_bus_lock, sdw_bank_switch_defer,
     sdw_ml_sync_bank_switch, pathVars
<1>4. CASE sdw_bank_switch_done(s)
  BY <1>4, NextType, PcType, Zenon DEF Pc, Fail, sdw_bank_switch_done, pathVars
<1>5. CASE do_bank_switch_err(s)
  <2>1. 1 \in DOMAIN master_list[s]
    BY Positions
  <2> QED  BY <1>5, <2>1, Zenon DEF do_bank_switch_err, ThreadType, Pc
<1> QED  BY <1>1, <1>2, <1>3, <1>4, <1>5, Zenon DEF StreamStep

LEMMA StreamStepLink ==
  ASSUME Types, NEW s \in Stream, StreamStep(s)
  PROVE  LinkType'
<1>0. ThreadType /\ LinkType /\ PathType /\ Link(s) \in Bus
  BY LinkInBus, Zenon DEF Types
<1>1. CASE Call(s) \/ sdw_ml_sync_bank_switch_err(s)
  BY <1>0, <1>1, Zenon DEF Call, sdw_ml_sync_bank_switch_err, LinkType
<1>2. CASE sdw_acquire_bus_lock(s)
  BY <1>0, <1>2, Zenon DEF sdw_acquire_bus_lock, LinkType
<1>3. CASE intel_pre_bank_switch(s)
  <2>1. msg_lock' \in [Bus -> Holder]
    BY <1>0, <1>3, Zenon DEF intel_pre_bank_switch, LinkType, Holder
  <2> QED  BY <1>0, <1>3, <2>1, Zenon DEF intel_pre_bank_switch, LinkType
<1>4. CASE sdw_bank_switch_defer(s)
  <2>1. mem' \in [Bus -> {"null", "live", "freed"}]
    BY <1>0, <1>4, Zenon DEF sdw_bank_switch_defer, LinkType
  <2>2. hw_bank' \in [Bus -> {0, 1}]
    BY <1>0, <1>4 DEF sdw_bank_switch_defer, LinkType
  <2> QED  BY <1>0, <1>4, <2>1, <2>2, Zenon DEF sdw_bank_switch_defer, LinkType
<1>5. CASE sdw_bank_switch_transfer(s)
  <2>1. msg_lock' \in [Bus -> Holder]
    BY <1>0, <1>5, TransferType, Zenon DEF sdw_bank_switch_transfer
  <2> QED  BY <1>0, <1>5, <2>1, Zenon DEF sdw_bank_switch_transfer, LinkType
<1>6. CASE sdw_bank_switch_nomem(s)
  BY <1>0, <1>6, Zenon DEF sdw_bank_switch_nomem, LinkType
<1>7. CASE sdw_bank_switch_done(s)
  <2>1. mem' \in [Bus -> {"null", "live", "freed"}]
    BY <1>0, <1>7, Zenon DEF sdw_bank_switch_done, LinkType
  <2>2. curr_bank' \in [Bus -> {0, 1}]
    BY <1>0, <1>7 DEF sdw_bank_switch_done, LinkType
  <2> QED  BY <1>0, <1>7, <2>1, <2>2, Zenon DEF sdw_bank_switch_done, LinkType
<1>8. CASE intel_post_bank_switch(s) \/ intel_post_bank_switch_err(s)
  <2>1. hw_bank' \in [Bus -> {0, 1}] /\ cmdsync' \subseteq Bus
    BY <1>0, <1>8, SyncGoType, Zenon DEF intel_post_bank_switch, intel_post_bank_switch_err
  <2> QED  BY <1>0, <1>8, <2>1, Zenon DEF intel_post_bank_switch, intel_post_bank_switch_err, LinkType
<1>9. CASE sdw_ml_sync_bank_switch(s)
  <2>1. mem' \in [Bus -> {"null", "live", "freed"}] /\ curr_bank' \in [Bus -> {0, 1}]
    BY <1>0, <1>9 DEF sdw_ml_sync_bank_switch, LinkType
  <2>2. msg_lock' \in [Bus -> Holder]
    BY <1>0, <1>9, Zenon DEF sdw_ml_sync_bank_switch, LinkType, Holder
  <2>3. bus_lock' \in [Bus -> Stream \cup {NoOne}]
    BY <1>0, <1>9, UnlockedType, Zenon DEF sdw_ml_sync_bank_switch, LinkType
  <2> QED  BY <1>0, <1>9, <2>1, <2>2, <2>3, Zenon DEF sdw_ml_sync_bank_switch, LinkType
<1>10. CASE do_bank_switch_err(s)
  <2>1. bus_lock' \in [Bus -> Stream \cup {NoOne}]
    BY <1>0, <1>10, UnlockedType, Zenon DEF do_bank_switch_err
  <2>2. msg_lock' \in [Bus -> Holder]
    BY <1>0, <1>10, Zenon DEF do_bank_switch_err, LinkType, Holder
  <2> QED  BY <1>0, <1>10, <2>1, <2>2, Zenon DEF do_bank_switch_err, LinkType
<1> QED  BY <1>1, <1>2, <1>3, <1>4, <1>5, <1>6, <1>7, <1>8, <1>9, <1>10, Zenon DEF StreamStep

LEMMA StreamStepPath ==
  ASSUME Types, NEW s \in Stream, StreamStep(s)
  PROVE  PathType'
<1>0. ThreadType /\ LinkType /\ PathType /\ Link(s) \in Bus
  BY LinkInBus, Zenon DEF Types
<1>1. CASE UNCHANGED <<defer, complete, tx_complete, cmd, xfer>>
  BY <1>0, <1>1, Zenon DEF PathType
<1>2. CASE sdw_bank_switch_defer(s)
  <2>1. cmd' \in [Bus -> CmdType]
    BY <1>0, <1>2, CmdTypes, AnswersType DEF sdw_bank_switch_defer, PathType
  <2>2. defer' \in [Bus -> BOOLEAN] /\ complete' \in [Bus -> BOOLEAN]
    BY <1>0, <1>2, Zenon DEF sdw_bank_switch_defer, PathType
  <2> QED  BY <1>0, <1>2, <2>1, <2>2, Zenon DEF sdw_bank_switch_defer, PathType, pathVars
<1>3. CASE sdw_bank_switch_transfer(s)
  <2>1. xfer' \in [Bus -> XferType]
    BY <1>0, <1>3, TransferType, Zenon DEF sdw_bank_switch_transfer
  <2> QED  BY <1>0, <1>3, <2>1, Zenon DEF sdw_bank_switch_transfer, PathType, pathVars
<1>4. CASE sdw_bank_switch_done(s)
  BY <1>0, <1>4, IdleType, Zenon DEF sdw_bank_switch_done, PathType, pathVars
<1>5. CASE intel_post_bank_switch(s) \/ intel_post_bank_switch_err(s)
  <2>1. cmd' \in [Bus -> CmdType]
    BY <1>0, <1>5, SyncGoType, Zenon DEF intel_post_bank_switch, intel_post_bank_switch_err
  <2> QED  BY <1>0, <1>5, <2>1, Zenon
           DEF intel_post_bank_switch, intel_post_bank_switch_err, PathType, pathVars
<1>6. CASE sdw_ml_sync_bank_switch(s)
  <2>1. complete' \in [Bus -> BOOLEAN]
    BY <1>0, <1>6, Zenon DEF sdw_ml_sync_bank_switch, PathType
  <2> QED  BY <1>0, <1>6, <2>1, Zenon DEF sdw_ml_sync_bank_switch, PathType, pathVars
<1> QED
  BY <1>1, <1>2, <1>3, <1>4, <1>5, <1>6, Zenon
     DEF StreamStep, Call, sdw_acquire_bus_lock, intel_pre_bank_switch,
         sdw_bank_switch_nomem, sdw_ml_sync_bank_switch_err, do_bank_switch_err, pathVars

LEMMA StartType ==
  ASSUME Types, NEW b \in Bus, intel_shim_sync_go(b)
  PROVE  Types'
<1>1. /\ SyncGo
      /\ UNCHANGED <<multi_link, master_list, tx_complete, failed, pc, at, bus_lock,
                     msg_lock, mem, defer, complete, curr_bank, xfer>>
  BY Zenon DEF intel_shim_sync_go, pathVars
<1>2. /\ cmd' \in [Bus -> CmdType] /\ hw_bank' \in [Bus -> {0, 1}]
      /\ cmdsync' \subseteq Bus
  BY <1>1, SyncGoType, Zenon DEF Types
<1>3. ThreadType'
  BY <1>1, Zenon DEF Types, ThreadType
<1>4. LinkType'
  BY <1>1, <1>2, Zenon DEF Types, LinkType
<1>5. PathType'
  BY <1>1, <1>2, Zenon DEF Types, PathType
<1> QED  BY <1>3, <1>4, <1>5, Zenon DEF Types

LEMMA NextTypes == Types /\ [Next]_vars => Types'
<1>1. ASSUME Types, UNCHANGED vars PROVE Types'
  BY <1>1, Zenon DEF Types, ThreadType, LinkType, PathType, vars
<1>2. ASSUME Types, NEW s \in Stream, StreamStep(s) PROVE Types'
  <2>1. ThreadType'
    BY <1>2, StreamStepThread, Zenon DEF Types
  <2> QED  BY <1>2, <2>1, StreamStepLink, StreamStepPath, Zenon DEF Types
<1> QED  BY <1>1, <1>2, BusStepType, StartType, Zenon DEF Next, Undefined

LEMMA InitTypes == Init => Types
<1> SUFFICES ASSUME Init PROVE Types
  BY Zenon
<1>1. ThreadType
  <2>1. \A s \in Stream : 1 \in DOMAIN master_list[s]
    BY BankSwitchAssumption DEF Init
  <2> QED  BY <2>1, Zenon DEF Init, ThreadType, Pc
<1>2. LinkType
  BY Zenon DEF Init, LinkType, Holder
<1>3. PathType
  BY IdleType, CmdTypes, Zenon DEF Init, PathType
<1> QED  BY <1>1, <1>2, <1>3, Zenon DEF Types

\* Type correctness: in particular every answer that travels through
\* _cdns_xfer_msg and the deferred message is one of the sdw_command_response
\* codes, and a transfer is never retried beyond err_threshold.
THEOREM SwitchTypeCorrect == Spec => []TypeOK
<1>1. Spec => []Types
  BY InitTypes, NextTypes, PTL DEF Spec
<1> QED  BY <1>1, TypeParts, PTL

-------------------------------------------------------------------------------
(* Messages that one filling of the command buffer carries *)

Numbers(n) == [i \in 1 .. n |-> i]

\* A result of 0 for a message whose length was not zeroed on the way.
Sent(x, ret) == ret = "OK" /\ x.len = x.want => x.sent = Numbers(x.want)

\* Such a message has one chunk: nothing of it is sent before the answer to
\* that chunk, and after it all or nothing counts.  A length that a timeout or a
\* failed page write has zeroed is never restored.
InOneGo(x) ==
  /\ x.want \in 1 .. CmdLen /\ x.len \in {0, x.want} /\ x.chunk \in {0, 1}
  /\ x.stage = "page" => x.chunk = 0
  /\ x.stage # "reset" /\ x.chunk = 0 => x.sent = <<>>
  /\ x.stage = "data" /\ x.st = "wait" => x.chunk = 0 /\ x.len = x.want
  /\ x.st = "done" => x.stage = "reset"
  /\ x.stage = "reset" \/ x.chunk = 1 => Sent(x, x.ret)

LEMMA CountInOneGo ==
  ASSUME NEW x \in XferType, InOneGo(x)
  PROVE  /\ x.chunk = 0 => Count(x) = x.len
         /\ x.chunk = 1 => Count(x) <= 0
         /\ x.want \in Nat /\ x.want # 0
<1>1. /\ x.want \in 1 .. CmdLen /\ x.len \in {0, x.want} /\ x.chunk \in {0, 1}
      /\ CmdLen \in Nat /\ CmdLen > 0
  BY BankSwitchAssumption DEF InOneGo
<1>2. x.chunk = 0 => x.chunk * CmdLen = 0
  BY <1>1
<1>3. x.chunk = 1 => x.chunk * CmdLen = CmdLen
  BY <1>1
<1> QED
  BY <1>1, <1>2, <1>3 DEF Count

\* do_transfer, at the end of an attempt with result ret.
LEMMA AttemptInOneGo ==
  ASSUME NEW x \in XferType, InOneGo(x), NEW ret \in Code, Sent(x, ret)
  PROVE  InOneGo(do_transfer(x, ret))
<1>1. /\ x.want \in 1 .. CmdLen /\ x.len \in {0, x.want} /\ x.chunk \in {0, 1}
  BY Zenon DEF InOneGo
<1>2. CASE ret \in {"OK", "IGNORED"} \/ x.try = ErrThreshold
  <2> DEFINE y == [x EXCEPT !.ret = ret, !.try = 0, !.stage = "reset",
                            !.st = IF x.page THEN "send" ELSE "done"]
  <2>1. do_transfer(x, ret) = y
    BY <1>2, Zenon DEF do_transfer
  <2>2. /\ y.want = x.want /\ y.len = x.len /\ y.chunk = x.chunk /\ y.ret = ret
        /\ y.sent = x.sent /\ y.stage = "reset"
    BY Zenon DEF XferType
  <2> HIDE DEF y
  <2>3. "reset" # "page" /\ "reset" # "data"
    OBVIOUS
  <2>4. InOneGo(y)
    BY <1>1, <2>2, <2>3, Zenon DEF InOneGo, Sent
  <2> QED
    BY <2>1, <2>4, Zenon
<1>3. CASE ~(ret \in {"OK", "IGNORED"} \/ x.try = ErrThreshold)
  <2> DEFINE y == [x EXCEPT !.try = x.try + 1, !.ret = "OK", !.stage = FirstStage(x),
                            !.st = "send", !.sent = <<>>, !.chunk = 0]
  <2>1. do_transfer(x, ret) = y
    BY <1>3, Zenon DEF do_transfer
  <2>2. /\ y.want = x.want /\ y.len = x.len /\ y.chunk = 0 /\ y.sent = <<>>
        /\ y.stage = FirstStage(x) /\ y.st = "send"
    BY Zenon DEF XferType
  <2> HIDE DEF y
  <2>3. /\ FirstStage(x) # "reset" /\ "send" # "wait" /\ "send" # "done" /\ 0 # 1
        /\ 0 \in {0, 1}
    BY DEF FirstStage
  <2>4. InOneGo(y)
    BY <1>1, <2>2, <2>3, Zenon DEF InOneGo
  <2> QED
    BY <2>1, <2>4, Zenon
<1> QED
  BY <1>2, <1>3, Zenon

\* cdns_prep_msg, _cdns_xfer_msg and sdw_reset_page, with the answer ret.
LEMMA AnswerInOneGo ==
  ASSUME NEW x \in XferType, InOneGo(x), x.st = "wait", NEW ret \in Code
  PROVE  InOneGo(Answered(x, ret))
<1>0. /\ x.want \in 1 .. CmdLen /\ x.len \in {0, x.want} /\ x.chunk \in {0, 1}
      /\ x.stage \in {"page", "data", "reset"}
  BY Zenon DEF InOneGo, XferType
<1>1. CASE x.stage = "page" /\ ret = "OK"
  <2> DEFINE y == [x EXCEPT !.stage = "data", !.st = "send"]
  <2>1. Answered(x, ret) = y
    BY <1>1, Zenon DEF Answered, cdns_prep_msg
  <2>2. /\ y.want = x.want /\ y.len = x.len /\ y.chunk = x.chunk /\ y.sent = x.sent
        /\ y.stage = "data" /\ y.st = "send"
    BY Zenon DEF XferType
  <2> HIDE DEF y
  <2>3. x.chunk = 0 /\ x.sent = <<>>
    BY <1>1 DEF InOneGo
  <2>4. /\ "data" # "page" /\ "data" # "reset" /\ "send" # "wait" /\ "send" # "done"
        /\ 0 # 1
    OBVIOUS
  <2>5. InOneGo(y)
    BY <1>0, <2>2, <2>3, <2>4, Zenon DEF InOneGo
  <2> QED
    BY <2>1, <2>5, Zenon
<1>2. CASE x.stage = "page" /\ ret # "OK"
  <2> DEFINE y == [x EXCEPT !.len = 0]
  <2>1. Answered(x, ret) = do_transfer(y, "FAIL")
    BY <1>2, Zenon DEF Answered, cdns_prep_msg
  <2>2. /\ y.want = x.want /\ y.len = 0 /\ y.chunk = x.chunk /\ y.sent = x.sent
        /\ y.stage = "page" /\ y.st = "wait" /\ y \in XferType
    BY <1>2, Zenon DEF XferType
  <2> HIDE DEF y
  <2>3. /\ x.chunk = 0 /\ x.sent = <<>> /\ "page" # "data" /\ "page" # "reset"
        /\ "wait" # "done" /\ "FAIL" # "OK" /\ 0 # 1
    BY <1>2 DEF InOneGo
  <2>4. InOneGo(y) /\ Sent(y, "FAIL") /\ "FAIL" \in Code
    BY <1>0, <2>2, <2>3, Zenon DEF InOneGo, Sent, Code
  <2> QED
    BY <2>1, <2>2, <2>4, AttemptInOneGo, Zenon
<1>3. CASE x.stage = "data"
  <2>1. x.chunk = 0 /\ x.len = x.want /\ x.sent = <<>>
    BY <1>3 DEF InOneGo
  <2>2. Count(x) = x.want /\ x.want \in Nat /\ x.want # 0
    BY <2>1, CountInOneGo, Zenon
  <2> DEFINE s == IF ret = "OK" THEN x.sent \o Numbers(Count(x)) ELSE x.sent
             l == IF ret = "TIMEOUT" THEN 0 ELSE x.len
             y == [x EXCEPT !.st = "send", !.chunk = x.chunk + 1, !.ret = ret,
                            !.len = l, !.sent = s]
  <2>3. Answered(x, ret) = y
    BY <1>3 DEF Answered, _cdns_xfer_msg, Numbers
  <2>4. ret = "OK" => s = Numbers(x.want)
    <3>1. Numbers(x.want) \in Seq(Nat)
      BY <2>2, ChunkType DEF Numbers
    <3>2. <<>> \o Numbers(x.want) = Numbers(x.want)
      BY <3>1
    <3> QED
      BY <2>1, <2>2, <3>2, Zenon
  <2>5. l \in {0, x.want}
    BY <2>1, Zenon
  <2> HIDE DEF s, l
  <2>6. /\ y.want = x.want /\ y.len = l /\ y.chunk = x.chunk + 1 /\ y.sent = s
        /\ y.ret = ret /\ y.stage = "data" /\ y.st = "send"
    BY <1>3, Zenon DEF XferType
  <2> HIDE DEF y
  <2>7. /\ y.chunk = 1 /\ 1 # 0 /\ 1 \in {0, 1} /\ "data" # "page"
        /\ "send" # "wait" /\ "send" # "done"
    BY <2>1, <2>6
  <2>8. InOneGo(y)
    BY <1>0, <2>4, <2>5, <2>6, <2>7, Zenon DEF InOneGo, Sent
  <2> QED
    BY <2>3, <2>8, Zenon
<1>4. CASE x.stage = "reset"
  <2> DEFINE y == IF ret \in {"OK", "IGNORED"} \/ x.try = ErrThreshold
                  THEN [x EXCEPT !.st = "done", !.try = 0]
                  ELSE [x EXCEPT !.try = x.try + 1, !.st = "send"]
  <2>1. Answered(x, ret) = y
    BY <1>4 DEF Answered, sdw_reset_page
  <2>2. /\ y.want = x.want /\ y.len = x.len /\ y.chunk = x.chunk /\ y.sent = x.sent
        /\ y.ret = x.ret /\ y.stage = "reset"
    BY <1>4, Zenon DEF XferType
  <2> HIDE DEF y
  <2>3. "reset" # "page" /\ "reset" # "data"
    OBVIOUS
  <2>4. Sent(x, x.ret)
    BY <1>4, Zenon DEF InOneGo
  <2>5. InOneGo(y)
    BY <1>0, <2>2, <2>3, <2>4, Zenon DEF InOneGo, Sent
  <2> QED
    BY <2>1, <2>5, Zenon
<1> QED
  BY <1>0, <1>1, <1>2, <1>3, <1>4, Zenon

Whole == \A b \in Bus : xfer[b].st = "idle" \/ InOneGo(xfer[b])

\* One transfer changes.
LEMMA OneChanges ==
  ASSUME PathType, Whole, NEW b \in Bus, NEW y, xfer' = [xfer EXCEPT ![b] = y],
         y.st = "idle" \/ InOneGo(y)
  PROVE  Whole'
<1>1. ASSUME NEW c \in Bus PROVE xfer'[c].st = "idle" \/ InOneGo(xfer'[c])
  BY Zenon DEF PathType, Whole
<1> QED
  BY <1>1, Zenon DEF Whole

LEMMA TransferInOneGo ==
  ASSUME PathType, Whole, NEW b \in Bus, NEW who, NEW n \in 1 .. CmdLen, NEW page,
         sdw_transfer(b, who, n, page)
  PROVE  Whole'
<1> DEFINE x == [Idle EXCEPT !.st = "send", !.by = who, !.page = page,
                             !.want = n, !.len = n]
           y == [x EXCEPT !.stage = FirstStage(x)]
<1>1. /\ y.st = "send" /\ y.want = n /\ y.len = n /\ y.chunk = 0 /\ y.sent = <<>>
      /\ y.stage = FirstStage(x)
  BY Zenon DEF Idle
<1>2. FirstStage(x) \in {"page", "data"}
  BY Zenon DEF FirstStage
<1>3. xfer' = [xfer EXCEPT ![b] = y]
  BY Zenon DEF sdw_transfer
<1> HIDE DEF x, y
<1>4. /\ y.stage # "reset" /\ "send" # "wait" /\ "send" # "done" /\ 0 # 1
      /\ 0 \in {0, 1}
  BY <1>1, <1>2
<1>5. InOneGo(y)
  BY <1>1, <1>4, Zenon DEF InOneGo
<1> QED
  BY <1>3, <1>5, OneChanges, Zenon

LEMMA BusStepWhole ==
  ASSUME Types, Whole, MaxLen <= CmdLen, NEW b \in Bus, BusStep(b)
  PROVE  Whole'
<1>0. PathType /\ xfer[b] \in XferType
  BY Zenon DEF Types, PathType
<1>1. ASSUME NEW n \in 1 .. MaxLen, NEW page \in BOOLEAN, Io(b, n, page) PROVE Whole'
  <2>1. n \in 1 .. CmdLen
    BY BankSwitchAssumption
  <2> QED
    BY <1>0, <1>1, <2>1, TransferInOneGo, Zenon DEF Io
<1>2. CASE Send(b)
  <2> DEFINE x == xfer[b]  y == [x EXCEPT !.st = "wait"]
  <2>1. xfer' = [xfer EXCEPT ![b] = y] /\ x.st = "send" /\ ~IsOver(x)
    BY <1>2, Zenon DEF Send
  <2>2. InOneGo(x)
    BY <2>1 DEF Whole
  <2>3. /\ y.want = x.want /\ y.len = x.len /\ y.chunk = x.chunk /\ y.sent = x.sent
        /\ y.ret = x.ret /\ y.stage = x.stage /\ y.st = "wait"
    BY <1>0, Zenon DEF XferType
  <2>4. x.stage = "data" => x.chunk = 0 /\ x.len = x.want
    <3>1. /\ x.chunk = 0 => Count(x) = x.len
          /\ x.chunk = 1 => Count(x) <= 0
      BY <1>0, <2>2, CountInOneGo, Zenon
    <3>2. x.len \in {0, x.want} /\ x.chunk \in {0, 1}
      BY <2>2, Zenon DEF InOneGo
    <3>3. x.stage = "data" => ~(Count(x) <= 0)
      BY <2>1, Zenon DEF IsOver
    <3> HIDE DEF x
    <3> QED
      BY <3>1, <3>2, <3>3
  <2> HIDE DEF y
  <2>5. "wait" # "done"
    OBVIOUS
  <2>6. InOneGo(y)
    BY <2>2, <2>3, <2>4, <2>5, Zenon DEF InOneGo, Sent
  <2> QED
    BY <1>0, <2>1, <2>6, OneChanges, Zenon
<1>3. CASE EndAttempt(b)
  <2> DEFINE x == xfer[b]
  <2>1. /\ xfer' = [xfer EXCEPT ![b] = do_transfer(x, x.ret)] /\ x.st = "send"
        /\ x.stage = "data" /\ Count(x) <= 0
    BY <1>3, Zenon DEF EndAttempt, Goes, IsOver
  <2>2. InOneGo(x) /\ x.ret \in Code
    BY <1>0, <2>1 DEF Whole, XferType
  <2>3. Sent(x, x.ret)
    <3>1. CASE x.chunk = 1
      BY <2>2, <3>1, Zenon DEF InOneGo
    <3>2. CASE x.chunk = 0
      <4>1. Count(x) = x.len /\ x.want \in Nat /\ x.want # 0
        BY <1>0, <2>2, <3>2, CountInOneGo, Zenon
      <4>2. x.len # x.want
        BY <2>1, <4>1
      <4> QED
        BY <4>2, Zenon DEF Sent
    <3> QED
      BY <2>2, <3>1, <3>2, Zenon DEF InOneGo
  <2>4. InOneGo(do_transfer(x, x.ret))
    BY <1>0, <2>2, <2>3, AttemptInOneGo, Zenon
  <2> QED
    BY <1>0, <2>1, <2>4, OneChanges, Zenon
<1>4. CASE Wake(b) \/ Timeout(b)
  <2> DEFINE x == xfer[b]
  <2>1. PICK ret \in Code : xfer' = [xfer EXCEPT ![b] = Answered(x, ret)]
    <3>1. "TIMEOUT" \in Code /\ (tx_complete[b] # "none" => tx_complete[b] \in Code)
      BY <1>0, Zenon DEF PathType, Code
    <3> QED
      BY <1>4, <3>1, Zenon DEF Wake, Timeout, Goes
  <2>2. x.st = "wait"
    BY <1>4, Zenon DEF Wake, Timeout
  <2>3. InOneGo(x)
    BY <2>2 DEF Whole
  <2>4. InOneGo(Answered(x, ret))
    BY <1>0, <2>2, <2>3, AnswerInOneGo, Zenon
  <2> QED
    BY <1>0, <2>1, <2>4, OneChanges, Zenon
<1>5. CASE RxIrq(b)
  BY <1>5, Zenon DEF RxIrq, Whole
<1>6. CASE Return(b)
  <2>1. xfer' = [xfer EXCEPT ![b] = Idle] /\ Idle.st = "idle"
    BY <1>6, Zenon DEF Return, Idle
  <2> QED
    BY <1>0, <2>1, OneChanges, Zenon
<1> QED
  BY <1>1, <1>2, <1>3, <1>4, <1>5, <1>6, Zenon DEF BusStep

LEMMA StreamStepWhole ==
  ASSUME Types, Whole, NEW s \in Stream, StreamStep(s)
  PROVE  Whole'
<1>0. PathType /\ Link(s) \in Bus
  BY LinkInBus, Zenon DEF Types
<1>1. CASE xfer' = xfer
  BY <1>1, Zenon DEF Whole
<1>2. CASE sdw_bank_switch_transfer(s)
  <2>1. 1 \in 1 .. CmdLen
    BY BankSwitchAssumption
  <2> QED
    BY <1>0, <1>2, <2>1, TransferInOneGo, Zenon DEF sdw_bank_switch_transfer
<1>3. CASE sdw_bank_switch_done(s)
  <2>1. xfer' = [xfer EXCEPT ![Link(s)] = Idle] /\ Idle.st = "idle"
    BY <1>3, Zenon DEF sdw_bank_switch_done, Idle
  <2> QED
    BY <1>0, <2>1, OneChanges, Zenon
<1> QED
  BY <1>1, <1>2, <1>3, Zenon
     DEF StreamStep, Call, sdw_acquire_bus_lock, intel_pre_bank_switch,
         sdw_bank_switch_defer, sdw_bank_switch_nomem, intel_post_bank_switch,
         intel_post_bank_switch_err, sdw_ml_sync_bank_switch,
         sdw_ml_sync_bank_switch_err, do_bank_switch_err

\* If one filling of the command buffer (CDNS_MCP_CMD_LEN, 32 registers) carries
\* every message, one that sdw_transfer reports as sent with its length intact
\* was acknowledged register by register, after any number of retries and
\* whatever was refused, ignored or lost on the way.  Longer messages start
\* every chunk at the same register (run xfer_chunks).
THEOREM ShortMessagesComplete ==
  ASSUME MaxLen <= CmdLen
  PROVE  Spec => []TransferComplete
<1>1. Init => Types /\ Whole
  <2>1. Idle.st = "idle"
    BY Zenon DEF Idle
  <2>2. ASSUME Init PROVE Whole
    <3>1. xfer = [b \in Bus |-> Idle]
      BY <2>2, Zenon DEF Init
    <3> QED
      BY <2>1, <3>1, Zenon DEF Whole
  <2> QED
    BY <2>2, InitTypes, Zenon
<1>2. Types /\ Whole /\ [Next]_vars => (Types /\ Whole)'
  <2>1. ASSUME Types, Whole, UNCHANGED vars PROVE Whole'
    BY <2>1, Zenon DEF Whole, vars
  <2>2. ASSUME Whole, NEW b \in Bus, intel_shim_sync_go(b) PROVE Whole'
    BY <2>2, Zenon DEF Whole, intel_shim_sync_go
  <2> QED
    BY <2>1, <2>2, NextTypes, BusStepWhole, StreamStepWhole, Zenon DEF Next, Undefined
<1>3. Whole => TransferComplete
  <2> SUFFICES ASSUME Whole, NEW b \in Bus, xfer[b].st = "done", xfer[b].ret = "OK",
                      xfer[b].len = xfer[b].want
               PROVE  xfer[b].sent = Numbers(xfer[b].want)
    BY Zenon DEF TransferComplete, Numbers
  <2>1. InOneGo(xfer[b])
    BY DEF Whole
  <2> QED
    BY <2>1, Zenon DEF InOneGo, Sent
<1> QED
  BY <1>1, <1>2, <1>3, PTL DEF Spec

-------------------------------------------------------------------------------
(* The walk over the masters of a stream *)

Behind(s) == {master_list[s][i] : i \in 1 .. (at[s] - 1)}
Ahead(s) == {master_list[s][i] : i \in at[s] .. Len(master_list[s])}

LEMMA Walk ==
  ASSUME ThreadType, NEW s \in Stream
  PROVE  /\ Behind(s) \subseteq Links(s) /\ Ahead(s) \subseteq Links(s)
         /\ Link(s) \notin Behind(s)
         /\ at[s] = 1 => Ahead(s) = Links(s) /\ Behind(s) = {}
         /\ IsLast(s) => Links(s) = Behind(s) \cup {Link(s)} /\ Ahead(s) = {Link(s)}
<1> DEFINE l == master_list[s]  n == Len(l)
<1>0. /\ n \in Nat /\ at[s] \in 1 .. n /\ DOMAIN l = 1 .. n
      /\ \A i, j \in 1 .. n : l[i] = l[j] => i = j
  BY Positions, Zenon
<1>1. Links(s) = {l[i] : i \in 1 .. n}
  BY <1>0, Zenon DEF Links
<1> HIDE DEF n
<1>2. Behind(s) \subseteq Links(s)
  BY <1>0, <1>1 DEF Behind
<1>3. Ahead(s) \subseteq Links(s)
  BY <1>0, <1>1 DEF Ahead, n
<1>4. Link(s) \notin Behind(s)
  BY <1>0 DEF Behind, Link
<1>5. at[s] = 1 => Ahead(s) = Links(s) /\ Behind(s) = {}
  BY <1>0, <1>1 DEF Ahead, Behind, n
<1>6. ASSUME IsLast(s)
      PROVE  Links(s) = Behind(s) \cup {Link(s)} /\ Ahead(s) = {Link(s)}
  <2>1. at[s] = n
    BY <1>6, Zenon DEF IsLast, n
  <2>2. 1 .. n = (1 .. (n - 1)) \cup {n} /\ n .. n = {n}
    BY <1>0, <2>1
  <2> QED  BY <1>1, <2>1, <2>2 DEF Behind, Ahead, Link, n
<1> QED  BY <1>2, <1>3, <1>4, <1>5, <1>6, Zenon

LEMMA Walked ==
  ASSUME ThreadType, NEW s \in Stream, NEW same, NEW after,
         Next_m_rt(s, same, after), UNCHANGED master_list
  PROVE  /\ IsLast(s) => pc'[s] = after /\ at'[s] = 1
         /\ ~IsLast(s) => /\ pc'[s] = same
                          /\ Behind(s)' = Behind(s) \cup {Link(s)}
                          /\ Ahead(s)' = Ahead(s) \ {Link(s)}
<1> DEFINE l == master_list[s]  n == Len(l)
<1>0. /\ n \in Nat /\ at[s] \in 1 .. n
      /\ \A i, j \in 1 .. n : l[i] = l[j] => i = j
  BY Positions, Zenon
<1>1. IsLast(s) => pc'[s] = after /\ at'[s] = 1
  BY Zenon DEF Next_m_rt, ThreadType
<1>2. ~IsLast(s) => pc'[s] = same /\ at'[s] = at[s] + 1
  BY Zenon DEF Next_m_rt, ThreadType
<1>3. ASSUME ~IsLast(s)
      PROVE  Behind(s)' = Behind(s) \cup {Link(s)} /\ Ahead(s)' = Ahead(s) \ {Link(s)}
  <2>1. Behind(s)' = {l[i] : i \in 1 .. at[s]}
    BY <1>0, <1>2, <1>3 DEF Behind
  <2>2. Ahead(s)' = {l[i] : i \in (at[s] + 1) .. n}
    BY <1>0, <1>2, <1>3, Zenon DEF Ahead
  <2>3. 1 .. at[s] = (1 .. (at[s] - 1)) \cup {at[s]}
    BY <1>0
  <2>4. at[s] .. n = ((at[s] + 1) .. n) \cup {at[s]}
    BY <1>0
  <2>5. \A i \in (at[s] + 1) .. n : l[i] # l[at[s]]
    BY <1>0
  <2>6. Ahead(s) = {l[i] : i \in at[s] .. n}
    BY Zenon DEF Ahead
  <2> HIDE DEF n, l
  <2>7. Ahead(s)' = Ahead(s) \ {l[at[s]]}
    BY <2>2, <2>4, <2>5, <2>6, Zenon
  <2> QED  BY <2>1, <2>3, <2>7, Zenon DEF Behind, Link, l
<1> QED  BY <1>1, <1>2, <1>3, Zenon

-------------------------------------------------------------------------------
(* The inductive invariant *)

\* Buses whose bus_lock a call holds, and those for which a synchronized bank
\* switch has handed its message to the controller.
Claimed(s) ==
  IF pc[s] = "idle" THEN {} ELSE IF pc[s] = "acquire" THEN Behind(s) ELSE Links(s)
Out(s) ==
  IF pc[s] \in {"pre", "switch"} THEN Behind(s)
  ELSE IF pc[s] \in {"post", "sync"} THEN Ahead(s)
  ELSE IF pc[s] = "error" THEN Links(s) ELSE {}

\* A deferred message is with the controller, or answered and not yet taken.
Pending(b) == defer[b] \/ complete[b]

AtStart == \A s \in Stream : pc[s] = "idle" => at[s] = 1
LocksHeld == \A s \in Stream : \A b \in Claimed(s) : bus_lock[b] = s
SwitchHeld ==
  \A s \in Stream : pc[s] = "switch" /\ Multi(s) => msg_lock[Link(s)] = s
PathHeld ==
  \A b \in Bus : xfer[b].st \in {"send", "wait"} =>
    /\ msg_lock[b] = xfer[b].by
    /\ \A s \in Stream : xfer[b].by = s => ~Multi(s)
Owned ==
  \A b \in Bus : Pending(b) =>
    /\ mem[b] = "live"
    /\ \E s \in Stream : msg_lock[b] = s /\ Multi(s) /\ b \in Out(s)
Answering ==
  \A b \in Bus :
    /\ ~(defer[b] /\ complete[b])
    /\ cmd[b].st = "held" => defer[b]
    /\ cmd[b].st = "run" => (defer[b] <=> cmd[b].by = "defer")

SInv == AtStart /\ LocksHeld /\ SwitchHeld /\ PathHeld /\ Owned /\ Answering
IInv == Types /\ (failed \/ SInv)

LEMMA NamesDiffer ==
  /\ \A s \in Stream : s # NoOne /\ s # "io"
  /\ "io" # NoOne
BY BankSwitchAssumption, Zenon

LEMMA OutClaimed ==
  ASSUME ThreadType, NEW s \in Stream
  PROVE  Out(s) \subseteq Claimed(s) /\ Claimed(s) \subseteq Links(s)
BY Walk, Zenon DEF Out, Claimed

\* Two calls hold no bus_lock in common.
LEMMA ClaimedApart ==
  ASSUME LocksHeld, NEW s \in Stream, NEW t \in Stream, NEW b \in Claimed(s),
         b \in Claimed(t)
  PROVE  s = t
BY Zenon DEF LocksHeld

\* No deferred message is pending on a bus that another call, or the same call
\* outside the part of the list it has out, holds.
LEMMA NotPending ==
  ASSUME Types, SInv, NEW s \in Stream, NEW b \in Claimed(s), Pending(b)
  PROVE  msg_lock[b] = s /\ Multi(s) /\ b \in Out(s) /\ mem[b] = "live"
<1>1. b \in Bus
  BY OutClaimed, LinkInBus, Zenon DEF Types
<1>2. PICK t \in Stream : msg_lock[b] = t /\ Multi(t) /\ b \in Out(t)
  BY <1>1, Zenon DEF SInv, Owned
<1>3. s = t
  BY <1>2, OutClaimed, ClaimedApart, Zenon DEF Types, SInv
<1> QED  BY <1>1, <1>2, <1>3, Zenon DEF SInv, Owned

-------------------------------------------------------------------------------
(* Steps of the message path keep it *)

\* A transfer that starts belongs to its caller.
LEMMA StartedBy ==
  ASSUME NEW b, NEW who, NEW n, NEW page, sdw_transfer(b, who, n, page)
  PROVE  \E x : xfer' = [xfer EXCEPT ![b] = x] /\ x.by = who
<1> DEFINE x == [Idle EXCEPT !.st = "send", !.by = who, !.page = page,
                             !.want = n, !.len = n]
           y == [x EXCEPT !.stage = FirstStage(x)]
<1>1. x.by = who
  BY Zenon DEF Idle
<1>2. y.by = x.by
  BY Zenon DEF Idle
<1>3. xfer' = [xfer EXCEPT ![b] = y]
  BY Zenon DEF sdw_transfer
<1> HIDE DEF x, y
<1> QED  BY <1>1, <1>2, <1>3, Zenon

\* msg_lock of a synchronized bank switch is not given back by a transfer.
LEMMA BusStepHeld ==
  ASSUME Types, SInv, NEW b \in Bus, BusStep(b)
  PROVE  /\ PathHeld'
         /\ \A c \in Bus, s \in Stream :
              msg_lock[c] = s /\ Multi(s) => msg_lock'[c] = s
<1>0. /\ PathType /\ LinkType /\ xfer[b] \in XferType
      /\ \A c \in Bus : xfer[c].st \in {"send", "wait"} =>
           /\ msg_lock[c] = xfer[c].by
           /\ \A s \in Stream : xfer[c].by = s => ~Multi(s)
  BY Zenon DEF Types, SInv, PathHeld, PathType
<1>a. UNCHANGED <<multi_link, master_list>>
  BY Zenon DEF BusStep, Io, Send, EndAttempt, Wake, Timeout, RxIrq, Return, switchVars
<1>b. PathHeld' <=> \A c \in Bus : xfer'[c].st \in {"send", "wait"} =>
        /\ msg_lock'[c] = xfer'[c].by
        /\ \A s \in Stream : xfer'[c].by = s => ~Multi(s)
  BY <1>a, Zenon DEF PathHeld, Multi
<1>1. CASE \E n \in 1 .. MaxLen, page \in BOOLEAN : Io(b, n, page)
  <2> PICK n \in 1 .. MaxLen, page \in BOOLEAN : Io(b, n, page)
    BY <1>1, Zenon
  <2>1. /\ msg_lock[b] = NoOne /\ msg_lock' = [msg_lock EXCEPT ![b] = "io"]
        /\ \E x : xfer' = [xfer EXCEPT ![b] = x] /\ x.by = "io"
    <3>1. msg_lock[b] = NoOne /\ msg_lock' = [msg_lock EXCEPT ![b] = "io"]
      BY Zenon DEF Io, sdw_transfer
    <3> QED  BY <3>1, StartedBy, Zenon DEF Io
  <2> QED  BY <1>0, <1>b, <2>1, NamesDiffer, Zenon DEF PathType, LinkType
<1>2. CASE Send(b)
  <2>1. xfer'[b].by = xfer[b].by /\ \A c \in Bus \ {b} : xfer'[c] = xfer[c]
    BY <1>0, <1>2, Zenon DEF Send, PathType, XferType
  <2>2. UNCHANGED msg_lock /\ xfer[b].st = "send"
    BY <1>2, Zenon DEF Send
  <2> QED  BY <1>0, <1>b, <2>1, <2>2, Zenon
<1>3. CASE EndAttempt(b) \/ Wake(b) \/ Timeout(b)
  <2>0. xfer[b].st \in {"send", "wait"}
    BY <1>3, Zenon DEF EndAttempt, Wake, Timeout
  <2>1. PICK x : Goes_on(xfer[b], x) /\ Goes(b, x)
    <3>1. xfer[b].ret \in Code /\ "TIMEOUT" \in Code
      BY <1>0, Zenon DEF XferType, Code
    <3>2. tx_complete[b] # "none" => tx_complete[b] \in Code
      BY <1>0, Zenon DEF PathType
    <3> QED  BY <1>0, <1>3, <3>1, <3>2, AttemptEnds, AnsweredType, Zenon DEF EndAttempt, Wake, Timeout
  <2>2. /\ xfer'[b] = x /\ \A c \in Bus \ {b} : xfer'[c] = xfer[c] /\ msg_lock'[c] = msg_lock[c]
        /\ msg_lock'[b] = IF x.st = "done" THEN NoOne ELSE msg_lock[b]
        /\ x.by = xfer[b].by
    BY <1>0, <2>1, Zenon DEF Goes, Goes_on, PathType, LinkType
  <2> QED  BY <1>0, <1>b, <2>0, <2>2, Zenon
<1>4. CASE RxIrq(b)
  BY <1>0, <1>4, <1>b, Zenon DEF RxIrq
<1>5. CASE Return(b)
  <2>1. xfer'[b] = Idle /\ \A c \in Bus \ {b} : xfer'[c] = xfer[c]
    BY <1>0, <1>5, Zenon DEF Return, PathType
  <2>2. Idle.st = "idle"
    BY Zenon DEF Idle
  <2> QED  BY <1>0, <1>b, <1>5, <2>1, <2>2, Zenon DEF Return
<1> QED  BY <1>1, <1>2, <1>3, <1>4, <1>5, Zenon DEF BusStep

LEMMA RunFacts ==
  ASSUME NEW by \in {"xfer", "defer"}, NEW code
  PROVE  /\ Run(by, code).st \in {"none", "run"}
         /\ Run(by, code).st = "run" => Run(by, code).by = by
         /\ NoCmd.st = "none" /\ Held.st = "held"
BY Zenon DEF Run, NoCmd, Held

LEMMA BusStepAnswering ==
  ASSUME Types, SInv, NEW b \in Bus, BusStep(b)
  PROVE  Answering' /\ \A c \in Bus : Pending(c)' => Pending(c)
<1>0. PathType /\ Answering
  BY Zenon DEF Types, SInv
<1>1. CASE Send(b)
  <2>1. ~defer[b]
    <3>1. xfer[b].st = "send"
      BY <1>1, Zenon DEF Send
    <3>2. \A s \in Stream : msg_lock[b] = s => ~Multi(s)
      BY <3>1, Zenon DEF SInv, PathHeld
    <3> QED  BY <3>2, Zenon DEF SInv, Owned, Pending
  <2>2. PICK code \in Answers : cmd' = [cmd EXCEPT ![b] = Run("xfer", code)]
    BY <1>1, Zenon DEF Send
  <2>3. UNCHANGED <<defer, complete>>
    BY <1>1, Zenon DEF Send
  <2>4. cmd'[b] = Run("xfer", code) /\ \A c \in Bus \ {b} : cmd'[c] = cmd[c]
    BY <1>0, <2>2, Zenon DEF PathType
  <2> QED  BY <1>0, <2>1, <2>3, <2>4, RunFacts, Zenon DEF Answering, Pending
<1>2. CASE RxIrq(b)
  <2>1. /\ cmd'[b] = NoCmd /\ ~defer'[b] /\ (complete'[b] <=> complete[b] \/ defer[b])
        /\ \A c \in Bus \ {b} : cmd'[c] = cmd[c] /\ defer'[c] = defer[c]
                                  /\ complete'[c] = complete[c]
    BY <1>0, <1>2, Zenon DEF RxIrq, PathType
  <2> QED  BY <1>0, <2>1, RunFacts, SMTT(40) DEF Answering, Pending
<1>3. CASE UNCHANGED <<cmd, defer, complete>>
  BY <1>0, <1>3, Zenon DEF Answering, Pending
<1> QED  BY <1>1, <1>2, <1>3, Zenon DEF BusStep, Io, EndAttempt, Wake, Timeout, Return

LEMMA BusStepSInv ==
  ASSUME Types, SInv, NEW b \in Bus, BusStep(b)
  PROVE  SInv'
<1>1. UNCHANGED <<multi_link, master_list, pc, at, bus_lock, mem>>
  BY Zenon DEF BusStep, Io, Send, EndAttempt, Wake, Timeout, RxIrq, Return, switchVars
<1>2. /\ AtStart' <=> AtStart
      /\ LocksHeld' <=> LocksHeld
      /\ \A s \in Stream : (Out(s)' = Out(s)) /\ (Multi(s)' <=> Multi(s)) /\ Link(s)' = Link(s)
  BY <1>1 DEF AtStart, LocksHeld, Claimed, Out, Behind, Ahead, Links, Multi, Link
<1>3. PathHeld' /\ Answering'
  BY BusStepHeld, BusStepAnswering, Zenon
<1>4. SwitchHeld'
  <2>1. \A s \in Stream : Link(s) \in Bus
    BY LinkInBus, Zenon DEF Types
  <2> QED  BY <1>1, <1>2, <2>1, BusStepHeld, Zenon DEF SInv, SwitchHeld
<1>5. Owned'
  BY <1>1, <1>2, BusStepHeld, BusStepAnswering, Zenon DEF SInv, Owned
<1> QED  BY <1>2, <1>3, <1>4, <1>5, Zenon DEF SInv

-------------------------------------------------------------------------------
(* Steps of a stream call keep it *)

Frame(s) ==
  /\ UNCHANGED <<multi_link, master_list>>
  /\ \A t \in Stream \ {s} : pc'[t] = pc[t] /\ at'[t] = at[t]

LEMMA StreamStepFrame ==
  ASSUME ThreadType, NEW s \in Stream, StreamStep(s)
  PROVE  Frame(s)
<1> USE DEF ThreadType, Frame, pathVars
<1>1. CASE Call(s) \/ intel_pre_bank_switch(s) \/ sdw_bank_switch_transfer(s)
           \/ intel_post_bank_switch(s)
  BY <1>1, Zenon DEF Call, intel_pre_bank_switch, sdw_bank_switch_transfer, intel_post_bank_switch
<1>2. CASE sdw_bank_switch_nomem(s) \/ intel_post_bank_switch_err(s)
           \/ sdw_ml_sync_bank_switch_err(s)
  BY <1>2, Zenon DEF Fail, sdw_bank_switch_nomem, intel_post_bank_switch_err,
     sdw_ml_sync_bank_switch_err
<1>3. CASE sdw_acquire_bus_lock(s) \/ sdw_bank_switch_defer(s)
           \/ sdw_ml_sync_bank_switch(s)
  BY <1>3, Zenon DEF Next_m_rt, sdw_acquire_bus_lock, sdw_bank_switch_defer,
     sdw_ml_sync_bank_switch
<1>4. CASE sdw_bank_switch_done(s)
  BY <1>4, Zenon DEF Next_m_rt, Fail, sdw_bank_switch_done
<1>5. CASE do_bank_switch_err(s)
  BY <1>5, Zenon DEF do_bank_switch_err
<1> QED  BY <1>1, <1>2, <1>3, <1>4, <1>5, Zenon DEF StreamStep

LEMMA FrameSets ==
  ASSUME NEW s \in Stream, Frame(s)
  PROVE  /\ \A t \in Stream : (Multi(t)' <=> Multi(t)) /\ Links(t)' = Links(t)
         /\ \A t \in Stream \ {s} :
              Claimed(t)' = Claimed(t) /\ Out(t)' = Out(t) /\ Link(t)' = Link(t)
BY Zenon DEF Frame, Claimed, Out, Behind, Ahead, Links, Multi, Link

\* What a step of stream s has to show: the locks of the others stay, its own
\* are where the invariant says, and a message that is pending afterwards is
\* its own, or was pending on a bus the call does not hold.
LEMMA StreamStepKeeps ==
  ASSUME Types, SInv, NEW s \in Stream, Frame(s),
         pc'[s] = "idle" => at'[s] = 1,
         \A b \in Claimed(s)' : bus_lock'[b] = s,
         \A b \in Bus : bus_lock'[b] # bus_lock[b] => bus_lock[b] \in {s, NoOne},
         pc'[s] = "switch" /\ Multi(s) => msg_lock'[Link(s)'] = s,
         \A b \in Bus : msg_lock'[b] # msg_lock[b] =>
                          b \in Claimed(s) \/ msg_lock[b] = NoOne,
         \A b \in Bus : Pending(b)' =>
           \/ mem'[b] = "live" /\ msg_lock'[b] = s /\ Multi(s) /\ b \in Out(s)'
           \/ Pending(b) /\ b \notin Claimed(s) /\ mem'[b] = mem[b],
         PathHeld', Answering'
  PROVE  SInv'
<1>0. ThreadType /\ \A t \in Stream : Claimed(t) \subseteq Bus /\ Link(t) \in Bus
  BY OutClaimed, LinkInBus, Zenon DEF Types
<1>1. AtStart'
  BY Zenon DEF SInv, AtStart, Frame
<1>2. LocksHeld'
  BY <1>0, FrameSets, NamesDiffer, SMTT(40) DEF SInv, LocksHeld
<1>3. ASSUME NEW t \in Stream \ {s}, NEW b \in Claimed(t), msg_lock[b] = t
      PROVE  msg_lock'[b] = t
  <2>1. b \notin Claimed(s) /\ b \in Bus
    BY <1>0, ClaimedApart, Zenon DEF SInv
  <2> QED  BY <1>3, <2>1, NamesDiffer, Zenon
<1>4. SwitchHeld'
  <2>1. \A t \in Stream : pc[t] = "switch" => Link(t) \in Claimed(t)
    BY <1>0, LinkInBus, Zenon DEF Claimed
  <2> SUFFICES ASSUME NEW t \in Stream, pc'[t] = "switch", Multi(t)
               PROVE  msg_lock'[Link(t)'] = t
    BY FrameSets, Zenon DEF SwitchHeld
  <2>2. CASE t # s
    <3>1. pc[t] = "switch" /\ Link(t)' = Link(t) /\ msg_lock[Link(t)] = t
      BY <2>2, FrameSets, Zenon DEF Frame, SInv, SwitchHeld
    <3> QED  BY <1>3, <2>1, <2>2, <3>1, SMTT(40)
  <2> QED  BY <2>2, Zenon
<1>5. Owned'
  <2> SUFFICES ASSUME NEW b \in Bus, Pending(b)'
               PROVE  /\ mem'[b] = "live"
                      /\ \E t \in Stream : msg_lock'[b] = t /\ Multi(t) /\ b \in Out(t)'
    BY FrameSets, Zenon DEF Owned
  <2>1. CASE Pending(b) /\ b \notin Claimed(s) /\ mem'[b] = mem[b]
    <3>1. PICK t \in Stream : msg_lock[b] = t /\ Multi(t) /\ b \in Out(t)
      BY <2>1, Zenon DEF SInv, Owned
    <3>2. b \in Claimed(t) /\ t # s
      BY <1>0, <2>1, <3>1, OutClaimed, Zenon
    <3>3. msg_lock'[b] = t /\ b \in Out(t)'
      BY <1>3, <3>1, <3>2, FrameSets, SMTT(40)
    <3> QED  BY <2>1, <3>1, <3>3, Zenon DEF SInv, Owned
  <2> QED  BY <2>1, Zenon
<1> QED  BY <1>1, <1>2, <1>4, <1>5, Zenon DEF SInv

\* A call that does not touch the message path or its locks.
LEMMA QuietPath ==
  ASSUME SInv, NEW s \in Stream, Frame(s),
         UNCHANGED <<xfer, msg_lock, cmd, defer, complete>>
  PROVE  PathHeld' /\ Answering' /\ \A b \in Bus : Pending(b)' <=> Pending(b)
BY FrameSets, Zenon DEF SInv, PathHeld, Answering, Pending

LEMMA CallSInv ==
  ASSUME Types, SInv, NEW s \in Stream, Call(s)
  PROVE  SInv'
<1>0. ThreadType /\ Frame(s)
  BY StreamStepFrame, Zenon DEF Types, StreamStep
<1>1. UNCHANGED <<bus_lock, mem, at, xfer, msg_lock, cmd, defer, complete, master_list>>
  BY Zenon DEF Call, pathVars
<1>2. pc[s] = "idle" /\ pc'[s] = "acquire" /\ at[s] = 1
  BY Zenon DEF Call, ThreadType, Types, SInv, AtStart
<1>3. Claimed(s)' = {} /\ Claimed(s) = {}
  <2>1. Behind(s)' = Behind(s) /\ Behind(s) = {}
    BY <1>0, <1>1, <1>2, Walk, Zenon DEF Behind
  <2> QED  BY <1>2, <2>1, Zenon DEF Claimed
<1>4. PathHeld' /\ Answering' /\ \A b \in Bus : Pending(b)' <=> Pending(b)
  BY <1>0, <1>1, QuietPath, Zenon
<1> QED  BY <1>0, <1>1, <1>2, <1>3, <1>4, StreamStepKeeps, Zenon

LEMMA AcquireSInv ==
  ASSUME Types, SInv, NEW s \in Stream, sdw_acquire_bus_lock(s)
  PROVE  SInv'
<1>0. ThreadType /\ Frame(s) /\ Link(s) \in Bus /\ bus_lock \in [Bus -> Stream \cup {NoOne}]
  BY StreamStepFrame, LinkInBus, Zenon DEF Types, LinkType, StreamStep
<1>1. /\ UNCHANGED <<mem, xfer, msg_lock, cmd, defer, complete, master_list>>
      /\ Next_m_rt(s, "acquire", "pre")
      /\ pc[s] = "acquire" /\ bus_lock[Link(s)] = NoOne
      /\ bus_lock' = [bus_lock EXCEPT ![Link(s)] = s]
  BY Zenon DEF sdw_acquire_bus_lock, pathVars
<1>2. Claimed(s) = Behind(s) /\ Out(s) = {}
  BY <1>1, Zenon DEF Claimed, Out
<1>3. Claimed(s)' = Behind(s) \cup {Link(s)}
  BY <1>0, <1>1, Walk, Walked, FrameSets, SMTT(40) DEF Claimed
<1>4. \A b \in Claimed(s)' : bus_lock'[b] = s
  BY <1>0, <1>1, <1>2, <1>3 DEF SInv, LocksHeld
<1>5. PathHeld' /\ Answering' /\ \A b \in Bus : Pending(b)' <=> Pending(b)
  BY <1>0, <1>1, QuietPath, Zenon
<1>6. \A b \in Bus : Pending(b)' => Pending(b) /\ b \notin Claimed(s) /\ mem'[b] = mem[b]
  BY <1>1, <1>2, <1>5, NotPending, Zenon
<1>7. pc'[s] \in {"acquire", "pre"}
  BY <1>0, <1>1, Walked, Zenon
<1> QED  BY <1>0, <1>1, <1>4, <1>5, <1>6, <1>7, StreamStepKeeps, Zenon

LEMMA PreSInv ==
  ASSUME Types, SInv, NEW s \in Stream, intel_pre_bank_switch(s)
  PROVE  SInv'
<1>0. ThreadType /\ Frame(s) /\ Link(s) \in Bus /\ Link(s) \in Links(s)
      /\ LinkType /\ PathType
  BY StreamStepFrame, LinkInBus, Zenon DEF Types, StreamStep
<1>1. /\ UNCHANGED <<mem, at, xfer, bus_lock, cmd, defer, complete, master_list>>
      /\ pc[s] = "pre" /\ pc'[s] = "switch"
      /\ Multi(s) => msg_lock[Link(s)] = NoOne
      /\ msg_lock' = IF Multi(s) THEN [msg_lock EXCEPT ![Link(s)] = s] ELSE msg_lock
  BY <1>0, Zenon DEF intel_pre_bank_switch, pathVars, ThreadType
<1>2. Claimed(s)' = Claimed(s) /\ Out(s)' = Out(s) /\ Link(s)' = Link(s)
  BY <1>1, Zenon DEF Claimed, Out, Behind, Links, Link
<1>3. \A b \in Bus : msg_lock'[b] # msg_lock[b] => msg_lock[b] = NoOne
  BY <1>0, <1>1, Zenon DEF LinkType
<1>4. Multi(s) => msg_lock'[Link(s)] = s
  BY <1>0, <1>1, Zenon DEF LinkType
<1>5. PathHeld'
  <2>1. \A b \in Bus : xfer[b].by # NoOne
    BY <1>0, NamesDiffer, Zenon DEF PathType, XferType
  <2> QED  BY <1>0, <1>1, <1>3, <2>1, FrameSets, Zenon DEF SInv, PathHeld
<1>6. Answering' /\ \A b \in Bus : Pending(b)' <=> Pending(b)
  BY <1>1, Zenon DEF SInv, Answering, Pending
<1>7. \A b \in Bus : Pending(b)' =>
        \/ mem'[b] = "live" /\ msg_lock'[b] = s /\ Multi(s) /\ b \in Out(s)'
        \/ Pending(b) /\ b \notin Claimed(s) /\ mem'[b] = mem[b]
  BY <1>1, <1>2, <1>3, <1>6, NotPending, NamesDiffer, SMTT(40)
<1>8. \A b \in Claimed(s)' : bus_lock'[b] = s
  BY <1>1, <1>2, Zenon DEF SInv, LocksHeld
<1> QED  BY <1>0, <1>1, <1>2, <1>3, <1>4, <1>5, <1>6, <1>7, <1>8, StreamStepKeeps, Zenon

LEMMA DeferSInv ==
  ASSUME Types, SInv, NEW s \in Stream, sdw_bank_switch_defer(s)
  PROVE  SInv'
<1> DEFINE l == Link(s)
<1>0. ThreadType /\ Frame(s) /\ l \in Bus /\ l \in Links(s) /\ LinkType /\ PathType
  BY StreamStepFrame, LinkInBus, Zenon DEF Types, StreamStep
<1>1. /\ UNCHANGED <<xfer, bus_lock, msg_lock, master_list>>
      /\ pc[s] = "switch" /\ Multi(s)
      /\ Next_m_rt(s, "pre", "post")
      /\ mem' = [mem EXCEPT ![l] = "live"]
      /\ defer' = [defer EXCEPT ![l] = TRUE]
      /\ complete' = [complete EXCEPT ![l] = FALSE]
  BY Zenon DEF sdw_bank_switch_defer, pathVars
<1>2. PICK c : /\ cmd' = [cmd EXCEPT ![l] = c]
               /\ c.st = "run" => c.by = "defer"
  BY RunFacts DEF sdw_bank_switch_defer
<1>3. pc'[s] \in {"pre", "post"}
  BY <1>0, <1>1, Walked, Zenon
<1>4. Claimed(s)' = Links(s) /\ Claimed(s) = Links(s)
  BY <1>0, <1>1, <1>3, FrameSets, Zenon DEF Claimed
<1>5. Behind(s) \cup {l} \subseteq Out(s)' /\ Out(s) = Behind(s)
  <2>1. CASE IsLast(s)
    <3>1. pc'[s] = "post" /\ at'[s] = 1
      BY <1>0, <1>1, <2>1, Walked, Zenon
    <3>2. Ahead(s)' = Links(s)
      BY <1>0, <1>1, <3>1, Positions, SMTT(40) DEF Ahead, Links
    <3> QED  BY <1>0, <1>1, <3>1, <3>2, Walk, Zenon DEF Out
  <2>2. CASE ~IsLast(s)
    BY <1>0, <1>1, <2>2, Walked, Zenon DEF Out
  <2> QED  BY <2>1, <2>2, Zenon
<1>6. /\ defer'[l] /\ ~complete'[l] /\ mem'[l] = "live" /\ cmd'[l] = c
      /\ \A b \in Bus \ {l} : /\ defer'[b] = defer[b] /\ complete'[b] = complete[b]
                              /\ mem'[b] = mem[b] /\ cmd'[b] = cmd[b]
  BY <1>0, <1>1, <1>2, Zenon DEF LinkType, PathType
<1>7. Answering'
  BY <1>2, <1>6, ZenonT(40) DEF SInv, Answering
<1>8. PathHeld'
  BY <1>0, <1>1, FrameSets, Zenon DEF SInv, PathHeld
<1>9. ASSUME NEW b \in Bus, Pending(b)'
      PROVE  \/ mem'[b] = "live" /\ msg_lock'[b] = s /\ Multi(s) /\ b \in Out(s)'
             \/ Pending(b) /\ b \notin Claimed(s) /\ mem'[b] = mem[b]
  <2>1. CASE b = l
    BY <1>1, <1>5, <1>6, <2>1, Zenon DEF SInv, SwitchHeld
  <2>2. CASE b # l
    <3>1. Pending(b) /\ mem'[b] = mem[b]
      BY <1>6, <1>9, <2>2, Zenon DEF Pending
    <3> QED  BY <1>1, <1>5, <3>1, NotPending, Zenon
  <2> QED  BY <2>1, <2>2, Zenon
<1>10. \A b \in Claimed(s)' : bus_lock'[b] = s
  BY <1>1, <1>4, Zenon DEF SInv, LocksHeld
<1> HIDE DEF l
<1> QED  BY <1>0, <1>1, <1>3, <1>7, <1>8, <1>9, <1>10, StreamStepKeeps, Zenon

LEMMA TransferSInv ==
  ASSUME Types, SInv, NEW s \in Stream, sdw_bank_switch_transfer(s)
  PROVE  SInv'
<1> DEFINE l == Link(s)
<1>0. ThreadType /\ Frame(s) /\ l \in Bus /\ l \in Links(s) /\ LinkType /\ PathType
  BY StreamStepFrame, LinkInBus, Zenon DEF Types, StreamStep
<1>1. /\ UNCHANGED <<at, bus_lock, master_list, cmd, defer, complete>>
      /\ pc[s] = "switch" /\ pc'[s] = "wait" /\ ~Multi(s)
      /\ mem' = [mem EXCEPT ![l] = "live"]
      /\ msg_lock[l] = NoOne /\ msg_lock' = [msg_lock EXCEPT ![l] = s]
  BY <1>0, Zenon DEF sdw_bank_switch_transfer, sdw_transfer, pathVars, ThreadType
<1>2. PICK x : xfer' = [xfer EXCEPT ![l] = x] /\ x.by = s
  BY StartedBy, Zenon DEF sdw_bank_switch_transfer
<1>3. Claimed(s)' = Links(s) /\ Claimed(s) = Links(s)
  BY <1>0, <1>1, FrameSets, Zenon DEF Claimed
<1>4. PathHeld'
  BY <1>0, <1>1, <1>2, FrameSets, Zenon DEF SInv, PathHeld, LinkType, PathType
<1>5. Answering' /\ \A b \in Bus : Pending(b)' <=> Pending(b)
  BY <1>1, Zenon DEF SInv, Answering, Pending
<1>6. \A b \in Bus : Pending(b)' => Pending(b) /\ b \notin Claimed(s)
  BY <1>1, <1>5, NotPending, Zenon
<1>7. \A b \in Bus : b \notin Claimed(s) => mem'[b] = mem[b]
  BY <1>0, <1>1, <1>3, Zenon DEF LinkType
<1>8. \A b \in Claimed(s)' : bus_lock'[b] = s
  BY <1>1, <1>3, Zenon DEF SInv, LocksHeld
<1>9. \A b \in Bus : msg_lock'[b] # msg_lock[b] => msg_lock[b] = NoOne
  BY <1>0, <1>1, Zenon DEF LinkType
<1> HIDE DEF l
<1> QED  BY <1>0, <1>1, <1>4, <1>5, <1>6, <1>7, <1>8, <1>9, StreamStepKeeps, Zenon

\* A step to the error path that leaves the locks and the messages out alone.
LEMMA FailSInv ==
  ASSUME Types, SInv, NEW s \in Stream, Frame(s), pc[s] \notin {"idle", "acquire"},
         pc'[s] = "error", UNCHANGED <<bus_lock, msg_lock>>,
         \A b \in Bus : Pending(b)' => Pending(b),
         \A b \in Bus : mem'[b] # mem[b] => b \in Claimed(s) /\ b \notin Out(s),
         PathHeld', Answering'
  PROVE  SInv'
<1>0. ThreadType
  BY Zenon DEF Types
<1>1. Claimed(s)' = Links(s) /\ Claimed(s) = Links(s) /\ Out(s)' = Links(s)
  BY FrameSets, Zenon DEF Claimed, Out
<1>2. \A b \in Claimed(s)' : bus_lock'[b] = s
  BY <1>1, Zenon DEF SInv, LocksHeld
<1>3. ASSUME NEW b \in Bus, Pending(b)'
      PROVE  \/ mem'[b] = "live" /\ msg_lock'[b] = s /\ Multi(s) /\ b \in Out(s)'
             \/ Pending(b) /\ b \notin Claimed(s) /\ mem'[b] = mem[b]
  BY <1>1, <1>3, NotPending, SMTT(40)
<1> QED  BY <1>2, <1>3, StreamStepKeeps, Zenon

LEMMA NomemSInv ==
  ASSUME Types, SInv, NEW s \in Stream, sdw_bank_switch_nomem(s)
  PROVE  SInv'
<1>0. ThreadType /\ Frame(s) /\ LinkType /\ Link(s) \in Bus /\ Link(s) \in Links(s)
  BY StreamStepFrame, LinkInBus, Zenon DEF Types, StreamStep
<1>1. /\ UNCHANGED <<bus_lock, msg_lock, xfer, cmd, defer, complete>>
      /\ pc[s] = "switch" /\ pc'[s] = "error"
      /\ mem' \in {mem, [mem EXCEPT ![Link(s)] = "freed"]}
  BY <1>0, Zenon DEF sdw_bank_switch_nomem, Fail, ThreadType
<1>2. Link(s) \in Claimed(s) /\ Link(s) \notin Out(s)
  BY <1>0, <1>1, Walk, Zenon DEF Claimed, Out
<1>3. \A b \in Bus : mem'[b] # mem[b] => b = Link(s)
  BY <1>0, <1>1, Zenon DEF LinkType
<1>4. PathHeld' /\ Answering' /\ \A b \in Bus : Pending(b)' <=> Pending(b)
  BY <1>0, <1>1, QuietPath, Zenon
<1> QED  BY <1>0, <1>1, <1>2, <1>3, <1>4, FailSInv, Zenon

LEMMA SyncErrSInv ==
  ASSUME Types, SInv, NEW s \in Stream, sdw_ml_sync_bank_switch_err(s)
  PROVE  SInv'
<1>0. ThreadType /\ Frame(s)
  BY StreamStepFrame, Zenon DEF Types, StreamStep
<1>1. /\ UNCHANGED <<mem, bus_lock, msg_lock, xfer, cmd, defer, complete>>
      /\ pc[s] = "sync" /\ pc'[s] = "error"
  BY <1>0, Zenon DEF sdw_ml_sync_bank_switch_err, Fail, ThreadType
<1>2. PathHeld' /\ Answering' /\ \A b \in Bus : Pending(b)' <=> Pending(b)
  BY <1>0, <1>1, QuietPath, Zenon
<1> QED  BY <1>0, <1>1, <1>2, FailSInv, Zenon

LEMMA DoneSInv ==
  ASSUME Types, SInv, NEW s \in Stream, sdw_bank_switch_done(s)
  PROVE  SInv'
<1> DEFINE l == Link(s)
<1>0. ThreadType /\ Frame(s) /\ l \in Bus /\ l \in Links(s) /\ LinkType /\ PathType
  BY StreamStepFrame, LinkInBus, Zenon DEF Types, StreamStep
<1>1. /\ UNCHANGED <<bus_lock, msg_lock, cmd, defer, complete, master_list>>
      /\ pc[s] = "wait"
      /\ Next_m_rt(s, "pre", "post") \/ Fail(s)
      /\ mem' \in {[mem EXCEPT ![l] = "null"], [mem EXCEPT ![l] = "freed"]}
      /\ xfer' = [xfer EXCEPT ![l] = Idle]
  BY Zenon DEF sdw_bank_switch_done, pathVars
<1>2. pc'[s] \in {"pre", "post", "error"}
  BY <1>0, <1>1, Walked, Zenon DEF Fail, ThreadType
<1>3. Claimed(s)' = Links(s) /\ Claimed(s) = Links(s) /\ Out(s) = {}
  BY <1>1, <1>2, <1>0, FrameSets, Zenon DEF Claimed, Out
<1>4. Answering' /\ \A b \in Bus : Pending(b)' <=> Pending(b)
  BY <1>1, Zenon DEF SInv, Answering, Pending
<1>5. PathHeld'
  <2>1. Idle.st = "idle"
    BY Zenon DEF Idle
  <2> QED  BY <1>0, <1>1, <2>1, FrameSets, Zenon DEF SInv, PathHeld, PathType
<1>6. \A b \in Bus : Pending(b)' => Pending(b) /\ b \notin Claimed(s)
  BY <1>3, <1>4, NotPending, Zenon
<1>7. \A b \in Bus : b \notin Claimed(s) => mem'[b] = mem[b]
  BY <1>0, <1>1, <1>3, Zenon DEF LinkType
<1>8. \A b \in Claimed(s)' : bus_lock'[b] = s
  BY <1>1, <1>3, Zenon DEF SInv, LocksHeld
<1> HIDE DEF l
<1> QED  BY <1>0, <1>1, <1>2, <1>4, <1>5, <1>6, <1>7, <1>8, StreamStepKeeps, Zenon

LEMMA SyncGoAnswering ==
  ASSUME Types, SInv, UNCHANGED <<defer, complete>>,
         SyncGo \/ UNCHANGED <<cmd, hw_bank, cmdsync>>
  PROVE  Answering'
<1>1. CASE SyncGo
  <2>1. PICK f \in [cmdsync -> SwitchAnswers] :
          cmd' = [b \in Bus |-> IF b \in cmdsync /\ cmd[b].st = "held"
                                THEN Run("defer", f[b]) ELSE cmd[b]]
    BY <1>1, Zenon DEF SyncGo
  <2> SUFFICES ASSUME NEW b \in Bus
               PROVE  /\ ~(defer[b] /\ complete[b])
                      /\ cmd'[b].st = "held" => defer[b]
                      /\ cmd'[b].st = "run" => (defer[b] <=> cmd'[b].by = "defer")
    BY Zenon DEF Answering
  <2>2. CASE b \in cmdsync /\ cmd[b].st = "held"
    <3>1. cmd'[b] = Run("defer", f[b]) /\ defer[b] /\ ~complete[b]
      BY <2>1, <2>2, Zenon DEF SInv, Answering
    <3> QED  BY <3>1, RunFacts, Zenon
  <2>3. CASE ~(b \in cmdsync /\ cmd[b].st = "held")
    BY <2>1, <2>3, Zenon DEF SInv, Answering
  <2> QED  BY <2>2, <2>3, Zenon
<1>2. CASE UNCHANGED <<cmd, hw_bank, cmdsync>>
  BY <1>2, Zenon DEF SInv, Answering
<1> QED  BY <1>1, <1>2, Zenon

LEMMA PostSInv ==
  ASSUME Types, SInv, NEW s \in Stream,
         intel_post_bank_switch(s) \/ intel_post_bank_switch_err(s)
  PROVE  SInv'
<1>0. ThreadType /\ Frame(s)
  BY StreamStepFrame, Zenon DEF Types, StreamStep
<1>1. /\ UNCHANGED <<mem, at, bus_lock, msg_lock, xfer, defer, complete, master_list>>
      /\ SyncGo \/ UNCHANGED <<cmd, hw_bank, cmdsync>>
      /\ pc[s] = "post" /\ pc'[s] \in {"sync", "error"}
  BY <1>0, Zenon DEF intel_post_bank_switch, intel_post_bank_switch_err, Fail, ThreadType, pathVars
<1>2. Answering'
  BY <1>1, SyncGoAnswering, Zenon
<1>3. PathHeld' /\ \A b \in Bus : Pending(b)' <=> Pending(b)
  BY <1>0, <1>1, FrameSets, Zenon DEF SInv, PathHeld, Pending
<1>4. CASE pc'[s] = "error"
  BY <1>0, <1>1, <1>2, <1>3, <1>4, FailSInv, Zenon
<1>5. CASE pc'[s] = "sync"
  <2>1. Claimed(s)' = Claimed(s) /\ Out(s)' = Out(s)
    BY <1>1, <1>5, Zenon DEF Claimed, Out, Ahead, Links
  <2>2. \A b \in Claimed(s)' : bus_lock'[b] = s
    BY <1>1, <2>1, Zenon DEF SInv, LocksHeld
  <2>3. \A b \in Bus : Pending(b)' =>
          \/ mem'[b] = "live" /\ msg_lock'[b] = s /\ Multi(s) /\ b \in Out(s)'
          \/ Pending(b) /\ b \notin Claimed(s) /\ mem'[b] = mem[b]
    BY <1>1, <1>3, <2>1, NotPending, Zenon
  <2> QED  BY <1>0, <1>1, <1>2, <1>3, <1>5, <2>2, <2>3, StreamStepKeeps, Zenon
<1> QED  BY <1>1, <1>4, <1>5, Zenon

LEMMA SyncSInv ==
  ASSUME Types, SInv, NEW s \in Stream, sdw_ml_sync_bank_switch(s)
  PROVE  SInv'
<1> DEFINE l == Link(s)
<1>0. ThreadType /\ Frame(s) /\ l \in Bus /\ l \in Links(s) /\ LinkType /\ PathType
  BY StreamStepFrame, LinkInBus, Zenon DEF Types, StreamStep
<1>1. /\ UNCHANGED <<xfer, cmd, defer, master_list>>
      /\ pc[s] = "sync" /\ Next_m_rt(s, "post", "idle")
      /\ msg_lock' = IF Multi(s) THEN [msg_lock EXCEPT ![l] = NoOne] ELSE msg_lock
      /\ bus_lock' = IF IsLast(s) THEN Unlocked(bus_lock, s) ELSE bus_lock
  BY Zenon DEF sdw_ml_sync_bank_switch, pathVars
<1>2. \/ complete[l] /\ complete' = [complete EXCEPT ![l] = FALSE]
      \/ ~Multi(s) /\ UNCHANGED complete
  BY Zenon DEF sdw_ml_sync_bank_switch, Multi
<1>a. \A b \in Bus \ {l} : mem'[b] = mem[b]
  BY <1>0, Zenon DEF sdw_ml_sync_bank_switch, LinkType
<1>3. Claimed(s) = Links(s) /\ Out(s) = Ahead(s)
  BY <1>1, Zenon DEF Claimed, Out
<1>4. Multi(s) => msg_lock[l] = s /\ ~defer[l] /\ ~complete'[l]
  <2> SUFFICES ASSUME Multi(s) PROVE msg_lock[l] = s /\ ~defer[l] /\ ~complete'[l]
    BY Zenon
  <2>1. complete[l] /\ ~complete'[l]
    BY <1>0, <1>2, Zenon DEF PathType
  <2>2. msg_lock[l] = s
    BY <1>0, <1>3, <2>1, NotPending, Zenon DEF Pending
  <2> QED  BY <1>0, <2>1, <2>2, Zenon DEF SInv, Answering
<1>5. /\ pc'[s] = "idle" => at'[s] = 1 /\ Claimed(s)' = {} /\ IsLast(s)
      /\ pc'[s] # "idle" => /\ ~IsLast(s) /\ pc'[s] = "post"
                            /\ Claimed(s)' = Links(s) /\ Out(s)' = Ahead(s) \ {l}
  <2>1. /\ IsLast(s) => pc'[s] = "idle" /\ at'[s] = 1
        /\ ~IsLast(s) => pc'[s] = "post" /\ Ahead(s)' = Ahead(s) \ {l}
    BY <1>0, <1>1, Walked, Zenon
  <2>2. Links(s)' = Links(s)
    BY <1>0, FrameSets, Zenon
  <2>3. CASE IsLast(s)
    BY <2>1, <2>3, Zenon DEF Claimed
  <2>4. CASE ~IsLast(s)
    BY <2>1, <2>2, <2>4, Zenon DEF Claimed, Out
  <2> QED  BY <2>3, <2>4, Zenon
<1>6. \A b \in Claimed(s)' : bus_lock'[b] = s
  BY <1>1, <1>3, <1>5, Zenon DEF SInv, LocksHeld
<1>7. \A b \in Bus : bus_lock'[b] # bus_lock[b] => bus_lock[b] \in {s, NoOne}
  BY <1>1, Zenon DEF Unlocked
<1>8. \A b \in Bus : msg_lock'[b] # msg_lock[b] => b = l
  BY <1>0, <1>1, Zenon DEF LinkType
<1>b. \A b \in Bus : complete'[b] => complete[b]
  BY <1>0, <1>2, Zenon DEF PathType
<1>9. ASSUME NEW b \in Bus, Pending(b)'
      PROVE  \/ mem'[b] = "live" /\ msg_lock'[b] = s /\ Multi(s) /\ b \in Out(s)'
             \/ Pending(b) /\ b \notin Claimed(s) /\ mem'[b] = mem[b]
  <2>1. Pending(b)
    BY <1>1, <1>9, <1>b, Zenon DEF Pending
  <2>2. CASE b \notin Claimed(s)
    BY <1>0, <1>3, <1>a, <2>1, <2>2, Zenon
  <2>3. CASE b \in Claimed(s)
    <3>1. msg_lock[b] = s /\ Multi(s) /\ b \in Ahead(s) /\ mem[b] = "live"
      BY <1>3, <2>1, <2>3, NotPending, Zenon
    <3>2. b # l
      BY <1>1, <1>4, <1>9, <3>1, Zenon DEF Pending
    <3>3. ~IsLast(s)
      BY <1>0, <3>1, <3>2, Walk, Zenon
    <3> QED  BY <1>5, <1>8, <1>a, <3>1, <3>2, <3>3, Zenon
  <2> QED  BY <2>2, <2>3, Zenon
<1>10. Answering'
  BY <1>1, <1>b, Zenon DEF SInv, Answering
<1>11. PathHeld'
  BY <1>0, <1>1, <1>4, <1>8, FrameSets, Zenon DEF SInv, PathHeld
<1> HIDE DEF l
<1>12. \A b \in Bus : msg_lock'[b] # msg_lock[b] => b \in Claimed(s)
  BY <1>0, <1>3, <1>8, Zenon
<1>13. pc'[s] # "switch"
  BY <1>5, Zenon
<1> QED  BY <1>0, <1>5, <1>6, <1>7, <1>9, <1>10, <1>11, <1>12, <1>13, StreamStepKeeps, Zenon

\* A link that starts changes what the controllers hold, and nothing else.
LEMMA StartSInv ==
  ASSUME Types, SInv, NEW l \in Bus, intel_shim_sync_go(l)
  PROVE  SInv'
<1>1. /\ SyncGo
      /\ UNCHANGED <<multi_link, master_list, pc, at, bus_lock, msg_lock, mem, defer,
                     complete, xfer>>
  BY Zenon DEF intel_shim_sync_go, pathVars
<1>2. \A s \in Stream : /\ Claimed(s)' = Claimed(s) /\ Out(s)' = Out(s)
                        /\ Link(s)' = Link(s) /\ Multi(s)' = Multi(s)
  BY <1>1, Zenon DEF Claimed, Out, Behind, Ahead, Links, Link, Multi
<1>3. \A b \in Bus : Pending(b)' <=> Pending(b)
  BY <1>1, Zenon DEF Pending
<1>4. AtStart' /\ LocksHeld' /\ SwitchHeld'
  BY <1>1, <1>2, <1>3, Zenon DEF SInv, AtStart, LocksHeld, SwitchHeld
<1>5. PathHeld'
  BY <1>1, <1>2, Zenon DEF SInv, PathHeld
<1>6. Owned'
  BY <1>1, <1>2, <1>3, Zenon DEF SInv, Owned
<1>7. Answering'
  BY <1>1, SyncGoAnswering, Zenon
<1> QED  BY <1>4, <1>5, <1>6, <1>7, Zenon DEF SInv

-------------------------------------------------------------------------------
(* Theorems *)

LEMMA InitIInv == Init => IInv
<1> SUFFICES ASSUME Init PROVE IInv
  BY Zenon
<1>1. Types
  BY InitTypes, Zenon
<1>2. AtStart /\ LocksHeld /\ SwitchHeld
  BY Zenon DEF Init, AtStart, LocksHeld, SwitchHeld, Claimed
<1>3. PathHeld /\ Owned /\ Answering
  BY RunFacts, Zenon DEF Init, PathHeld, Owned, Answering, Pending, Idle
<1> QED  BY <1>1, <1>2, <1>3, Zenon DEF IInv, SInv

LEMMA NextIInv == IInv /\ [Next]_vars => IInv'
<1> SUFFICES ASSUME IInv, [Next]_vars PROVE failed' \/ SInv'
  BY NextTypes, Zenon DEF IInv
<1>1. CASE UNCHANGED vars
  <2>1. \A s \in Stream : /\ Claimed(s)' = Claimed(s) /\ Out(s)' = Out(s)
                          /\ Link(s)' = Link(s) /\ Multi(s)' = Multi(s)
    BY <1>1, Zenon DEF Claimed, Out, Behind, Ahead, Links, Link, Multi, vars
  <2>2. \A b \in Bus : Pending(b)' <=> Pending(b)
    BY <1>1, Zenon DEF Pending, vars
  <2>3. SInv => AtStart' /\ LocksHeld' /\ SwitchHeld'
    BY <1>1, <2>1, <2>2, Zenon DEF SInv, AtStart, LocksHeld, SwitchHeld, vars
  <2>4. SInv => PathHeld' /\ Answering'
    BY <1>1, <2>1, <2>2, Zenon DEF SInv, PathHeld, Answering, vars
  <2>5. SInv => Owned'
    BY <1>1, <2>1, <2>2, Zenon DEF SInv, Owned, vars
  <2> QED  BY <1>1, <2>3, <2>4, <2>5, Zenon DEF IInv, SInv, vars
<1>2. ASSUME NEW b \in Bus, ~failed, BusStep(b) PROVE SInv'
  BY <1>2, BusStepSInv, Zenon DEF IInv
<1>3. ASSUME NEW s \in Stream, ~failed, StreamStep(s) PROVE failed' \/ SInv'
  <2>1. CASE do_bank_switch_err(s)
    BY <2>1, Zenon DEF do_bank_switch_err
  <2> QED
    BY Zenon, <1>3, <2>1, CallSInv, AcquireSInv, PreSInv, DeferSInv, TransferSInv, NomemSInv,
       DoneSInv, PostSInv, SyncSInv, SyncErrSInv DEF IInv, StreamStep
<1>4. ASSUME NEW b \in Bus, ~failed, intel_shim_sync_go(b) PROVE SInv'
  BY <1>4, StartSInv, Zenon DEF IInv
<1> QED  BY <1>1, <1>2, <1>3, <1>4, Zenon DEF Next, Undefined

LEMMA AlwaysIInv == Spec => []IInv
BY InitIInv, NextIInv, PTL DEF Spec

\* The RX_WL branch of sdw_cdns_irq takes an answer for the deferred message
\* exactly when the command in the controller is the deferred one, although
\* cdns->defer is shared by both kinds and never looked at under a lock.
THEOREM AnswersGoHome == Spec => []AnswerGoesHome
<1>1. IInv => AnswerGoesHome
  BY Zenon DEF IInv, SInv, Answering, AnswerGoesHome
<1> QED  BY <1>1, AlwaysIInv, PTL

\* As long as no bank switch took its error path, the message of
\* bus->defer_msg is allocated whenever the interrupt may write to it and when
\* sdw_ml_sync_bank_switch frees it.
THEOREM MessagesAreLive == Spec => []MessageLive
<1>1. IInv => MessageLive
  <2>1. Types => \A s \in Stream : Link(s) \in Bus
    BY LinkInBus, Zenon DEF Types
  <2> QED  BY <2>1, Zenon DEF IInv, SInv, Owned, Pending, MessageLive
<1> QED  BY <1>1, AlwaysIInv, PTL
===============================================================================
