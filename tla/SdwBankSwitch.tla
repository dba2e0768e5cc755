---------------------------- MODULE SdwBankSwitch -----------------------------
(***************************************************************************)
(* How a message crosses a SoundWire link, and how do_bank_switch uses     *)
(* that to move all the links of a stream to their other register bank.    *)
(*                                                                         *)
(*  - soundwire/bus.c: sdw_transfer and sdw_transfer_defer, msg_lock       *)
(*  - soundwire/cadence_master.c: chunks, pages, tx_complete, the deferred *)
(*    message and the RX_WL interrupt that completes both                  *)
(*  - soundwire/intel.c: the SYNC register shared by all the links         *)
(*  - soundwire/stream.c: sdw_bank_switch, do_bank_switch                  *)
(*                                                                         *)
(* Actors: one thread per stream, ordinary transfers on every bus, the     *)
(* controllers, links that start.  Every step between two of them that the *)
(* locks leave open is a step here.  A bank switch that fails ends the     *)
(* behaviour: its error path frees messages that may be free already (see  *)
(* do_bank_switch_err).                                                    *)
(***************************************************************************)
EXTENDS Integers, Sequences, FiniteSets

CONSTANTS
  Bus, Stream,
  MasterLists,       \* the lists of buses a stream may have
  CmdLen,            \* CDNS_MCP_CMD_LEN, registers per command buffer
  MaxLen,            \* bound on the length of an ordinary message
  IoBus,             \* the buses on which ordinary messages are sent
  ErrThreshold,      \* bus->prop.err_threshold
  HwSyncMinLinks,    \* bus->hw_sync_min_links
  Faults,            \* the kinds of failure and disturbance that may happen
  NoOne              \* the holder of a mutex that is free

\* nack, ignored, lost: the answer to an ordinary command.  switch_nack,
\* switch_lost: the answer to a deferred one.  nomem: kzalloc.  syncgo: the
\* SYNCGO bit does not clear.  start: another link starts meanwhile.
FaultKinds == {"nack", "ignored", "lost", "switch_nack", "switch_lost",
               "nomem", "syncgo", "start"}

ASSUME BankSwitchAssumption ==
  /\ MasterLists \subseteq Seq(Bus) \ {<<>>}
  /\ \A l \in MasterLists : \A i, j \in DOMAIN l : l[i] = l[j] => i = j
  /\ CmdLen \in Nat \ {0} /\ MaxLen \in Nat \ {0}
  /\ IoBus \subseteq Bus
  /\ ErrThreshold \in Nat /\ HwSyncMinLinks \in Nat \ {0}
  /\ Faults \subseteq FaultKinds
  /\ NoOne \notin Stream \cup {"io"} /\ "io" \notin Stream

VARIABLES
  multi_link,   \* bus->multi_link, one module parameter for every link
  master_list,  \* stream->master_list as buses; it does not change here
  pc, at,       \* where do_bank_switch is, and at which master of the list
  bus_lock, msg_lock,
  mem,          \* what bus->defer_msg.msg points to
  defer,        \* cdns->defer is set
  complete,     \* defer_msg.complete is signalled
  tx_complete,  \* "none", or signalled with this code in cdns->response_buf
  cmdsync,      \* links whose CMDSYNC bit is set in the SYNC register
  cmd,          \* the command in the controller, and how it will be answered
  curr_bank,    \* bus->params.curr_bank
  hw_bank,      \* the bank the link runs from
  xfer,         \* the transfer that msg_lock covers
  failed        \* a bank switch took its error path

\* What a step of the message path, and of the bank switch, leaves alone.
switchVars == <<multi_link, master_list, pc, at, bus_lock, mem, cmdsync,
                curr_bank, failed>>
pathVars == <<multi_link, master_list, tx_complete, failed>>
vars == <<multi_link, master_list, pc, at, bus_lock, msg_lock, mem, defer,
          complete, tx_complete, cmdsync, cmd, curr_bank,
          hw_bank, xfer, failed>>

Code == {"OK", "IGNORED", "FAIL", "TIMEOUT"}

\* What the slaves may answer; a command without an answer is "TIMEOUT".
Answer(kinds) == {"OK"} \cup {kinds[f] : f \in Faults \cap DOMAIN kinds}
Answers == Answer([nack |-> "FAIL", ignored |-> "IGNORED", lost |-> "TIMEOUT"])
SwitchAnswers == Answer([switch_nack |-> "FAIL", switch_lost |-> "TIMEOUT"])

\* A command of a transfer or a deferred one: none, held back until SYNCGO,
\* or executed with an answer on its way.
NoCmd == [st |-> "none", by |-> "xfer", code |-> "OK"]
Held == [st |-> "held", by |-> "defer", code |-> "OK"]
Run(by, code) ==
  IF code = "TIMEOUT" THEN NoCmd ELSE [st |-> "run", by |-> by, code |-> code]

Link(s) == master_list[s][at[s]]
Links(s) == {master_list[s][i] : i \in DOMAIN master_list[s]}
IsLast(s) == at[s] = Len(master_list[s])
\* The stream is switched by hardware synchronization.
Multi(s) == multi_link /\ Len(master_list[s]) >= HwSyncMinLinks

-------------------------------------------------------------------------------
(* Transfers: sdw_transfer over cdns_xfer_msg *)

Idle == [st |-> "idle", by |-> "io", page |-> FALSE, want |-> 0, len |-> 0,
         stage |-> "data", chunk |-> 0, try |-> 0, ret |-> "OK", sent |-> <<>>]

FirstStage(x) == IF x.page THEN "page" ELSE "data"
\* Registers of the current chunk; none are left when msg->len was zeroed.
Count(x) == LET left == x.len - x.chunk * CmdLen
            IN  IF left > CmdLen THEN CmdLen ELSE left
IsOver(x) == x.stage = "data" /\ Count(x) <= 0

\* Variant: err_threshold counts the attempts after the first retry.
do_transfer_more(x, ret) ==
  IF ret \in {"OK", "IGNORED"} \/ x.try > ErrThreshold
  THEN [x EXCEPT !.ret = ret, !.try = 0, !.stage = "reset",
                 !.st = IF x.page THEN "send" ELSE "done"]
  ELSE [x EXCEPT !.try = @ + 1, !.ret = "OK", !.stage = FirstStage(x),
                 !.st = "send", !.sent = <<>>, !.chunk = 0]

\* An attempt ended with ret: it is the result, or the message is sent again.
do_transfer(x, ret) ==
  IF ret \in {"OK", "IGNORED"} \/ x.try = ErrThreshold
  THEN [x EXCEPT !.ret = ret, !.try = 0, !.stage = "reset",
                 !.st = IF x.page THEN "send" ELSE "done"]
  ELSE [x EXCEPT !.try = @ + 1, !.ret = "OK", !.stage = FirstStage(x),
                 !.st = "send", !.sent = <<>>, !.chunk = 0]

\* The page registers were written with result ret.
cdns_prep_msg(x, ret) ==
  IF ret = "OK" THEN [x EXCEPT !.stage = "data", !.st = "send"]
                ELSE do_transfer([x EXCEPT !.len = 0], "FAIL")

\* A chunk was sent with result ret.  The register addresses of every chunk
\* start at msg->addr.
_cdns_xfer_msg(x, ret) ==
  [x EXCEPT !.st = "send", !.chunk = @ + 1, !.ret = ret,
            !.len = IF ret = "TIMEOUT" THEN 0 ELSE @,
            !.sent = IF ret = "OK" THEN @ \o [i \in 1 .. Count(x) |-> i] ELSE @]

sdw_reset_page(x, ret) ==
  IF ret \in {"OK", "IGNORED"} \/ x.try = ErrThreshold
  THEN [x EXCEPT !.st = "done", !.try = 0]
  ELSE [x EXCEPT !.try = @ + 1, !.st = "send"]

\* The answer ret to the command that is waited for.
Answered(x, ret) ==
  CASE x.stage = "page"  -> cdns_prep_msg(x, ret)
    [] x.stage = "data"  -> _cdns_xfer_msg(x, ret)
    [] x.stage = "reset" -> sdw_reset_page(x, ret)

\* The transfer goes on, or ends and gives msg_lock back.
Goes(b, x) ==
  /\ xfer' = [xfer EXCEPT ![b] = x]
  /\ msg_lock' = IF x.st = "done" THEN [msg_lock EXCEPT ![b] = NoOne]
                                  ELSE msg_lock

\* sdw_transfer takes msg_lock for a message of n registers.
sdw_transfer(b, who, n, page) ==
  /\ msg_lock[b] = NoOne
  /\ msg_lock' = [msg_lock EXCEPT ![b] = who]
  /\ LET x == [Idle EXCEPT !.st = "send", !.by = who, !.page = page,
                           !.want = n, !.len = n]
     IN  xfer' = [xfer EXCEPT ![b] = [x EXCEPT !.stage = FirstStage(x)]]

\* A read or write of registers by the enumeration, an alert or a codec.
Io(b, n, page) ==
  /\ b \in IoBus /\ xfer[b].st = "idle"
  /\ sdw_transfer(b, "io", n, page)
  /\ UNCHANGED <<switchVars, defer, complete, tx_complete, cmd,
                 hw_bank>>

\* The commands of a stage go to the controller.  A bank switch that is not
\* synchronized by hardware takes effect when its command is acknowledged.
Send(b) ==
  /\ xfer[b].st = "send" /\ ~IsOver(xfer[b])
  /\ xfer' = [xfer EXCEPT ![b].st = "wait"]
  /\ \E code \in Answers :
       /\ cmd' = [cmd EXCEPT ![b] = Run("xfer", code)]
       /\ hw_bank' = IF xfer[b].by # "io" /\ xfer[b].stage = "data" /\ code = "OK"
                     THEN [hw_bank EXCEPT ![b] = 1 - @] ELSE hw_bank
  /\ UNCHANGED <<switchVars, msg_lock, defer, complete, tx_complete>>

\* The chunks of an attempt are through.
EndAttempt(b) ==
  /\ xfer[b].st = "send" /\ IsOver(xfer[b])
  /\ Goes(b, do_transfer(xfer[b], xfer[b].ret))
  /\ UNCHANGED <<switchVars, defer, complete, tx_complete, cmd,
                 hw_bank>>

\* wait_for_completion_timeout returns with the completion.
Wake(b) ==
  /\ xfer[b].st = "wait" /\ tx_complete[b] # "none"
  /\ tx_complete' = [tx_complete EXCEPT ![b] = "none"]
  /\ Goes(b, Answered(xfer[b], tx_complete[b]))
  /\ UNCHANGED <<switchVars, defer, complete, cmd, hw_bank>>

\* ... or after CDNS_TX_TIMEOUT: no answer is left that could come.
Timeout(b) ==
  /\ xfer[b].st = "wait" /\ tx_complete[b] = "none" /\ cmd[b] = NoCmd
  /\ Goes(b, Answered(xfer[b], "TIMEOUT"))
  /\ UNCHANGED <<switchVars, defer, complete, tx_complete, cmd,
                 hw_bank>>

\* sdw_cdns_irq, CDNS_MCP_INT_RX_WL: the answer belongs to the deferred
\* message if there is one, and its code is not looked at.
RxIrq(b) ==
  /\ cmd[b].st = "run"
  /\ cmd' = [cmd EXCEPT ![b] = NoCmd]
  /\ defer' = [defer EXCEPT ![b] = FALSE]
  /\ complete' = [complete EXCEPT ![b] = @ \/ defer[b]]
  /\ tx_complete' = [tx_complete EXCEPT ![b] = IF defer[b] THEN @ ELSE cmd[b].code]
  /\ UNCHANGED <<switchVars, msg_lock, hw_bank, xfer>>

\* sdw_transfer returned to the caller of Io.
Return(b) ==
  /\ xfer[b].st = "done" /\ xfer[b].by = "io"
  /\ xfer' = [xfer EXCEPT ![b] = Idle]
  /\ UNCHANGED <<switchVars, msg_lock, defer, complete, tx_complete, cmd,
                 hw_bank>>

-------------------------------------------------------------------------------
(* do_bank_switch of a stream *)

\* On to the next master of the list, or to the first one of the next loop.
Next_m_rt(s, same, after) ==
  /\ pc' = [pc EXCEPT ![s] = IF IsLast(s) THEN after ELSE same]
  /\ at' = [at EXCEPT ![s] = IF IsLast(s) THEN 1 ELSE @ + 1]

Fail(s) == pc' = [pc EXCEPT ![s] = "error"] /\ at' = at

\* A stream call that needs a bank switch.
Call(s) ==
  /\ pc[s] = "idle"
  /\ pc' = [pc EXCEPT ![s] = "acquire"]
  /\ UNCHANGED <<pathVars, at, bus_lock, msg_lock, mem, defer, complete,
                 cmdsync, cmd, curr_bank, hw_bank, xfer>>

sdw_acquire_bus_lock(s) ==
  /\ pc[s] = "acquire" /\ bus_lock[Link(s)] = NoOne
  /\ bus_lock' = [bus_lock EXCEPT ![Link(s)] = s]
  /\ Next_m_rt(s, "acquire", "pre")
  /\ UNCHANGED <<pathVars, msg_lock, mem, defer, complete, cmdsync, cmd,
                 curr_bank, hw_bank, xfer>>

\* Variant: the link is armed without msg_lock.
intel_pre_bank_switch_unlocked(s) ==
  /\ pc[s] = "pre"
  /\ cmdsync' = IF multi_link THEN cmdsync \cup {Link(s)} ELSE cmdsync
  /\ pc' = [pc EXCEPT ![s] = "switch"]
  /\ UNCHANGED <<pathVars, at, bus_lock, msg_lock, mem, defer, complete, cmd,
                 curr_bank, hw_bank, xfer>>

\* msg_lock is taken for the whole switch; intel_shim_sync_arm sets CMDSYNC.
intel_pre_bank_switch(s) ==
  /\ pc[s] = "pre"
  /\ Multi(s) => msg_lock[Link(s)] = NoOne
  /\ msg_lock' = IF Multi(s) THEN [msg_lock EXCEPT ![Link(s)] = s] ELSE msg_lock
  /\ cmdsync' = IF multi_link THEN cmdsync \cup {Link(s)} ELSE cmdsync
  /\ pc' = [pc EXCEPT ![s] = "switch"]
  /\ UNCHANGED <<pathVars, at, bus_lock, mem, defer, complete, cmd, curr_bank,
                 hw_bank, xfer>>

\* Variant: the message is freed as soon as it is handed over.
sdw_bank_switch_defer_free(s) ==
  LET b == Link(s) IN
  /\ pc[s] = "switch" /\ Multi(s) /\ b \in cmdsync
  /\ mem' = [mem EXCEPT ![b] = "freed"]
  /\ defer' = [defer EXCEPT ![b] = TRUE]
  /\ complete' = [complete EXCEPT ![b] = FALSE]
  /\ cmd' = [cmd EXCEPT ![b] = Held]
  /\ Next_m_rt(s, "pre", "post")
  /\ UNCHANGED <<pathVars, bus_lock, msg_lock, cmdsync, curr_bank, hw_bank, xfer>>

\* sdw_bank_switch allocates the message and, for hardware synchronization,
\* hands it to the controller, which holds it back while CMDSYNC is set.
sdw_bank_switch_defer(s) ==
  LET b == Link(s) IN
  /\ pc[s] = "switch" /\ Multi(s)
  /\ mem' = [mem EXCEPT ![b] = "live"]
  /\ defer' = [defer EXCEPT ![b] = TRUE]
  /\ complete' = [complete EXCEPT ![b] = FALSE]
  /\ \/ /\ b \in cmdsync
        /\ cmd' = [cmd EXCEPT ![b] = Held] /\ hw_bank' = hw_bank
     \/ /\ b \notin cmdsync
        /\ \E code \in SwitchAnswers :
             /\ cmd' = [cmd EXCEPT ![b] = Run("defer", code)]
             /\ hw_bank' = IF code = "OK" THEN [hw_bank EXCEPT ![b] = 1 - @]
                                          ELSE hw_bank
  /\ Next_m_rt(s, "pre", "post")
  /\ UNCHANGED <<pathVars, bus_lock, msg_lock, cmdsync, curr_bank, xfer>>

\* Otherwise it is an ordinary transfer.
sdw_bank_switch_transfer(s) ==
  /\ pc[s] = "switch" /\ ~Multi(s)
  /\ mem' = [mem EXCEPT ![Link(s)] = "live"]
  /\ pc' = [pc EXCEPT ![s] = "wait"]
  /\ sdw_transfer(Link(s), s, 1, FALSE)
  /\ UNCHANGED <<pathVars, at, bus_lock, defer, complete, cmdsync, cmd,
                 curr_bank, hw_bank>>

sdw_bank_switch_nomem(s) ==
  /\ "nomem" \in Faults /\ pc[s] = "switch"
  /\ mem' \in {mem, [mem EXCEPT ![Link(s)] = "freed"]}
  /\ Fail(s)
  /\ UNCHANGED <<pathVars, bus_lock, msg_lock, defer, complete, cmdsync, cmd,
                 curr_bank, hw_bank, xfer>>

\* The transfer returned: the banks are exchanged, or the switch fails.
sdw_bank_switch_done(s) ==
  LET b == Link(s) IN
  /\ pc[s] = "wait" /\ xfer[b].st = "done" /\ xfer[b].by = s
  /\ \/ /\ xfer[b].ret = "OK"
        /\ mem' = [mem EXCEPT ![b] = "null"]
        /\ curr_bank' = [curr_bank EXCEPT ![b] = 1 - @]
        /\ Next_m_rt(s, "pre", "post")
     \/ /\ xfer[b].ret # "OK"
        /\ mem' = [mem EXCEPT ![b] = "freed"] /\ curr_bank' = curr_bank
        /\ Fail(s)
  /\ xfer' = [xfer EXCEPT ![b] = Idle]
  /\ UNCHANGED <<pathVars, bus_lock, msg_lock, defer, complete, cmdsync, cmd,
                 hw_bank>>

\* intel_shim_sync_go_unlocked: every armed link executes the command it
\* holds at the same time, and all the CMDSYNC bits clear.
SyncGo ==
  \E f \in [cmdsync -> SwitchAnswers] :
    LET held == {b \in cmdsync : cmd[b].st = "held"} IN
    /\ cmd' = [b \in Bus |-> IF b \in held THEN Run("defer", f[b]) ELSE cmd[b]]
    /\ hw_bank' = [b \in Bus |-> IF b \in held /\ f[b] = "OK" THEN 1 - hw_bank[b]
                                                             ELSE hw_bank[b]]
    /\ cmdsync' = {}

\* A link that is probed or resumes sets its own CMDSYNC bit, is initialized
\* and triggers SYNCGO, with shim_lock but no bus_lock (intel_master_startup,
\* intel_resume and intel_resume_runtime).  No stream is at work on it and it
\* holds no command, so what the others see is SYNCGO alone.
intel_shim_sync_go(b) ==
  /\ "start" \in Faults /\ multi_link /\ cmdsync # {}
  /\ xfer[b].st = "idle" /\ \A s \in Stream : b \in Links(s) => pc[s] = "idle"
  /\ SyncGo
  /\ UNCHANGED <<pathVars, pc, at, bus_lock, msg_lock, mem, defer, complete,
                 curr_bank, xfer>>

\* Variant: every master triggers its own link.
intel_post_bank_switch_own(s) ==
  LET b == Link(s) IN
  /\ pc[s] = "post" /\ multi_link
  /\ pc' = [pc EXCEPT ![s] = "sync"]
  /\ cmd' = [cmd EXCEPT ![b] = Run("defer", "OK")]
  /\ hw_bank' = [hw_bank EXCEPT ![b] = 1 - @]
  /\ cmdsync' = cmdsync \ {b}
  /\ UNCHANGED <<pathVars, at, bus_lock, msg_lock, mem, defer, complete,
                 curr_bank, xfer>>

\* The first master of the list triggers all of them.
intel_post_bank_switch(s) ==
  /\ pc[s] = "post"
  /\ pc' = [pc EXCEPT ![s] = "sync"]
  /\ \/ multi_link /\ cmdsync # {} /\ SyncGo
     \/ (~multi_link \/ cmdsync = {}) /\ UNCHANGED <<cmd, hw_bank, cmdsync>>
  /\ UNCHANGED <<pathVars, at, bus_lock, msg_lock, mem, defer, complete,
                 curr_bank, xfer>>

\* The poll for SYNCGO gives up; the links may or may not have switched.
intel_post_bank_switch_err(s) ==
  /\ "syncgo" \in Faults /\ pc[s] = "post" /\ multi_link /\ cmdsync # {}
  /\ SyncGo \/ UNCHANGED <<cmd, hw_bank, cmdsync>>
  /\ Fail(s)
  /\ UNCHANGED <<pathVars, bus_lock, msg_lock, mem, defer, complete, curr_bank,
                 xfer>>

\* Variant: only the lock of the first link is given back.
Unlocked_first(lock, s) == [lock EXCEPT ![master_list[s][1]] = NoOne]

\* What a call that got to the end of do_bank_switch leaves behind.
Unlocked(lock, s) == [b \in Bus |-> IF lock[b] = s THEN NoOne ELSE lock[b]]

\* Variant: the banks are not exchanged.
sdw_ml_sync_bank_switch_same(s) ==
  LET b == Link(s) IN
  /\ pc[s] = "sync" /\ multi_link /\ complete[b]
  /\ complete' = [complete EXCEPT ![b] = FALSE]
  /\ mem' = [mem EXCEPT ![b] = "freed"]
  /\ msg_lock' = [msg_lock EXCEPT ![b] = NoOne]
  /\ bus_lock' = IF IsLast(s) THEN Unlocked(bus_lock, s) ELSE bus_lock
  /\ Next_m_rt(s, "post", "idle")
  /\ UNCHANGED <<pathVars, defer, curr_bank, cmdsync, cmd, hw_bank, xfer>>

\* The completion of the deferred message exchanges the banks and frees it.
\* After the last master sdw_release_bus_lock ends the call.
sdw_ml_sync_bank_switch(s) ==
  LET b == Link(s) IN
  /\ pc[s] = "sync"
  /\ \/ /\ multi_link /\ complete[b]
        /\ complete' = [complete EXCEPT ![b] = FALSE]
        /\ curr_bank' = [curr_bank EXCEPT ![b] = 1 - @]
        /\ mem' = [mem EXCEPT ![b] = IF @ = "null" THEN @ ELSE "freed"]
     \/ ~multi_link /\ UNCHANGED <<complete, curr_bank, mem>>
  /\ msg_lock' = IF Multi(s) THEN [msg_lock EXCEPT ![b] = NoOne] ELSE msg_lock
  /\ bus_lock' = IF IsLast(s) THEN Unlocked(bus_lock, s) ELSE bus_lock
  /\ Next_m_rt(s, "post", "idle")
  /\ UNCHANGED <<pathVars, defer, cmdsync, cmd, hw_bank, xfer>>

\* bank_switch_timeout: the command is not going to be answered.
sdw_ml_sync_bank_switch_err(s) ==
  /\ pc[s] = "sync" /\ multi_link
  /\ ~complete[Link(s)] /\ cmd[Link(s)] = NoCmd
  /\ Fail(s)
  /\ UNCHANGED <<pathVars, bus_lock, msg_lock, mem, defer, complete, cmdsync,
                 cmd, curr_bank, hw_bank, xfer>>

\* The error path frees the message of every master, allocated or not, and
\* unlocks every msg_lock of the stream, whoever holds it.
do_bank_switch_err(s) ==
  /\ pc[s] = "error"
  /\ mem' = [b \in Bus |-> IF b \in Links(s) THEN "freed" ELSE mem[b]]
  /\ msg_lock' = [b \in Bus |-> IF Multi(s) /\ b \in Links(s) THEN NoOne
                                                              ELSE msg_lock[b]]
  /\ bus_lock' = Unlocked(bus_lock, s)
  /\ pc' = [pc EXCEPT ![s] = "idle"] /\ at' = [at EXCEPT ![s] = 1]
  /\ failed' = TRUE
  /\ UNCHANGED <<multi_link, master_list, tx_complete, defer,
                 complete, cmdsync, cmd, curr_bank, hw_bank, xfer>>

-------------------------------------------------------------------------------
Init ==
  /\ multi_link \in BOOLEAN
  /\ master_list \in [Stream -> MasterLists]
  \* sdw_stream_add_master refuses a second master without multi_link.
  /\ multi_link \/ \A s \in Stream : Len(master_list[s]) = 1
  /\ pc = [s \in Stream |-> "idle"] /\ at = [s \in Stream |-> 1]
  /\ bus_lock = [b \in Bus |-> NoOne] /\ msg_lock = [b \in Bus |-> NoOne]
  /\ mem = [b \in Bus |-> "null"] /\ defer = [b \in Bus |-> FALSE]
  /\ complete = [b \in Bus |-> FALSE] /\ tx_complete = [b \in Bus |-> "none"]
  /\ cmdsync = {} /\ cmd = [b \in Bus |-> NoCmd]
  /\ curr_bank = [b \in Bus |-> 0] /\ hw_bank = [b \in Bus |-> 0]
  /\ xfer = [b \in Bus |-> Idle]
  /\ failed = FALSE

BusStep(b) ==
  \/ \E n \in 1 .. MaxLen, page \in BOOLEAN : Io(b, n, page)
  \/ Send(b) \/ EndAttempt(b) \/ Wake(b) \/ Timeout(b) \/ RxIrq(b)
  \/ Return(b)

StreamStep(s) ==
  \/ Call(s) \/ sdw_acquire_bus_lock(s) \/ intel_pre_bank_switch(s)
  \/ sdw_bank_switch_defer(s) \/ sdw_bank_switch_transfer(s)
  \/ sdw_bank_switch_nomem(s) \/ sdw_bank_switch_done(s)
  \/ intel_post_bank_switch(s) \/ intel_post_bank_switch_err(s)
  \/ sdw_ml_sync_bank_switch(s) \/ sdw_ml_sync_bank_switch_err(s)
  \/ do_bank_switch_err(s)

\* The messages freed by an error path may have been free already: what the
\* kernel does from there on is not defined.
Undefined == failed /\ UNCHANGED vars

Next ==
  \/ /\ ~failed
     /\ \/ \E b \in Bus : BusStep(b) \/ intel_shim_sync_go(b)
        \/ \E s \in Stream : StreamStep(s)
  \/ Undefined

Spec == Init /\ [][Next]_vars

\* What keeps running: a transfer that holds msg_lock, the controllers, a bank
\* switch once it has its locks.  A mutex is handed on in turn, so a thread
\* that waits for one gets it although others keep taking it.
FairSpec ==
  /\ Spec
  /\ \A b \in Bus : WF_vars(~failed /\ (\/ Send(b) \/ EndAttempt(b) \/ Wake(b)
                                         \/ Timeout(b) \/ RxIrq(b) \/ Return(b)))
  /\ \A s \in Stream : SF_vars(~failed /\ pc[s] # "idle" /\ StreamStep(s))

-------------------------------------------------------------------------------
(* Properties *)

Holder == Stream \cup {"io", NoOne}

\* The variables have the types of the fields of sdw_bus, sdw_cdns and sdw_msg.
TypeOK ==
  /\ multi_link \in BOOLEAN /\ failed \in BOOLEAN
  /\ master_list \in [Stream -> MasterLists]
  /\ pc \in [Stream -> {"idle", "acquire", "pre", "switch", "wait", "post",
                        "sync", "error"}]
  /\ at \in [Stream -> Nat] /\ \A s \in Stream : at[s] \in DOMAIN master_list[s]
  /\ bus_lock \in [Bus -> Stream \cup {NoOne}] /\ msg_lock \in [Bus -> Holder]
  /\ mem \in [Bus -> {"null", "live", "freed"}]
  /\ defer \in [Bus -> BOOLEAN] /\ complete \in [Bus -> BOOLEAN]
  /\ tx_complete \in [Bus -> Code \cup {"none"}]
  /\ cmdsync \subseteq Bus
  /\ cmd \in [Bus -> [st : {"none", "held", "run"}, by : {"xfer", "defer"},
                      code : Code]]
  /\ curr_bank \in [Bus -> {0, 1}] /\ hw_bank \in [Bus -> {0, 1}]
  /\ xfer \in [Bus -> [st : {"idle", "send", "wait", "done"},
                       by : Stream \cup {"io"}, page : BOOLEAN, want : Nat,
                       len : Nat, stage : {"page", "data", "reset"},
                       chunk : Nat, try : 0 .. ErrThreshold, ret : Code,
                       sent : Seq(Nat)]]

\* When no bank switch is under way on a bus, the bank the software takes for
\* the current one is the bank the link runs from: the next stream call
\* programs the other bank (do_bank_switch, "Check if bank switch was
\* successful").
BankInStep ==
  failed \/ \A b \in Bus : bus_lock[b] = NoOne => curr_bank[b] = hw_bank[b]

\* The interrupt hands an answer to the message it answers: cdns->defer is set
\* exactly while the command in the controller is the deferred one.
AnswerGoesHome ==
  failed \/ \A b \in Bus : cmd[b].st = "run" => (defer[b] <=> cmd[b].by = "defer")

\* A message that sdw_transfer reports as sent, with its length intact, had
\* all its registers acknowledged, each once and in order, whatever was
\* refused or repeated on the way.
TransferComplete ==
  \A b \in Bus : LET x == xfer[b] IN
    x.st = "done" /\ x.ret = "OK" /\ x.len = x.want
      => x.sent = [i \in 1 .. x.want |-> i]

\* The command of a link is executed, or at least let go by the controller.
Triggered(b) == \/ hw_bank'[b] # hw_bank[b]
                \/ cmd[b].st = "held" /\ cmd'[b].st # "held"

\* The links of a stream under a bank switch are triggered in the same step:
\* "the actual bank switch is synchronized across all Masters"
\* (do_bank_switch).
SwitchTogether ==
  [][\A s \in Stream : \A b, c \in {d \in Links(s) : bus_lock[d] = s} :
       pc[s] \notin {"idle", "acquire"} /\ Triggered(b) => Triggered(c)]_vars

\* The message that the interrupt fills in, and the one that
\* sdw_ml_sync_bank_switch frees, is allocated.
MessageLive ==
  failed \/ /\ \A b \in Bus : defer[b] => mem[b] = "live"
            /\ \A s \in Stream : pc[s] = "sync" /\ complete[Link(s)]
                                  => mem[Link(s)] = "live"

\* A stream call that starts a bank switch returns: neither the locks of two
\* streams and the transfers nor the wait for a synchronized switch block it.
Returns == \A s \in Stream : pc[s] = "acquire" ~> (pc[s] = "idle" \/ failed)
===============================================================================
