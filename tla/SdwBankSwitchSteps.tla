-------------------------- MODULE SdwBankSwitchSteps --------------------------
(***************************************************************************)
(* Proofs about SdwBankSwitch: the bank the software takes for the current *)
(* one is the bank the link runs from, and the links of a stream switch in *)
(* the same step.  Both need conditions that the code does not check; they *)
(* are hypotheses of the theorems.                                         *)
(***************************************************************************)
EXTENDS SdwBankSwitchProofs

-------------------------------------------------------------------------------
(* The inductive invariant: what a link did and the software does not know *)

\* The command that a bank switch transfers over bus b was acknowledged.
Acked(b) ==
  /\ xfer[b].by # "io"
  /\ IF xfer[b].st = "wait"
     THEN (cmd[b].st = "run" /\ cmd[b].code = "OK") \/ tx_complete[b] = "OK"
     ELSE xfer[b].chunk = 1 /\ xfer[b].ret = "OK"

\* The link runs from the other bank already: a deferred command was executed
\* and is not answered, or answered and not taken, or a transfer was.
Deferred(b) == cmd[b].st = "run" /\ cmd[b].by = "defer"
Moved(b) == complete[b] \/ Deferred(b) \/ Acked(b)

\* The transfer of a bank switch: one register, no page, one chunk.  msg->len
\* is zeroed by a timeout only when no attempt is left that would find it so.
OneChunk(x) ==
  /\ ~x.page /\ x.st # "idle"
  /\ x.st = "wait" => x.stage = "data" /\ x.chunk = 0 /\ x.len = 1
  /\ x.st = "send" => /\ x.stage = "data" /\ x.chunk \in {0, 1} /\ x.len \in {0, 1}
                      /\ x.len = 1 \/ (x.chunk = 1 /\ ErrThreshold = 0)
  /\ x.st = "done" => x.chunk = 1

\* The caller of a transfer waits for it in sdw_bank_switch.
CallerAt(b) ==
  \A s \in Stream : xfer[b].by = s =>
    pc[s] = "wait" /\ Link(s) = b /\ OneChunk(xfer[b])

\* An answer to a transfer is on its way only while the transfer waits for it.
OnceAt(b) ==
  /\ xfer[b].st # "wait" => tx_complete[b] = "none"
  /\ xfer[b].st # "wait" \/ tx_complete[b] # "none"
       => ~(cmd[b].st = "run" /\ cmd[b].by = "xfer")
  /\ "lost" \notin Faults /\ xfer[b].st = "wait"
       => cmd[b].st = "run" \/ tx_complete[b] # "none"
  /\ tx_complete[b] # "TIMEOUT" /\ (cmd[b].st = "run" => cmd[b].code # "TIMEOUT")

KnownAt(b) == curr_bank[b] # hw_bank[b] <=> Moved(b)

BusInv(b) == CallerAt(b) /\ OnceAt(b) /\ KnownAt(b)
BInv == \A b \in Bus : BusInv(b)
BankInv == failed \/ BInv

\* A deferred command is acknowledged or lost (the interrupt does not look at
\* its answer), and a transfer is not repeated after its length was zeroed.
Reliable ==
  /\ "switch_nack" \notin Faults
  /\ ErrThreshold = 0 \/ "lost" \notin Faults

LEMMA AnswerKinds ==
  /\ "switch_nack" \notin Faults => SwitchAnswers \subseteq {"OK", "TIMEOUT"}
  /\ "lost" \notin Faults => "TIMEOUT" \notin Answers
BY DEF SwitchAnswers, Answers, Answer

LEMMA RunIs ==
  ASSUME NEW by, NEW code
  PROVE  /\ code = "TIMEOUT" => Run(by, code).st = "none"
         /\ code # "TIMEOUT" => /\ Run(by, code).st = "run" /\ Run(by, code).by = by
                                /\ Run(by, code).code = code
         /\ NoCmd.st = "none" /\ Held.st = "held"
BY Zenon DEF Run, NoCmd, Held

-------------------------------------------------------------------------------
(* The transfer of a bank switch *)

LEMMA Starts ==
  ASSUME NEW b, NEW who, NEW n, NEW page, sdw_transfer(b, who, n, page)
  PROVE  \E x : /\ xfer' = [xfer EXCEPT ![b] = x]
                /\ x.by = who /\ x.st = "send" /\ x.chunk = 0 /\ x.len = n
                /\ x.page = page /\ x.stage = FirstStage(x)
<1> DEFINE x == [Idle EXCEPT !.st = "send", !.by = who, !.page = page,
                             !.want = n, !.len = n]
           y == [x EXCEPT !.stage = FirstStage(x)]
<1>1. /\ x.by = who /\ x.st = "send" /\ x.chunk = 0 /\ x.len = n /\ x.page = page
      /\ y.by = x.by /\ y.st = x.st /\ y.chunk = x.chunk /\ y.len = x.len
      /\ y.page = x.page /\ y.stage = FirstStage(x)
  BY Zenon DEF Idle
<1>2. FirstStage(y) = FirstStage(x)
  BY <1>1, Zenon DEF FirstStage
<1>3. xfer' = [xfer EXCEPT ![b] = y]
  BY Zenon DEF sdw_transfer
<1> HIDE DEF x, y
<1> QED  BY <1>1, <1>2, <1>3, Zenon

LEMMA SwitchSends ==
  ASSUME NEW x \in XferType, OneChunk(x), x.st = "send", ~IsOver(x)
  PROVE  x.stage = "data" /\ x.chunk = 0 /\ x.len = 1
<1>1. x.stage = "data" /\ x.chunk \in {0, 1} /\ x.len \in {0, 1}
      /\ (x.len = 1 \/ x.chunk = 1)
  BY Zenon DEF OneChunk
<1>2. CmdLen \in Nat /\ CmdLen >= 1
  BY BankSwitchAssumption
<1>3. x.chunk = 1 => Count(x) <= 0
  BY <1>1, <1>2 DEF Count
<1> QED  BY <1>1, <1>3, Zenon DEF IsOver

LEMMA SwitchAnswered ==
  ASSUME NEW x \in XferType, OneChunk(x), x.st = "wait", NEW c \in Code,
         c = "TIMEOUT" => ErrThreshold = 0
  PROVE  LET y == Answered(x, c)
         IN  y.st = "send" /\ y.chunk = 1 /\ y.ret = c /\ OneChunk(y)
<1>1. x.stage = "data" /\ x.chunk = 0 /\ x.len = 1 /\ ~x.page
  BY Zenon DEF OneChunk
<1> DEFINE s == IF c = "OK" THEN x.sent \o [i \in 1 .. Count(x) |-> i] ELSE x.sent
           l == IF c = "TIMEOUT" THEN 0 ELSE 1
           y == [x EXCEPT !.st = "send", !.chunk = 1, !.ret = c, !.len = l, !.sent = s]
<1>2. Answered(x, c) = y
  BY <1>1 DEF Answered, _cdns_xfer_msg
<1> HIDE DEF s, l
<1>3. /\ y.st = "send" /\ y.chunk = 1 /\ y.ret = c /\ y.len = l
      /\ y.stage = x.stage /\ y.page = x.page
  BY Zenon DEF XferType
<1>4. l \in {0, 1} /\ (l = 1 \/ ErrThreshold = 0)
  BY Zenon DEF l
<1> HIDE DEF y
<1>5. OneChunk(y)
  BY <1>1, <1>3, <1>4, Zenon DEF OneChunk
<1> QED  BY <1>2, <1>3, <1>5, Zenon

LEMMA SwitchEnds ==
  ASSUME NEW x \in XferType, OneChunk(x), x.st = "send", IsOver(x)
  PROVE  LET y == do_transfer(x, x.ret)
         IN  /\ x.chunk = 1 /\ OneChunk(y) /\ y.st \in {"send", "done"}
             /\ (y.chunk = 1 /\ y.ret = "OK") <=> x.ret = "OK"
<1>0. x.stage = "data" /\ x.chunk \in {0, 1} /\ x.len \in {0, 1} /\ ~x.page
      /\ (x.len = 1 \/ (x.chunk = 1 /\ ErrThreshold = 0))
  BY Zenon DEF OneChunk
<1>1. x.chunk = 1
  <2>1. CmdLen \in Nat /\ CmdLen >= 1 /\ Count(x) <= 0
    BY BankSwitchAssumption DEF IsOver
  <2>2. x.chunk = 0 /\ x.len = 1 => Count(x) = 1
    BY <2>1 DEF Count
  <2> QED  BY <1>0, <2>1, <2>2
<1>2. CASE x.ret \in {"OK", "IGNORED"} \/ x.try = ErrThreshold
  <2> DEFINE y == [x EXCEPT !.ret = x.ret, !.try = 0, !.stage = "reset",
                            !.st = IF x.page THEN "send" ELSE "done"]
  <2>1. do_transfer(x, x.ret) = y
    BY <1>2, Zenon DEF do_transfer
  <2>2. y.st = "done" /\ y.chunk = x.chunk /\ y.ret = x.ret /\ y.page = x.page
    BY <1>0, Zenon DEF XferType
  <2> HIDE DEF y
  <2>3. OneChunk(y)
    BY <1>0, <1>1, <2>2, Zenon DEF OneChunk
  <2> QED  BY <1>1, <2>1, <2>2, <2>3, Zenon
<1>3. CASE ~(x.ret \in {"OK", "IGNORED"} \/ x.try = ErrThreshold)
  <2> DEFINE y == [x EXCEPT !.try = x.try + 1, !.ret = "OK", !.stage = FirstStage(x),
                            !.st = "send", !.sent = <<>>, !.chunk = 0]
  <2>1. do_transfer(x, x.ret) = y
    BY <1>3, Zenon DEF do_transfer
  <2>2. y.st = "send" /\ y.chunk = 0 /\ y.len = x.len /\ y.page = x.page
        /\ y.stage = FirstStage(x)
    BY Zenon DEF XferType
  <2>3. ErrThreshold # 0
    BY <1>3, BankSwitchAssumption DEF XferType
  <2>4. FirstStage(x) = "data"
    BY <1>0, Zenon DEF FirstStage
  <2> HIDE DEF y
  <2>5. OneChunk(y)
    BY <1>0, <2>2, <2>3, <2>4, Zenon DEF OneChunk
  <2> QED  BY <1>1, <1>3, <2>1, <2>2, <2>5
<1> QED  BY <1>2, <1>3, Zenon


-------------------------------------------------------------------------------
(* Steps of the message path keep it *)

\* The caller of a transfer is a stream or an ordinary one.
LEMMA Caller ==
  ASSUME Types, BInv, NEW b \in Bus, xfer[b].by # "io"
  PROVE  /\ xfer[b].by \in Stream /\ pc[xfer[b].by] = "wait" /\ Link(xfer[b].by) = b
         /\ OneChunk(xfer[b])
<1>1. xfer[b].by \in Stream
  BY Zenon DEF Types, PathType, XferType
<1> QED  BY <1>1, Zenon DEF BInv, BusInv, CallerAt

\* While a deferred message is pending, no bank switch transfers on its bus.
LEMMA PendingIo ==
  ASSUME Types, SInv, BInv, NEW b \in Bus, Pending(b)
  PROVE  xfer[b].by = "io"
<1> SUFFICES ASSUME xfer[b].by # "io" PROVE FALSE
  BY Zenon
<1> DEFINE s == xfer[b].by
<1>1. s \in Stream /\ pc[s] = "wait" /\ Link(s) = b
  BY Caller, Zenon
<1> HIDE DEF s
<1>2. b \in Claimed(s) /\ Out(s) = {}
  BY <1>1, LinkInBus, Zenon DEF Claimed, Out, Types
<1> QED  BY <1>1, <1>2, NotPending, Zenon

\* A bus of which a step changes nothing.
LEMMA Elsewhere ==
  ASSUME NEW b \in Bus, BusInv(b), UNCHANGED master_list,
         xfer'[b] = xfer[b], cmd'[b] = cmd[b], tx_complete'[b] = tx_complete[b],
         complete'[b] = complete[b], curr_bank'[b] = curr_bank[b],
         hw_bank'[b] = hw_bank[b],
         \A s \in Stream : xfer[b].by = s => pc'[s] = pc[s] /\ at'[s] = at[s]
  PROVE  BusInv(b)'
<1>1. CallerAt(b)'
  BY Zenon DEF BusInv, CallerAt, Link
<1>2. OnceAt(b)'
  BY Zenon DEF BusInv, OnceAt
<1>3. KnownAt(b)'
  BY Zenon DEF BusInv, KnownAt, Moved, Deferred, Acked
<1> QED  BY <1>1, <1>2, <1>3, Zenon DEF BusInv

\* A bank is exchanged for the other one.
LEMMA Flip ==
  ASSUME NEW i \in {0, 1}, NEW j \in {0, 1}
  PROVE  /\ (1 - i) # j <=> i = j
         /\ i # (1 - j) <=> i = j
OBVIOUS

LEMMA IoKeeps ==
  ASSUME Types, SInv, BInv, NEW b \in Bus, NEW n, NEW page, Io(b, n, page)
  PROVE  BusInv(b)'
<1>0. PathType /\ BusInv(b)
  BY Zenon DEF Types, BInv
<1>1. xfer[b].st = "idle" /\ UNCHANGED <<pc, at, master_list, tx_complete, cmd, complete,
                                         curr_bank, hw_bank>>
  BY Zenon DEF Io, switchVars
<1>2. xfer[b].by = "io"
  BY <1>1, Caller, Zenon DEF OneChunk
<1>3. xfer'[b].by = "io" /\ xfer'[b].st = "send"
  <2>1. PICK x : /\ xfer' = [xfer EXCEPT ![b] = x]
                 /\ x.by = "io" /\ x.st = "send" /\ x.chunk = 0 /\ x.len = n
                 /\ x.page = page /\ x.stage = FirstStage(x)
    BY Starts DEF Io
  <2> QED  BY <1>0, <2>1, Zenon DEF PathType
<1>4. CallerAt(b)'
  BY <1>3, NamesDiffer, Zenon DEF CallerAt
<1>5. OnceAt(b)'
  BY <1>0, <1>1, <1>3, Zenon DEF BusInv, OnceAt
<1>6. KnownAt(b)'
  BY <1>0, <1>1, <1>2, <1>3, Zenon DEF BusInv, KnownAt, Moved, Deferred, Acked
<1> QED  BY <1>4, <1>5, <1>6, Zenon DEF BusInv

LEMMA SendKeeps ==
  ASSUME Types, SInv, BInv, NEW b \in Bus, Send(b)
  PROVE  BusInv(b)'
<1> DEFINE x == xfer[b]
<1>0. PathType /\ LinkType /\ BusInv(b) /\ x \in XferType
  BY Zenon DEF Types, BInv, PathType
<1>1. /\ x.st = "send" /\ ~IsOver(x)
      /\ UNCHANGED <<pc, at, master_list, tx_complete, complete, curr_bank>>
  BY Zenon DEF Send, switchVars
<1>2. xfer'[b].st = "wait" /\ xfer'[b].by = x.by /\ xfer'[b].chunk = x.chunk
      /\ xfer'[b].stage = x.stage /\ xfer'[b].len = x.len /\ xfer'[b].page = x.page
  BY <1>0, Zenon DEF Send, PathType, XferType
<1>3. PICK code \in Answers :
        /\ cmd' = [cmd EXCEPT ![b] = Run("xfer", code)]
        /\ hw_bank' = IF x.by # "io" /\ x.stage = "data" /\ code = "OK"
                      THEN [hw_bank EXCEPT ![b] = 1 - hw_bank[b]] ELSE hw_bank
  BY Zenon DEF Send
<1>4. cmd'[b] = Run("xfer", code)
  BY <1>0, <1>3, Zenon DEF PathType
<1>5. x.by # "io" => x.stage = "data" /\ x.chunk = 0 /\ x.len = 1 /\ OneChunk(x)
  BY <1>0, <1>1, Caller, SwitchSends, Zenon
<1>6. tx_complete[b] = "none" /\ ~Deferred(b)
  <2>1. \A s \in Stream : msg_lock[b] = s => ~Multi(s)
    BY <1>1, Zenon DEF SInv, PathHeld
  <2>2. ~defer[b]
    BY <2>1, Zenon DEF SInv, Owned, Pending
  <2> QED  BY <1>0, <1>1, <2>2, Zenon DEF BusInv, OnceAt, Deferred, SInv, Answering
<1> HIDE DEF x
<1>7. CallerAt(b)'
  <2>1. x.by # "io" => OneChunk(xfer'[b])
    BY <1>2, <1>5, Zenon DEF OneChunk
  <2> QED  BY <1>0, <1>1, <1>2, <2>1, NamesDiffer, Zenon DEF BusInv, CallerAt, Link, x
<1>8. OnceAt(b)'
  <2>1. "lost" \notin Faults => cmd'[b].st = "run"
    <3>1. "lost" \notin Faults => code # "TIMEOUT"
      BY <1>3, AnswerKinds, Zenon
    <3> QED  BY <1>4, <3>1, RunIs
  <2>2. xfer'[b].st = "wait" /\ tx_complete'[b] = "none"
    BY <1>1, <1>2, <1>6, Zenon
  <2>3. cmd'[b].st = "run" => cmd'[b].code # "TIMEOUT"
    BY <1>4, RunIs
  <2> QED  BY <2>1, <2>2, <2>3, Zenon DEF OnceAt
<1>9. KnownAt(b)'
  <2>1. ~Acked(b) /\ (Moved(b) <=> complete[b])
    BY <1>1, <1>5, <1>6 DEF Acked, Moved, x
  <2>2. ~Deferred(b)' /\ (Acked(b)' <=> x.by # "io" /\ code = "OK")
    BY <1>1, <1>2, <1>4, <1>6, RunIs DEF Deferred, Acked
  <2>3. x.by # "io" => ~complete[b]
    BY PendingIo, Zenon DEF Pending, x
  <2>4. hw_bank'[b] = IF x.by # "io" /\ code = "OK" THEN 1 - hw_bank[b] ELSE hw_bank[b]
    BY <1>0, <1>3, <1>5, Zenon DEF LinkType
  <2>5. curr_bank[b] \in {0, 1} /\ hw_bank[b] \in {0, 1}
    BY <1>0, Zenon DEF LinkType
  <2>6. curr_bank[b] # hw_bank[b] <=> complete[b]
    BY <1>0, <2>1, Zenon DEF BusInv, KnownAt
  <2>7. Moved(b)' <=> complete[b] \/ (x.by # "io" /\ code = "OK")
    BY <1>1, <2>2, Zenon DEF Moved
  <2> QED  BY <1>1, <2>3, <2>4, <2>5, <2>6, <2>7, Flip, Zenon DEF KnownAt
<1> QED  BY <1>7, <1>8, <1>9, Zenon DEF BusInv

\* A transfer that goes on: nothing but the transfer, msg_lock and tx_complete
\* of its bus change.
LEMMA GoesKeeps ==
  ASSUME Types, SInv, BInv, NEW b \in Bus, NEW x, Goes_on(xfer[b], x), Goes(b, x),
         UNCHANGED <<switchVars, complete, cmd, hw_bank>>,
         tx_complete'[b] = "none", ~(cmd[b].st = "run" /\ cmd[b].by = "xfer"),
         xfer[b].st \in {"send", "wait"},
         xfer[b].by # "io" =>
           OneChunk(x) /\ (Acked(b) <=> x.chunk = 1 /\ x.ret = "OK")
  PROVE  BusInv(b)'
<1>0. PathType /\ BusInv(b)
  BY Zenon DEF Types, BInv
<1>1. xfer'[b] = x /\ x.by = xfer[b].by /\ x.st # "wait"
  BY <1>0, Zenon DEF Goes, Goes_on, PathType
<1>2. UNCHANGED <<pc, at, master_list, curr_bank>>
  BY Zenon DEF switchVars
<1>3. CallerAt(b)'
  BY <1>0, <1>1, <1>2, NamesDiffer, Zenon DEF BusInv, CallerAt, Link
<1>4. OnceAt(b)'
  BY <1>0, <1>1, Zenon DEF BusInv, OnceAt
<1>5. Acked(b)' <=> Acked(b)
  BY <1>1, Zenon DEF Acked
<1>6. KnownAt(b)'
  BY <1>0, <1>2, <1>5, Zenon DEF BusInv, KnownAt, Moved, Deferred
<1> QED  BY <1>3, <1>4, <1>6, Zenon DEF BusInv

LEMMA AttemptKeeps ==
  ASSUME Types, SInv, BInv, Reliable, NEW b \in Bus, EndAttempt(b) \/ Wake(b) \/ Timeout(b)
  PROVE  BusInv(b)'
<1> DEFINE x == xfer[b]
<1>0. PathType /\ OnceAt(b) /\ x \in XferType /\ x.ret \in Code /\ "TIMEOUT" \in Code
      /\ (tx_complete[b] # "none" => tx_complete[b] \in Code)
  BY Zenon DEF Types, BInv, BusInv, PathType, XferType, Code
<1>a. x.by # "io" => OneChunk(x)
  BY Caller, Zenon
<1>1. CASE EndAttempt(b)
  <2> DEFINE y == do_transfer(x, x.ret)
  <2>1. x.st = "send" /\ IsOver(x) /\ Goes(b, y)
        /\ UNCHANGED <<switchVars, complete, cmd, hw_bank, tx_complete>>
    BY <1>1, Zenon DEF EndAttempt
  <2>2. Goes_on(x, y)
    BY <1>0, AttemptEnds, Zenon
  <2>3. x.by # "io" => OneChunk(y) /\ (y.chunk = 1 /\ y.ret = "OK" <=> Acked(b))
    <3> SUFFICES ASSUME x.by # "io"
                 PROVE  OneChunk(y) /\ (y.chunk = 1 /\ y.ret = "OK" <=> Acked(b))
      BY Zenon
    <3>1. /\ x.chunk = 1 /\ OneChunk(y)
          /\ (y.chunk = 1 /\ y.ret = "OK") <=> x.ret = "OK"
      BY <1>0, <1>a, <2>1, SwitchEnds, Zenon
    <3> HIDE DEF y
    <3> QED  BY <2>1, <3>1, Zenon DEF Acked
  <2>4. tx_complete[b] = "none" /\ ~(cmd[b].st = "run" /\ cmd[b].by = "xfer")
    BY <1>0, <2>1, Zenon DEF OnceAt
  <2> HIDE DEF y
  <2> QED  BY <2>1, <2>2, <2>3, <2>4, GoesKeeps, Zenon
<1>2. CASE Wake(b)
  <2> DEFINE c == tx_complete[b]  y == Answered(x, c)
  <2>1. x.st = "wait" /\ c # "none" /\ c \in Code /\ Goes(b, y)
        /\ UNCHANGED <<switchVars, complete, cmd, hw_bank>> /\ tx_complete'[b] = "none"
    BY <1>0, <1>2, Zenon DEF Wake, PathType
  <2>2. Goes_on(x, y)
    BY <1>0, <2>1, AnsweredType, Zenon
  <2>3. ~(cmd[b].st = "run" /\ cmd[b].by = "xfer")
    BY <1>0, <2>1, Zenon DEF OnceAt
  <2>4. ~(cmd[b].st = "run")
    <3>1. \A s \in Stream : msg_lock[b] = s => ~Multi(s)
      BY <2>1, Zenon DEF SInv, PathHeld
    <3>2. ~defer[b]
      BY <3>1, Zenon DEF SInv, Owned, Pending
    <3> QED  BY <1>0, <2>3, <3>2, Zenon DEF SInv, Answering, PathType, CmdType
  <2>5. x.by # "io" => OneChunk(y) /\ (Acked(b) <=> y.chunk = 1 /\ y.ret = "OK")
    <3> SUFFICES ASSUME x.by # "io"
                 PROVE  OneChunk(y) /\ (Acked(b) <=> y.chunk = 1 /\ y.ret = "OK")
      BY Zenon
    <3>1. c # "TIMEOUT"
      BY <1>0, Zenon DEF OnceAt
    <3>2. y.st = "send" /\ y.chunk = 1 /\ y.ret = c /\ OneChunk(y)
      BY <1>0, <1>a, <2>1, <3>1, SwitchAnswered, Zenon
    <3> HIDE DEF y
    <3> QED  BY <2>1, <2>4, <3>2, Zenon DEF Acked
  <2> HIDE DEF y
  <2> QED  BY <2>1, <2>2, <2>3, <2>5, GoesKeeps, Zenon
<1>3. CASE Timeout(b)
  <2> DEFINE y == Answered(x, "TIMEOUT")
  <2>1. /\ x.st = "wait" /\ tx_complete[b] = "none" /\ cmd[b] = NoCmd /\ Goes(b, y)
        /\ UNCHANGED <<switchVars, complete, cmd, hw_bank, tx_complete>>
    BY <1>3, Zenon DEF Timeout
  <2>2. Goes_on(x, y)
    BY <1>0, AnsweredType, Zenon
  <2>3. cmd[b].st = "none"
    BY <2>1 DEF NoCmd
  <2>4. ErrThreshold = 0
    BY <1>0, <2>1, <2>3, Zenon DEF OnceAt, Reliable
  <2>5. x.by # "io" => OneChunk(y) /\ (Acked(b) <=> y.chunk = 1 /\ y.ret = "OK")
    <3> SUFFICES ASSUME x.by # "io"
                 PROVE  OneChunk(y) /\ (Acked(b) <=> y.chunk = 1 /\ y.ret = "OK")
      BY Zenon
    <3>1. y.st = "send" /\ y.chunk = 1 /\ y.ret = "TIMEOUT" /\ OneChunk(y)
      BY <1>0, <1>a, <2>1, <2>4, SwitchAnswered, Zenon
    <3> HIDE DEF y
    <3> QED  BY <2>1, <2>3, <3>1, Zenon DEF Acked
  <2> HIDE DEF y
  <2> QED  BY <2>1, <2>2, <2>3, <2>5, GoesKeeps, Zenon
<1> QED  BY <1>1, <1>2, <1>3, Zenon

LEMMA IrqKeeps ==
  ASSUME Types, SInv, BInv, NEW b \in Bus, RxIrq(b)
  PROVE  BusInv(b)'
<1>0. PathType /\ BusInv(b) /\ cmd[b] \in CmdType
  BY Zenon DEF Types, BInv, PathType
<1>1. /\ UNCHANGED <<pc, at, master_list, curr_bank, hw_bank, xfer>> /\ cmd[b].st = "run"
      /\ cmd'[b] = NoCmd /\ (complete'[b] <=> complete[b] \/ defer[b])
      /\ tx_complete'[b] = IF defer[b] THEN tx_complete[b] ELSE cmd[b].code
  BY <1>0, Zenon DEF RxIrq, switchVars, PathType
<1>2. cmd'[b].st = "none"
  BY <1>1 DEF NoCmd
<1>3. CallerAt(b)'
  BY <1>0, <1>1, Zenon DEF BusInv, CallerAt, Link
<1>4. CASE defer[b]
  <2>1. Deferred(b) /\ xfer[b].by = "io"
    BY <1>1, <1>4, PendingIo, Zenon DEF SInv, Answering, Deferred, Pending
  <2>2. xfer[b].st # "wait"
    <3>1. \A s \in Stream : xfer[b].st = "wait" /\ msg_lock[b] = s => ~Multi(s)
      BY Zenon DEF SInv, PathHeld
    <3> QED  BY <1>4, <3>1, Zenon DEF SInv, Owned, Pending
  <2>3. OnceAt(b)'
    BY <1>0, <1>1, <1>2, <1>4, <2>2, Zenon DEF BusInv, OnceAt
  <2>4. KnownAt(b)'
    BY <1>0, <1>1, <1>4, <2>1, Zenon DEF BusInv, KnownAt, Moved
  <2> QED  BY <1>3, <2>3, <2>4, Zenon DEF BusInv
<1>5. CASE ~defer[b]
  <2>1. cmd[b].by = "xfer" /\ ~Deferred(b)
    BY <1>0, <1>1, <1>5, Zenon DEF SInv, Answering, CmdType, Deferred
  <2>2. xfer[b].st = "wait" /\ tx_complete[b] = "none"
    BY <1>0, <1>1, <2>1, Zenon DEF BusInv, OnceAt
  <2>3. cmd[b].code \in Code /\ cmd[b].code # "none" /\ cmd[b].code # "TIMEOUT"
    BY <1>0, <1>1, Zenon DEF CmdType, Code, BusInv, OnceAt
  <2>4. OnceAt(b)'
    BY <1>1, <1>2, <1>5, <2>2, <2>3, Zenon DEF OnceAt
  <2>5. Acked(b)' <=> Acked(b)
    BY <1>1, <1>2, <1>5, <2>2, Zenon DEF Acked
  <2>6. ~Deferred(b)' /\ (complete'[b] <=> complete[b])
    BY <1>1, <1>2, <1>5, Zenon DEF Deferred
  <2>7. KnownAt(b)'
    BY <1>0, <1>1, <2>1, <2>5, <2>6, Zenon DEF BusInv, KnownAt, Moved
  <2> QED  BY <1>3, <2>4, <2>7, Zenon DEF BusInv
<1> QED  BY <1>4, <1>5, Zenon

LEMMA ReturnKeeps ==
  ASSUME Types, SInv, BInv, NEW b \in Bus, Return(b)
  PROVE  BusInv(b)'
<1>0. PathType /\ BusInv(b)
  BY Zenon DEF Types, BInv
<1>1. /\ xfer[b].st = "done" /\ xfer[b].by = "io" /\ xfer'[b] = Idle
      /\ UNCHANGED <<pc, at, master_list, curr_bank, hw_bank, cmd, complete, tx_complete>>
  BY <1>0, Zenon DEF Return, switchVars, PathType
<1>2. Idle.by = "io" /\ Idle.st = "idle"
  BY Zenon DEF Idle
<1>3. CallerAt(b)'
  BY <1>1, <1>2, NamesDiffer, Zenon DEF CallerAt
<1>4. OnceAt(b)'
  BY <1>0, <1>1, <1>2, Zenon DEF BusInv, OnceAt
<1>5. KnownAt(b)'
  BY <1>0, <1>1, <1>2, Zenon DEF BusInv, KnownAt, Moved, Deferred, Acked
<1> QED  BY <1>3, <1>4, <1>5, Zenon DEF BusInv

LEMMA BusStepBanks ==
  ASSUME Types, SInv, BInv, Reliable, NEW b \in Bus, BusStep(b)
  PROVE  BInv'
<1>0. PathType /\ LinkType
  BY Zenon DEF Types
<1>1. UNCHANGED <<pc, at, master_list, curr_bank>>
  BY Zenon DEF BusStep, Io, Send, EndAttempt, Wake, Timeout, RxIrq, Return, switchVars
<1>2. \A c \in Bus \ {b} : /\ xfer'[c] = xfer[c] /\ cmd'[c] = cmd[c]
                           /\ tx_complete'[c] = tx_complete[c]
                           /\ complete'[c] = complete[c] /\ hw_bank'[c] = hw_bank[c]
  <2>1. CASE \E n \in 1 .. MaxLen, page \in BOOLEAN : Io(b, n, page)
    BY <1>0, <2>1, Zenon DEF Io, sdw_transfer, PathType
  <2>2. CASE Send(b)
    BY <1>0, <2>2, Zenon DEF Send, PathType, LinkType
  <2>3. CASE EndAttempt(b) \/ Wake(b) \/ Timeout(b)
    BY <1>0, <2>3, Zenon DEF EndAttempt, Wake, Timeout, Goes, PathType
  <2>4. CASE RxIrq(b) \/ Return(b)
    BY <1>0, <2>4, Zenon DEF RxIrq, Return, PathType
  <2> QED  BY <2>1, <2>2, <2>3, <2>4, Zenon DEF BusStep
<1>3. \A c \in Bus \ {b} : BusInv(c)'
  <2> TAKE c \in Bus \ {b}
  <2>1. BusInv(c)
    BY Zenon DEF BInv
  <2> QED  BY <1>1, <1>2, <2>1, Elsewhere, Zenon
<1>4. BusInv(b)'
  BY IoKeeps, SendKeeps, AttemptKeeps, IrqKeeps, ReturnKeeps, Zenon DEF BusStep
<1> QED  BY <1>3, <1>4, Zenon DEF BInv

-------------------------------------------------------------------------------
(* Steps of a stream call keep it *)

\* A bus of which a step of a stream call changes nothing, unless the call
\* waits for its transfer.
LEMMA OtherBus ==
  ASSUME BInv, NEW s \in Stream, Frame(s), NEW b \in Bus,
         pc[s] # "wait" \/ Link(s) # b,
         xfer'[b] = xfer[b], cmd'[b] = cmd[b], tx_complete'[b] = tx_complete[b],
         complete'[b] = complete[b], curr_bank'[b] = curr_bank[b],
         hw_bank'[b] = hw_bank[b]
  PROVE  BusInv(b)'
<1>1. BusInv(b)
  BY Zenon DEF BInv
<1>2. ASSUME NEW t \in Stream, xfer[b].by = t PROVE pc'[t] = pc[t] /\ at'[t] = at[t]
  <2>1. pc[t] = "wait" /\ Link(t) = b
    BY <1>1, <1>2, Zenon DEF BusInv, CallerAt
  <2>2. t # s
    BY <2>1, Zenon
  <2> QED  BY <2>2, Zenon DEF Frame
<1>3. UNCHANGED master_list
  BY Zenon DEF Frame
<1> QED  BY <1>1, <1>2, <1>3, Elsewhere, Zenon

LEMMA QuietKeeps ==
  ASSUME Types, BInv, NEW s \in Stream, StreamStep(s), pc[s] # "wait",
         UNCHANGED <<xfer, cmd, tx_complete, complete, curr_bank, hw_bank>>
  PROVE  BInv'
<1>1. Frame(s)
  BY StreamStepFrame, Zenon DEF Types
<1> QED  BY <1>1, OtherBus, Zenon DEF BInv

\* A link to which the call gets in "switch" has no message pending and no
\* transfer of a bank switch.
LEMMA SwitchClear ==
  ASSUME Types, SInv, BInv, NEW s \in Stream, pc[s] = "switch"
  PROVE  LET b == Link(s)
         IN  b \in Bus /\ ~Pending(b) /\ xfer[b].by = "io" /\ ~Moved(b)
<1> DEFINE b == Link(s)
<1>1. b \in Bus /\ b \in Claimed(s) /\ b \notin Out(s) /\ ThreadType
  BY LinkInBus, Walk, Zenon DEF Types, Claimed, Out
<1>2. ~Pending(b)
  BY <1>1, NotPending, Zenon
<1>3. xfer[b].by = "io"
  <2> SUFFICES ASSUME xfer[b].by # "io" PROVE FALSE
    BY Zenon
  <2> DEFINE t == xfer[b].by
  <2>1. t \in Stream /\ pc[t] = "wait" /\ Link(t) = b
    BY <1>1, Caller, Zenon
  <2> HIDE DEF t
  <2>2. b \in Claimed(t)
    BY <1>1, <2>1, LinkInBus, Zenon DEF Claimed
  <2>3. t = s
    BY <1>1, <2>1, <2>2, ClaimedApart, Zenon DEF SInv
  <2> QED  BY <2>1, <2>3, Zenon
<1> HIDE DEF b
<1>4. ~Moved(b)
  BY <1>1, <1>2, <1>3, Zenon DEF Moved, Deferred, Acked, Pending, SInv, Answering
<1> QED  BY <1>1, <1>2, <1>3, <1>4, Zenon DEF b

LEMMA DeferKeeps ==
  ASSUME Types, SInv, BInv, Reliable, NEW s \in Stream, sdw_bank_switch_defer(s)
  PROVE  BInv'
<1>p. PICK l \in Bus : l = Link(s)
  BY LinkInBus, Zenon DEF Types
<1>0. PathType /\ LinkType /\ Frame(s)
  BY StreamStepFrame, Zenon DEF Types, StreamStep
<1>1. pc[s] = "switch" /\ Multi(s) /\ UNCHANGED <<xfer, tx_complete, curr_bank>>
      /\ complete' = [complete EXCEPT ![l] = FALSE]
  BY <1>p, Zenon DEF sdw_bank_switch_defer, pathVars
<1>2. l \in Bus /\ ~Pending(l) /\ xfer[l].by = "io" /\ ~Moved(l) /\ BusInv(l)
  BY <1>1, <1>p, SwitchClear, Zenon DEF BInv
<1>3. PICK c : /\ cmd' = [cmd EXCEPT ![l] = c]
               /\ \/ c.st # "run" /\ hw_bank' = hw_bank
                  \/ /\ c.st = "run" /\ c.by = "defer" /\ c.code # "TIMEOUT"
                     /\ hw_bank' = [hw_bank EXCEPT ![l] = 1 - hw_bank[l]]
  <2>1. CASE l \in cmdsync
    BY <1>p, <2>1, RunIs, Zenon DEF sdw_bank_switch_defer
  <2>2. CASE l \notin cmdsync
    <3>1. PICK code \in SwitchAnswers :
             /\ cmd' = [cmd EXCEPT ![l] = Run("defer", code)]
             /\ hw_bank' = IF code = "OK" THEN [hw_bank EXCEPT ![l] = 1 - hw_bank[l]]
                                          ELSE hw_bank
      BY <1>p, <2>2, Zenon DEF sdw_bank_switch_defer
    <3>2. code = "OK" \/ code = "TIMEOUT"
      BY <3>1, AnswerKinds, Zenon DEF Reliable
    <3>3. CASE code = "OK"
      <4>1. Run("defer", code).st = "run" /\ Run("defer", code).by = "defer"
            /\ Run("defer", code).code # "TIMEOUT"
        BY <3>3, RunIs
      <4> QED  BY <3>1, <3>3, <4>1, Zenon
    <3>4. CASE code = "TIMEOUT"
      <4>1. Run("defer", code).st # "run"
        BY <3>4, RunIs, Zenon
      <4>2. hw_bank' = hw_bank
        BY <3>1, <3>4, Zenon
      <4> QED  BY <3>1, <4>1, <4>2, Zenon
    <3> QED  BY <3>2, <3>3, <3>4, Zenon
  <2> QED  BY <2>1, <2>2, Zenon
<1>4. /\ cmd'[l] = c /\ ~complete'[l]
      /\ \A b \in Bus \ {l} : /\ cmd'[b] = cmd[b] /\ complete'[b] = complete[b]
                              /\ hw_bank'[b] = hw_bank[b]
  BY <1>0, <1>1, <1>2, <1>3, Zenon DEF PathType, LinkType
<1>5. xfer[l].st # "wait"
  <2>1. msg_lock[l] = s
    BY <1>1, <1>p, Zenon DEF SInv, SwitchHeld
  <2> QED  BY <1>1, <1>2, <2>1, Zenon DEF SInv, PathHeld
<1>6. CallerAt(l)'
  BY <1>1, <1>2, NamesDiffer, Zenon DEF CallerAt
<1>7. OnceAt(l)'
  BY <1>1, <1>2, <1>3, <1>4, <1>5, Zenon DEF BusInv, OnceAt
<1>8. KnownAt(l)'
  <2>1. curr_bank[l] = hw_bank[l] /\ curr_bank[l] \in {0, 1} /\ hw_bank[l] \in {0, 1}
    BY <1>0, <1>2, Zenon DEF BusInv, KnownAt, LinkType
  <2>2. ~Acked(l)'
    BY <1>1, <1>2, Zenon DEF Acked
  <2>3. Moved(l)' <=> c.st = "run" /\ c.by = "defer"
    BY <1>4, <2>2, Zenon DEF Moved, Deferred
  <2>4. hw_bank'[l] = IF c.st = "run" THEN 1 - hw_bank[l] ELSE hw_bank[l]
    BY <1>0, <1>2, <1>3, Zenon DEF LinkType
  <2> QED  BY <1>1, <1>3, <2>1, <2>3, <2>4, Flip, Zenon DEF KnownAt
<1>9. \A b \in Bus \ {l} : BusInv(b)'
  BY <1>0, <1>1, <1>4, OtherBus, Zenon
<1> QED  BY <1>6, <1>7, <1>8, <1>9, Zenon DEF BInv, BusInv

LEMMA TransferKeeps ==
  ASSUME Types, SInv, BInv, NEW s \in Stream, sdw_bank_switch_transfer(s)
  PROVE  BInv'
<1>p. PICK l \in Bus : l = Link(s)
  BY LinkInBus, Zenon DEF Types
<1>0. PathType /\ LinkType /\ ThreadType /\ Frame(s)
  BY StreamStepFrame, Zenon DEF Types, StreamStep
<1>1. /\ pc[s] = "switch" /\ pc'[s] = "wait" /\ msg_lock[l] = NoOne
      /\ sdw_transfer(l, s, 1, FALSE)
      /\ UNCHANGED <<at, master_list, cmd, tx_complete, complete, curr_bank, hw_bank>>
  BY <1>0, <1>p, Zenon DEF sdw_bank_switch_transfer, sdw_transfer, pathVars, ThreadType
<1>2. l \in Bus /\ ~Pending(l) /\ xfer[l].by = "io" /\ ~Moved(l) /\ BusInv(l)
  BY <1>1, <1>p, SwitchClear, Zenon DEF BInv
<1>3. PICK x : /\ xfer' = [xfer EXCEPT ![l] = x]
               /\ x.by = s /\ x.st = "send" /\ x.chunk = 0 /\ OneChunk(x)
  <2>0. PICK page : page = FALSE /\ sdw_transfer(l, s, 1, page)
    BY <1>1, Zenon
  <2>1. PICK x : /\ xfer' = [xfer EXCEPT ![l] = x]
                 /\ x.by = s /\ x.st = "send" /\ x.chunk = 0 /\ x.len = 1
                 /\ x.page = page /\ x.stage = FirstStage(x)
    BY <2>0, Starts
  <2>2. OneChunk(x)
    BY <2>0, <2>1, Zenon DEF OneChunk, FirstStage
  <2> QED  BY <2>1, <2>2, Zenon
<1>a. Link(s)' = l
  BY <1>1, <1>p, Zenon DEF Link
<1>4. xfer'[l] = x /\ \A b \in Bus \ {l} : xfer'[b] = xfer[b]
  BY <1>0, <1>2, <1>3, Zenon DEF PathType
<1>5. xfer[l].st # "wait"
  BY <1>1, <1>2, NamesDiffer, Zenon DEF SInv, PathHeld
<1>6. CallerAt(l)'
  BY <1>1, <1>3, <1>4, <1>a, Zenon DEF CallerAt
<1>7. OnceAt(l)'
  BY <1>1, <1>2, <1>3, <1>4, <1>5, Zenon DEF BusInv, OnceAt
<1>8. KnownAt(l)'
  <2>1. ~Acked(l)'
    BY <1>3, <1>4 DEF Acked
  <2> QED  BY <1>1, <1>2, <2>1, Zenon DEF BusInv, KnownAt, Moved, Deferred
<1>9. \A b \in Bus \ {l} : BusInv(b)'
  BY <1>0, <1>1, <1>4, OtherBus, Zenon
<1> QED  BY <1>6, <1>7, <1>8, <1>9, Zenon DEF BInv, BusInv

LEMMA DoneKeeps ==
  ASSUME Types, SInv, BInv, NEW s \in Stream, sdw_bank_switch_done(s)
  PROVE  BInv'
<1>p. PICK l \in Bus : l = Link(s)
  BY LinkInBus, Zenon DEF Types
<1>0. PathType /\ LinkType /\ Frame(s) /\ BusInv(l)
  BY StreamStepFrame, Zenon DEF Types, StreamStep, BInv
<1>1. /\ xfer[l].st = "done" /\ xfer[l].by = s
      /\ UNCHANGED <<master_list, cmd, tx_complete, complete, hw_bank>>
      /\ xfer' = [xfer EXCEPT ![l] = Idle]
      /\ curr_bank' = IF xfer[l].ret = "OK" THEN [curr_bank EXCEPT ![l] = 1 - curr_bank[l]]
                                            ELSE curr_bank
  BY <1>p, Zenon DEF sdw_bank_switch_done, pathVars
<1>2. ~Pending(l) /\ xfer[l].chunk = 1 /\ xfer[l].by # "io"
  <2>1. xfer[l].by # "io"
    BY <1>1, NamesDiffer, Zenon
  <2> QED  BY <1>1, <2>1, PendingIo, Caller, Zenon DEF OneChunk
<1>3. /\ xfer'[l] = Idle /\ Idle.by = "io" /\ Idle.st = "idle"
      /\ \A b \in Bus \ {l} : xfer'[b] = xfer[b] /\ curr_bank'[b] = curr_bank[b]
  BY <1>0, <1>1, Zenon DEF PathType, LinkType, Idle
<1>4. CallerAt(l)'
  BY <1>3, NamesDiffer, Zenon DEF CallerAt
<1>5. OnceAt(l)'
  BY <1>0, <1>1, <1>3, Zenon DEF BusInv, OnceAt
<1>6. KnownAt(l)'
  <2>1. ~complete[l] /\ ~Deferred(l)
    BY <1>2, Zenon DEF Pending, Deferred, SInv, Answering
  <2>2. curr_bank[l] # hw_bank[l] <=> xfer[l].ret = "OK"
    BY <1>0, <1>1, <1>2, <2>1, Zenon DEF BusInv, KnownAt, Moved, Acked
  <2>3. ~Moved(l)'
    BY <1>1, <1>3, <2>1, Zenon DEF Moved, Deferred, Acked
  <2>4. curr_bank[l] \in {0, 1} /\ hw_bank[l] \in {0, 1}
        /\ curr_bank'[l] = IF xfer[l].ret = "OK" THEN 1 - curr_bank[l] ELSE curr_bank[l]
    BY <1>0, <1>1, Zenon DEF LinkType
  <2> QED  BY <1>1, <2>2, <2>3, <2>4 DEF KnownAt
<1>7. \A b \in Bus \ {l} : BusInv(b)'
  BY <1>0, <1>1, <1>3, <1>p, OtherBus, Zenon
<1> QED  BY <1>4, <1>5, <1>6, <1>7, Zenon DEF BInv, BusInv

\* SYNCGO: every link that holds a command executes it.
LEMMA SyncGoBus ==
  ASSUME Types, Reliable, SyncGo, NEW b \in Bus
  PROVE  \/ cmd'[b] = cmd[b] /\ hw_bank'[b] = hw_bank[b]
         \/ /\ cmd[b].st = "held" /\ cmd'[b].st = "none" /\ hw_bank'[b] = hw_bank[b]
         \/ /\ cmd[b].st = "held" /\ hw_bank'[b] = 1 - hw_bank[b]
            /\ cmd'[b].st = "run" /\ cmd'[b].by = "defer" /\ cmd'[b].code # "TIMEOUT"
<1>1. PICK f \in [cmdsync -> SwitchAnswers] :
        /\ cmd' = [c \in Bus |-> IF c \in cmdsync /\ cmd[c].st = "held"
                                 THEN Run("defer", f[c]) ELSE cmd[c]]
        /\ hw_bank' = [c \in Bus |-> IF (c \in cmdsync /\ cmd[c].st = "held") /\ f[c] = "OK"
                                     THEN 1 - hw_bank[c] ELSE hw_bank[c]]
  BY DEF SyncGo
<1>2. CASE ~(b \in cmdsync /\ cmd[b].st = "held")
  BY <1>1, <1>2, Zenon
<1>3. CASE b \in cmdsync /\ cmd[b].st = "held"
  <2>1. f[b] = "OK" \/ f[b] = "TIMEOUT"
    BY <1>1, <1>3, AnswerKinds, Zenon DEF Reliable
  <2>2. cmd'[b] = Run("defer", f[b])
        /\ hw_bank'[b] = IF f[b] = "OK" THEN 1 - hw_bank[b] ELSE hw_bank[b]
    BY <1>1, <1>3, Zenon
  <2> QED  BY <1>3, <2>1, <2>2, RunIs
<1> QED  BY <1>2, <1>3, Zenon

\* A command that SYNCGO lets go: the link moves, or the answer is lost.
LEMMA LetGo ==
  ASSUME Types, SInv, BInv, SyncGo, NEW b \in Bus, cmd[b].st = "held",
         UNCHANGED <<master_list, xfer, tx_complete, complete, curr_bank>>,
         \/ cmd'[b].st = "none" /\ hw_bank'[b] = hw_bank[b]
         \/ /\ hw_bank'[b] = 1 - hw_bank[b]
            /\ cmd'[b].st = "run" /\ cmd'[b].by = "defer" /\ cmd'[b].code # "TIMEOUT"
  PROVE  BusInv(b)'
<1>0. LinkType
  BY Zenon DEF Types
<1>1. BusInv(b) /\ defer[b] /\ ~complete[b] /\ Pending(b)
  BY Zenon DEF BInv, SInv, Answering, Pending
<1>2. xfer[b].by = "io" /\ xfer[b].st # "wait"
  <2>1. \A t \in Stream : xfer[b].st = "wait" /\ msg_lock[b] = t => ~Multi(t)
    BY Zenon DEF SInv, PathHeld
  <2> QED  BY <1>1, <2>1, PendingIo, Zenon DEF SInv, Owned
<1>3. CallerAt(b)'
  BY <1>2, NamesDiffer, Zenon DEF CallerAt
<1>4. OnceAt(b)'
  BY <1>1, <1>2, Zenon DEF BusInv, OnceAt
<1>5. ~Moved(b) /\ (Moved(b)' <=> cmd'[b].st = "run")
  BY <1>1, <1>2, Zenon DEF Moved, Deferred, Acked
<1>6. curr_bank[b] \in {0, 1} /\ hw_bank[b] \in {0, 1} /\ curr_bank[b] = hw_bank[b]
  BY <1>0, <1>1, <1>5, Zenon DEF LinkType, BusInv, KnownAt
<1>7. KnownAt(b)'
  BY <1>5, <1>6, Flip, Zenon DEF KnownAt
<1> QED  BY <1>3, <1>4, <1>7, Zenon DEF BusInv

LEMMA PostKeeps ==
  ASSUME Types, SInv, BInv, Reliable, NEW s \in Stream,
         intel_post_bank_switch(s) \/ intel_post_bank_switch_err(s)
  PROVE  BInv'
<1>0. PathType /\ LinkType /\ ThreadType /\ Frame(s)
  BY StreamStepFrame, Zenon DEF Types, StreamStep
<1>1. /\ UNCHANGED <<master_list, xfer, tx_complete, complete, curr_bank>>
      /\ SyncGo \/ UNCHANGED <<cmd, hw_bank, cmdsync>>
      /\ pc[s] = "post"
  BY Zenon DEF intel_post_bank_switch, intel_post_bank_switch_err, pathVars
<1> SUFFICES ASSUME NEW b \in Bus PROVE BusInv(b)'
  BY Zenon DEF BInv
<1>2. CASE cmd'[b] = cmd[b] /\ hw_bank'[b] = hw_bank[b]
  BY <1>0, <1>1, <1>2, OtherBus, Zenon
<1>3. CASE SyncGo
  BY <1>1, <1>2, <1>3, SyncGoBus, LetGo, Zenon
<1> QED  BY <1>1, <1>2, <1>3, Zenon

LEMMA StartKeeps ==
  ASSUME Types, SInv, BInv, Reliable, NEW l \in Bus, intel_shim_sync_go(l)
  PROVE  BInv'
<1>1. /\ UNCHANGED <<pc, at, master_list, xfer, tx_complete, complete, curr_bank>>
      /\ SyncGo
  BY Zenon DEF intel_shim_sync_go, pathVars
<1> SUFFICES ASSUME NEW b \in Bus PROVE BusInv(b)'
  BY Zenon DEF BInv
<1>2. CASE cmd'[b] = cmd[b] /\ hw_bank'[b] = hw_bank[b]
  BY <1>1, <1>2, Elsewhere, Zenon DEF BInv
<1>3. CASE ~(cmd'[b] = cmd[b] /\ hw_bank'[b] = hw_bank[b])
  BY <1>1, <1>3, SyncGoBus, LetGo, Zenon
<1> QED  BY <1>2, <1>3, Zenon

LEMMA SyncKeeps ==
  ASSUME Types, SInv, BInv, NEW s \in Stream, sdw_ml_sync_bank_switch(s)
  PROVE  BInv'
<1>p. PICK l \in Bus : l = Link(s)
  BY LinkInBus, Zenon DEF Types
<1>0. PathType /\ LinkType /\ Frame(s) /\ BusInv(l)
  BY StreamStepFrame, Zenon DEF Types, StreamStep, BInv
<1>1. pc[s] = "sync" /\ UNCHANGED <<master_list, xfer, cmd, tx_complete, hw_bank>>
  BY Zenon DEF sdw_ml_sync_bank_switch, pathVars
<1>2. CASE UNCHANGED <<complete, curr_bank>>
  BY <1>0, <1>1, <1>2, OtherBus, Zenon DEF BInv
<1>3. CASE /\ complete[l] /\ complete' = [complete EXCEPT ![l] = FALSE]
           /\ curr_bank' = [curr_bank EXCEPT ![l] = 1 - curr_bank[l]]
  <2>1. xfer[l].by = "io" /\ ~Deferred(l)
    BY <1>3, PendingIo, Zenon DEF Pending, Deferred, SInv, Answering
  <2>2. CallerAt(l)'
    BY <1>1, <2>1, NamesDiffer, Zenon DEF CallerAt
  <2>3. OnceAt(l)'
    BY <1>0, <1>1, Zenon DEF BusInv, OnceAt
  <2>4. ~Moved(l)' /\ Moved(l)
    BY <1>0, <1>1, <1>3, <2>1, Zenon DEF Moved, Deferred, Acked, PathType
  <2>5. curr_bank[l] \in {0, 1} /\ hw_bank[l] \in {0, 1}
        /\ curr_bank'[l] = 1 - curr_bank[l] /\ curr_bank[l] # hw_bank[l]
    BY <1>0, <1>3, <2>4, Zenon DEF LinkType, BusInv, KnownAt
  <2>6. KnownAt(l)'
    BY <1>1, <2>4, <2>5 DEF KnownAt
  <2>7. \A b \in Bus \ {l} : complete'[b] = complete[b] /\ curr_bank'[b] = curr_bank[b]
    BY <1>0, <1>3, Zenon DEF PathType, LinkType
  <2>8. \A b \in Bus \ {l} : BusInv(b)'
    BY <1>0, <1>1, <2>7, OtherBus, Zenon
  <2> QED  BY <2>2, <2>3, <2>6, <2>8, Zenon DEF BInv, BusInv
<1> QED  BY <1>p, <1>2, <1>3, Zenon DEF sdw_ml_sync_bank_switch

-------------------------------------------------------------------------------
(* The banks stay in step *)

LEMMA InitBanks == Init => BankInv
<1> SUFFICES ASSUME Init, NEW b \in Bus PROVE BusInv(b)
  BY Zenon DEF BankInv, BInv
<1>1. /\ xfer[b] = Idle /\ cmd[b] = NoCmd /\ tx_complete[b] = "none" /\ ~complete[b]
      /\ curr_bank[b] = hw_bank[b]
  BY Zenon DEF Init
<1>2. Idle.by = "io" /\ Idle.st = "idle" /\ NoCmd.st = "none"
  BY Zenon DEF Idle, NoCmd
<1>3. CallerAt(b)
  BY <1>1, <1>2, NamesDiffer, Zenon DEF CallerAt
<1>4. OnceAt(b) /\ KnownAt(b)
  BY <1>1, <1>2, Zenon DEF OnceAt, KnownAt, Moved, Deferred, Acked
<1> QED  BY <1>3, <1>4, Zenon DEF BusInv

LEMMA NextBanks ==
  ASSUME Reliable
  PROVE  IInv /\ BankInv /\ [Next]_vars => BankInv'
<1> SUFFICES ASSUME IInv, BankInv, [Next]_vars PROVE BankInv'
  BY Zenon
<1>1. CASE UNCHANGED vars
  <2>1. ASSUME NEW b \in Bus, BusInv(b) PROVE BusInv(b)'
    BY <1>1, <2>1, Elsewhere, Zenon DEF vars
  <2> QED  BY <1>1, <2>1, Zenon DEF BankInv, BInv, vars
<1>2. ASSUME NEW b \in Bus, ~failed, BusStep(b) PROVE BInv'
  BY <1>2, BusStepBanks, Zenon DEF IInv, BankInv
<1>3. ASSUME NEW s \in Stream, ~failed, StreamStep(s) PROVE failed' \/ BInv'
  <2>0. Types /\ SInv /\ BInv
    BY <1>3, Zenon DEF IInv, BankInv
  <2>1. CASE do_bank_switch_err(s)
    BY <2>1, Zenon DEF do_bank_switch_err
  <2>2. CASE Call(s) \/ sdw_acquire_bus_lock(s) \/ intel_pre_bank_switch(s)
             \/ sdw_bank_switch_nomem(s) \/ sdw_ml_sync_bank_switch_err(s)
    <3>1. pc[s] # "wait"
      BY <2>2, Zenon DEF Call, sdw_acquire_bus_lock, intel_pre_bank_switch,
         sdw_bank_switch_nomem, sdw_ml_sync_bank_switch_err
    <3>2. UNCHANGED <<xfer, cmd, tx_complete, complete, curr_bank, hw_bank>>
      BY <2>2, Zenon DEF Call, sdw_acquire_bus_lock, intel_pre_bank_switch,
         sdw_bank_switch_nomem, sdw_ml_sync_bank_switch_err, pathVars
    <3> QED  BY <1>3, <2>0, <3>1, <3>2, QuietKeeps, Zenon
  <2> QED
    BY Zenon, <1>3, <2>0, <2>1, <2>2, DeferKeeps, TransferKeeps, DoneKeeps, PostKeeps,
       SyncKeeps, Zenon DEF StreamStep
<1>4. ASSUME NEW b \in Bus, ~failed, intel_shim_sync_go(b) PROVE BInv'
  BY <1>4, StartKeeps, Zenon DEF IInv, BankInv
<1> QED  BY <1>1, <1>2, <1>3, <1>4, Zenon DEF BankInv, Next, Undefined

LEMMA BanksKnown == BankInv /\ IInv => BankInStep
<1> SUFFICES ASSUME BInv, SInv, Types, NEW b \in Bus, bus_lock[b] = NoOne
             PROVE  curr_bank[b] = hw_bank[b]
  BY Zenon DEF BankInv, IInv, BankInStep
<1>1. \A s \in Stream : b \notin Claimed(s)
  BY NamesDiffer, Zenon DEF SInv, LocksHeld
<1>2. ~Pending(b)
  BY <1>1, OutClaimed, Zenon DEF SInv, Owned, Types
<1>3. xfer[b].by = "io"
  <2> SUFFICES ASSUME xfer[b].by # "io" PROVE FALSE
    BY Zenon
  <2>1. PICK s \in Stream : pc[s] = "wait" /\ Link(s) = b
    BY Caller, Zenon
  <2> QED  BY <1>1, <2>1, LinkInBus, Zenon DEF Claimed, Types
<1>4. ~Moved(b)
  BY <1>2, <1>3, Zenon DEF Moved, Deferred, Acked, Pending, SInv, Answering
<1> QED  BY <1>4, Zenon DEF BInv, BusInv, KnownAt

\* Whenever no bank switch is under way on a bus, bus->params.curr_bank is the
\* bank the link runs from, whatever was refused, lost or timed out before, as
\* long as no bank switch took its error path.  The hypothesis is what
\* sdw_bank_switch and the interrupt leave unchecked: the answer to a deferred
\* command, and the length that a retry after a timeout finds zeroed (Intel
\* sets err_threshold to 0).
THEOREM BanksInStep ==
  ASSUME Reliable
  PROVE  Spec => []BankInStep
<1>1. IInv /\ BankInv /\ [Next]_vars => BankInv'
  BY NextBanks
<1> QED  BY <1>1, InitBanks, BanksKnown, AlwaysIInv, PTL DEF Spec

-------------------------------------------------------------------------------
(* The links of a stream are triggered together *)

\* A call that has all its bus_locks, and a stream of more than one link.
Past(s) == pc[s] \notin {"idle", "acquire"}
Long(s) == Len(master_list[s]) > 1

\* Before SYNCGO every link the call is done with is armed and holds its
\* command; after it none of its links holds one.
Ready(b) == b \in cmdsync /\ cmd[b].st = "held"
Armed(s) ==
  /\ pc[s] # "wait"
  /\ pc[s] = "switch" => Link(s) \in cmdsync
  /\ pc[s] \in {"pre", "switch"} => \A b \in Behind(s) : Ready(b)
  /\ pc[s] = "post" /\ at[s] = 1 => \A b \in Links(s) : Ready(b)
  /\ pc[s] = "sync" \/ (pc[s] = "post" /\ at[s] # 1)
       => \A b \in Links(s) : cmd[b].st # "held"

\* sdw_stream_add_master refuses a second master without multi_link.
OneLink == multi_link \/ \A s \in Stream : ~Long(s)
Waits == \A b \in Bus, s \in Stream : xfer[b].by = s => pc[s] = "wait" /\ Link(s) = b
Arming == \A s \in Stream : Past(s) /\ Long(s) => Armed(s)

TInv == Waits /\ Arming
TogetherInv == OneLink /\ (failed \/ TInv)

\* Streams of several links are synchronized by hardware, and share a link with
\* every other stream: the SYNC register is not covered by their locks.  Links
\* may start only if such a stream leaves none that could.
OneGroup ==
  /\ \A l \in MasterLists : Len(l) > 1 => Len(l) >= HwSyncMinLinks
  /\ \A l, m \in MasterLists : Len(l) > 1 =>
       \E i \in DOMAIN l, j \in DOMAIN m : l[i] = m[j]
  /\ "start" \in Faults =>
       \A l \in MasterLists : Len(l) > 1 => \A b \in Bus : \E i \in DOMAIN l : l[i] = b

\* The locks of a call with several links keep all the others waiting.
LEMMA LongAlone ==
  ASSUME Types, SInv, OneLink, OneGroup, NEW s \in Stream, Past(s), Long(s)
  PROVE  Multi(s) /\ multi_link /\ \A t \in Stream : Past(t) => t = s
<1>0. \A t \in Stream : master_list[t] \in MasterLists
  BY Zenon DEF Types, ThreadType
<1>1. Multi(s) /\ multi_link
  BY <1>0, Zenon DEF Multi, OneLink, OneGroup, Long
<1>2. ASSUME NEW t \in Stream, Past(t) PROVE t = s
  <2>1. PICK b : b \in Links(s) /\ b \in Links(t)
    <3> DEFINE l == master_list[s]  m == master_list[t]
    <3>1. l \in MasterLists /\ m \in MasterLists /\ Len(l) > 1
      BY <1>0, Zenon DEF Long
    <3>2. PICK i \in DOMAIN l, j \in DOMAIN m : l[i] = m[j]
      BY <3>1, Zenon DEF OneGroup
    <3> QED  BY <3>2, Zenon DEF Links
  <2>2. b \in Claimed(s) /\ b \in Claimed(t)
    BY <1>2, <2>1, Zenon DEF Claimed, Past
  <2> QED  BY <2>2, ClaimedApart, Zenon DEF SInv
<1> QED  BY <1>1, <1>2, Zenon

LEMMA RunNotHeld == \A by, code : Run(by, code).st # "held"
BY Zenon DEF Run, NoCmd

\* An answer, and a command of a transfer, concern no command that is held.
LEMMA BusStepHolds ==
  ASSUME Types, SInv, NEW b \in Bus, BusStep(b)
  PROVE  /\ \A c \in Bus : cmd'[c].st = "held" <=> cmd[c].st = "held"
         /\ \A c \in Bus : hw_bank'[c] # hw_bank[c] => xfer[c].by # "io"
         /\ \A c \in Bus : xfer'[c].by = xfer[c].by \/ xfer'[c].by = "io"
<1>0. PathType /\ LinkType
  BY Zenon DEF Types
<1>1. CASE \E n \in 1 .. MaxLen, page \in BOOLEAN : Io(b, n, page)
  <2> PICK n \in 1 .. MaxLen, page \in BOOLEAN : Io(b, n, page)
    BY <1>1, Zenon
  <2>1. \E x : xfer' = [xfer EXCEPT ![b] = x] /\ x.by = "io"
    BY StartedBy, Zenon DEF Io
  <2>2. \A c \in Bus : xfer'[c].by = xfer[c].by \/ xfer'[c].by = "io"
    BY <1>0, <2>1, Zenon DEF PathType
  <2>3. UNCHANGED <<cmd, hw_bank>>
    BY Zenon DEF Io
  <2> QED  BY <2>2, <2>3, Zenon
<1>2. CASE Send(b)
  <2>1. cmd[b].st # "held"
    <3>1. \A s \in Stream : msg_lock[b] = s => ~Multi(s)
      BY <1>2, Zenon DEF Send, SInv, PathHeld
    <3> QED  BY <3>1, Zenon DEF SInv, Owned, Pending, Answering
  <2>2. PICK code : cmd' = [cmd EXCEPT ![b] = Run("xfer", code)]
    BY <1>2, Zenon DEF Send
  <2>3. hw_bank' = hw_bank \/ (xfer[b].by # "io" /\ \E v : hw_bank' = [hw_bank EXCEPT ![b] = v])
    BY <1>2, Zenon DEF Send
  <2>4. \A c \in Bus : xfer'[c].by = xfer[c].by
    <3>1. xfer[b] \in XferType
      BY <1>0, Zenon DEF PathType
    <3> QED  BY <1>0, <1>2, <3>1, Zenon DEF Send, PathType, XferType
  <2>5. \A c \in Bus : cmd'[c].st = "held" <=> cmd[c].st = "held"
    <3>1. cmd'[b] = Run("xfer", code) /\ \A c \in Bus \ {b} : cmd'[c] = cmd[c]
      BY <1>0, <2>2, Zenon DEF PathType
    <3> QED  BY <2>1, <3>1, RunNotHeld, Zenon
  <2>6. \A c \in Bus : hw_bank'[c] # hw_bank[c] => xfer[c].by # "io"
    BY <1>0, <2>3, Zenon DEF LinkType
  <2> QED  BY <2>4, <2>5, <2>6, Zenon
<1>3. CASE EndAttempt(b) \/ Wake(b) \/ Timeout(b)
  <2>1. PICK x : Goes_on(xfer[b], x) /\ Goes(b, x)
    <3>1. xfer[b] \in XferType /\ xfer[b].ret \in Code /\ "TIMEOUT" \in Code
      BY <1>0, Zenon DEF PathType, XferType, Code
    <3>2. tx_complete[b] # "none" => tx_complete[b] \in Code
      BY <1>0, Zenon DEF PathType
    <3> QED  BY <1>3, <3>1, <3>2, AttemptEnds, AnsweredType, Zenon DEF EndAttempt, Wake, Timeout
  <2>2. \A c \in Bus : xfer'[c].by = xfer[c].by
    BY <1>0, <2>1, Zenon DEF Goes, Goes_on, PathType
  <2>3. UNCHANGED <<cmd, hw_bank>>
    BY <1>3, Zenon DEF EndAttempt, Wake, Timeout
  <2> QED  BY <2>2, <2>3, Zenon
<1>4. CASE RxIrq(b)
  <2>1. cmd[b].st = "run" /\ cmd' = [cmd EXCEPT ![b] = NoCmd] /\ UNCHANGED <<xfer, hw_bank>>
    BY <1>4, Zenon DEF RxIrq
  <2>2. NoCmd.st = "none"
    BY Zenon DEF NoCmd
  <2> QED  BY <1>0, <2>1, <2>2, Zenon DEF PathType
<1>5. CASE Return(b)
  <2>1. xfer' = [xfer EXCEPT ![b] = Idle] /\ UNCHANGED <<cmd, hw_bank>>
    BY <1>5, Zenon DEF Return
  <2>2. Idle.by = "io"
    BY Zenon DEF Idle
  <2> QED  BY <1>0, <2>1, <2>2, Zenon DEF PathType
<1> QED  BY <1>1, <1>2, <1>3, <1>4, <1>5, Zenon DEF BusStep

LEMMA BusStepTogether ==
  ASSUME Types, SInv, TInv, NEW b \in Bus, BusStep(b)
  PROVE  TInv'
<1>1. UNCHANGED <<master_list, pc, at, cmdsync>>
  BY Zenon DEF BusStep, Io, Send, EndAttempt, Wake, Timeout, RxIrq, Return, switchVars
<1>2. Waits'
  <2>1. \A c \in Bus, s \in Stream : xfer'[c].by = s => xfer[c].by = s
    BY BusStepHolds, NamesDiffer, Zenon
  <2>2. \A s \in Stream : pc'[s] = pc[s] /\ Link(s)' = Link(s)
    BY <1>1, Zenon DEF Link
  <2> QED  BY <2>1, <2>2, Zenon DEF TInv, Waits
<1>3. ASSUME NEW s \in Stream, Past(s)', Long(s)' PROVE Armed(s)'
  <2>1. Armed(s)
    BY <1>1, <1>3, Zenon DEF TInv, Arming, Past, Long
  <2>2. Links(s)' = Links(s) /\ Behind(s)' = Behind(s) /\ Link(s)' = Link(s)
    BY <1>1, Zenon DEF Links, Behind, Link
  <2>3. Links(s) \subseteq Bus /\ Behind(s) \subseteq Bus
    BY LinkInBus, Walk, Zenon DEF Types
  <2>4. \A c \in Bus : /\ Ready(c)' <=> Ready(c)
                       /\ cmd'[c].st = "held" <=> cmd[c].st = "held"
    BY <1>1, BusStepHolds, Zenon DEF Ready
  <2> QED  BY <1>1, <2>1, <2>2, <2>3, <2>4, Zenon DEF Armed
<1> QED  BY <1>2, <1>3, Zenon DEF TInv, Arming

\* The call of a stream that does not have all its locks yet.
LEMMA Waiting ==
  ASSUME NEW s \in Stream, StreamStep(s), ~Past(s)
  PROVE  UNCHANGED <<cmd, cmdsync, hw_bank>> /\ (Call(s) \/ sdw_acquire_bus_lock(s))
<1>1. Call(s) \/ sdw_acquire_bus_lock(s)
  BY Zenon DEF StreamStep, Past, intel_pre_bank_switch, sdw_bank_switch_defer,
     sdw_bank_switch_transfer, sdw_bank_switch_nomem, sdw_bank_switch_done,
     intel_post_bank_switch, intel_post_bank_switch_err, sdw_ml_sync_bank_switch,
     sdw_ml_sync_bank_switch_err, do_bank_switch_err
<1> QED  BY <1>1, Zenon DEF Call, sdw_acquire_bus_lock

LEMMA StreamStepWaits ==
  ASSUME Types, SInv, TInv, NEW s \in Stream, StreamStep(s)
  PROVE  Waits'
<1>0. Frame(s) /\ ThreadType /\ PathType
  BY StreamStepFrame, Zenon DEF Types
<1>p. PICK l \in Bus : l = Link(s)
  BY LinkInBus, Zenon DEF Types
<1>a. \A b \in Bus, t \in Stream : xfer[b].by = t => pc[t] = "wait" /\ Link(t) = b
  BY Zenon DEF TInv, Waits
<1>b. \A t \in Stream \ {s} : pc'[t] = pc[t] /\ Link(t)' = Link(t)
  BY <1>0, FrameSets, Zenon DEF Frame
<1>1. CASE sdw_bank_switch_transfer(s)
  <2>1. pc'[s] = "wait" /\ Link(s)' = l /\ pc[s] = "switch"
    BY <1>0, <1>1, <1>p, Zenon DEF sdw_bank_switch_transfer, pathVars, ThreadType, Link
  <2>2. \E x : xfer' = [xfer EXCEPT ![l] = x] /\ x.by = s
    BY <1>1, <1>p, StartedBy, Zenon DEF sdw_bank_switch_transfer
  <2>3. \A b \in Bus, t \in Stream : xfer'[b].by = t =>
          (b = l /\ t = s) \/ (xfer[b].by = t)
    BY <1>0, <2>2, Zenon DEF PathType
  <2> QED  BY <1>a, <1>b, <2>1, <2>3 DEF Waits
<1>2. CASE sdw_bank_switch_done(s)
  <2>1. xfer' = [xfer EXCEPT ![l] = Idle] /\ pc[s] = "wait"
    BY <1>2, <1>p, Zenon DEF sdw_bank_switch_done
  <2>2. Idle.by = "io"
    BY Zenon DEF Idle
  <2>3. \A b \in Bus, t \in Stream : xfer'[b].by = t => b # l /\ xfer[b].by = t
    BY <1>0, <2>1, <2>2, NamesDiffer, Zenon DEF PathType
  <2> QED  BY <1>a, <1>b, <1>p, <2>3, Zenon DEF Waits
<1>3. CASE pc[s] # "wait" /\ xfer' = xfer
  BY <1>a, <1>b, <1>3, Zenon DEF Waits
<1>4. StreamStep(s) => \/ sdw_bank_switch_transfer(s) \/ sdw_bank_switch_done(s)
                       \/ pc[s] # "wait" /\ xfer' = xfer
  BY Zenon DEF StreamStep, Call, sdw_acquire_bus_lock, intel_pre_bank_switch,
     sdw_bank_switch_defer, sdw_bank_switch_nomem, intel_post_bank_switch,
     intel_post_bank_switch_err, sdw_ml_sync_bank_switch,
     sdw_ml_sync_bank_switch_err, do_bank_switch_err
<1> QED  BY <1>1, <1>2, <1>3, <1>4, Zenon

\* SYNCGO lets go of every command that is held by an armed link.
LEMMA SyncGoReleases ==
  ASSUME SyncGo, NEW b \in Bus
  PROVE  /\ Ready(b) => cmd'[b].st # "held"
         /\ ~Ready(b) => cmd'[b] = cmd[b] /\ hw_bank'[b] = hw_bank[b]
<1>1. PICK f \in [cmdsync -> SwitchAnswers] :
        /\ cmd' = [c \in Bus |-> IF c \in cmdsync /\ cmd[c].st = "held"
                                 THEN Run("defer", f[c]) ELSE cmd[c]]
        /\ hw_bank' = [c \in Bus |-> IF (c \in cmdsync /\ cmd[c].st = "held") /\ f[c] = "OK"
                                     THEN 1 - hw_bank[c] ELSE hw_bank[c]]
  BY DEF SyncGo
<1>2. CASE Ready(b)
  BY <1>1, <1>2, RunNotHeld, Zenon DEF Ready
<1>3. CASE ~Ready(b)
  BY <1>1, <1>3, Zenon DEF Ready
<1> QED  BY <1>2, <1>3, Zenon

LEMMA OwnStepArmed ==
  ASSUME Types, SInv, TInv, OneLink, OneGroup, NEW s \in Stream, StreamStep(s),
         Past(s)', Long(s), ~failed'
  PROVE  Armed(s)'
<1>0. ThreadType /\ Frame(s) /\ Link(s) \in Bus /\ Link(s) \in Links(s)
      /\ LinkType /\ PathType /\ Links(s) \subseteq Bus /\ Behind(s) \subseteq Links(s)
  BY StreamStepFrame, LinkInBus, Walk, Zenon DEF Types
<1>a. Links(s)' = Links(s) /\ UNCHANGED master_list
  BY <1>0, FrameSets, Zenon DEF Frame
<1>b. Past(s) => Armed(s) /\ Multi(s) /\ multi_link
  BY LongAlone, Zenon DEF TInv, Arming
<1>1. CASE Call(s)
  BY <1>0, <1>1, Zenon DEF Call, Past, ThreadType
<1>2. CASE sdw_acquire_bus_lock(s)
  <2>1. Next_m_rt(s, "acquire", "pre")
    BY <1>2, Zenon DEF sdw_acquire_bus_lock
  <2>2. pc'[s] = "pre" /\ at'[s] = 1
    BY <1>0, <1>a, <2>1, Walked, Zenon DEF Past
  <2>3. Behind(s)' = {}
    BY <1>a, <2>2 DEF Behind
  <2> QED  BY <2>2, <2>3, Zenon DEF Armed
<1>3. CASE intel_pre_bank_switch(s)
  <2>1. pc[s] = "pre" /\ pc'[s] = "switch" /\ UNCHANGED <<at, cmd>>
    BY <1>0, <1>3, Zenon DEF intel_pre_bank_switch, ThreadType
  <2>2. cmdsync' = cmdsync \cup {Link(s)} /\ Armed(s)
    BY <1>3, <1>b, <2>1, Zenon DEF intel_pre_bank_switch, Past
  <2>3. Behind(s)' = Behind(s) /\ Link(s)' = Link(s)
    BY <1>a, <2>1, Zenon DEF Behind, Link
  <2> QED  BY <2>1, <2>2, <2>3, Zenon DEF Armed, Ready
<1>4. CASE sdw_bank_switch_defer(s)
  <2>1. pc[s] = "switch" /\ Next_m_rt(s, "pre", "post") /\ UNCHANGED cmdsync
    BY <1>4, Zenon DEF sdw_bank_switch_defer
  <2>2. Armed(s) /\ Link(s) \in cmdsync /\ \A b \in Behind(s) : Ready(b)
    BY <1>b, <2>1, Zenon DEF Past, Armed
  <2>3. cmd' = [cmd EXCEPT ![Link(s)] = Held]
    BY <1>4, <2>2, Zenon DEF sdw_bank_switch_defer
  <2>4. Held.st = "held"
    BY Zenon DEF Held
  <2>5. \A b \in Behind(s) \cup {Link(s)} : Ready(b)'
    BY <1>0, <2>1, <2>2, <2>3, <2>4, Zenon DEF Ready, PathType
  <2>6. CASE IsLast(s)
    <3>1. pc'[s] = "post" /\ at'[s] = 1 /\ Links(s) = Behind(s) \cup {Link(s)}
      BY <1>0, <1>a, <2>1, <2>6, Walked, Walk, Zenon
    <3> QED  BY <1>a, <2>5, <3>1, Zenon DEF Armed
  <2>7. CASE ~IsLast(s)
    <3>1. pc'[s] = "pre" /\ Behind(s)' = Behind(s) \cup {Link(s)}
      BY <1>0, <1>a, <2>1, <2>7, Walked, Zenon
    <3> QED  BY <2>5, <3>1, Zenon DEF Armed
  <2> QED  BY <2>6, <2>7, Zenon
<1>5. CASE sdw_bank_switch_transfer(s) \/ sdw_bank_switch_done(s)
  BY <1>5, <1>b, Zenon DEF sdw_bank_switch_transfer, sdw_bank_switch_done, Past, Armed
<1>6. CASE sdw_bank_switch_nomem(s) \/ intel_post_bank_switch_err(s)
           \/ sdw_ml_sync_bank_switch_err(s)
  <2>1. pc'[s] = "error"
    BY <1>0, <1>6, Zenon DEF sdw_bank_switch_nomem, intel_post_bank_switch_err,
       sdw_ml_sync_bank_switch_err, Fail, ThreadType
  <2> QED  BY <2>1, Zenon DEF Armed
<1>7. CASE intel_post_bank_switch(s)
  <2>1. pc[s] = "post" /\ pc'[s] = "sync" /\ Armed(s) /\ multi_link
    BY <1>0, <1>7, <1>b, Zenon DEF intel_post_bank_switch, ThreadType, Past
  <2>2. CASE at[s] = 1
    <3>1. \A b \in Links(s) : Ready(b)
      BY <2>1, <2>2, Zenon DEF Armed
    <3>2. SyncGo
      BY <1>0, <1>7, <2>1, <3>1, Zenon DEF intel_post_bank_switch, Ready
    <3>3. \A b \in Links(s) : cmd'[b].st # "held"
      BY <1>0, <3>1, <3>2, SyncGoReleases, Zenon
    <3> QED  BY <1>a, <2>1, <3>3, Zenon DEF Armed
  <2>3. CASE at[s] # 1
    <3>1. \A b \in Links(s) : cmd[b].st # "held"
      BY <2>1, <2>3, Zenon DEF Armed
    <3>2. SyncGo \/ UNCHANGED cmd
      BY <1>7, Zenon DEF intel_post_bank_switch
    <3>3. \A b \in Links(s) : cmd'[b].st # "held"
      BY <1>0, <3>1, <3>2, SyncGoReleases, Zenon DEF Ready
    <3> QED  BY <1>a, <2>1, <3>3 DEF Armed
  <2> QED  BY <2>2, <2>3, Zenon
<1>8. CASE sdw_ml_sync_bank_switch(s)
  <2>1. pc[s] = "sync" /\ Next_m_rt(s, "post", "idle") /\ UNCHANGED cmd
    BY <1>8, Zenon DEF sdw_ml_sync_bank_switch
  <2>2. Armed(s) /\ \A b \in Links(s) : cmd[b].st # "held"
    BY <1>b, <2>1, Zenon DEF Past, Armed
  <2>3. pc'[s] = "post" /\ ~IsLast(s)
    BY <1>0, <1>a, <2>1, Walked, Zenon DEF Past
  <2>4. at'[s] # 1
    BY <1>0, <2>1, <2>3, Positions DEF Next_m_rt, ThreadType
  <2> QED  BY <1>a, <2>1, <2>2, <2>3, <2>4, Zenon DEF Armed
<1>9. CASE do_bank_switch_err(s)
  BY <1>9, Zenon DEF do_bank_switch_err
<1> QED
  BY <1>1, <1>2, <1>3, <1>4, <1>5, <1>6, <1>7, <1>8, <1>9, Zenon DEF StreamStep

LEMMA StreamStepTogether ==
  ASSUME Types, SInv, TInv, OneLink, OneGroup, NEW s \in Stream, StreamStep(s), ~failed'
  PROVE  TInv'
<1>0. Frame(s) /\ ThreadType
  BY StreamStepFrame, Zenon DEF Types
<1>1. ASSUME NEW t \in Stream, Past(t)', Long(t)' PROVE Armed(t)'
  <2>1. Long(t)
    BY <1>0, <1>1, Zenon DEF Long, Frame
  <2>2. CASE t = s
    BY <1>1, <2>1, <2>2, OwnStepArmed, Zenon
  <2>3. CASE t # s
    <3>1. pc'[t] = pc[t] /\ at'[t] = at[t] /\ UNCHANGED master_list
      BY <1>0, <2>3, Zenon DEF Frame
    <3>2. Past(t) /\ Armed(t)
      BY <1>1, <2>1, <3>1, Zenon DEF Past, TInv, Arming
    <3>3. ~Past(s)
      BY <2>1, <2>3, <3>2, LongAlone, Zenon
    <3>4. UNCHANGED <<cmd, cmdsync>>
      BY <3>3, Waiting, Zenon
    <3>5. Links(t)' = Links(t) /\ Behind(t)' = Behind(t) /\ Link(t)' = Link(t)
      BY <3>1, Zenon DEF Links, Behind, Link
    <3> QED  BY <3>1, <3>2, <3>4, <3>5, Zenon DEF Armed, Ready
  <2> QED  BY <2>2, <2>3, Zenon
<1> QED  BY <1>1, StreamStepWaits, Zenon DEF TInv, Arming

\* No link starts while a call with several links has its locks.
LEMMA StartAlone ==
  ASSUME Types, OneGroup, NEW b \in Bus, intel_shim_sync_go(b),
         NEW s \in Stream, Long(s)
  PROVE  ~Past(s)
<1> DEFINE m == master_list[s]
<1>1. m \in MasterLists /\ Len(m) > 1
  BY Zenon DEF Types, ThreadType, Long
<1>2. "start" \in Faults /\ (b \in Links(s) => pc[s] = "idle")
  BY Zenon DEF intel_shim_sync_go
<1>3. \E i \in DOMAIN m : m[i] = b
  BY <1>1, <1>2, Zenon DEF OneGroup
<1> QED  BY <1>2, <1>3, Zenon DEF Links, Past

LEMMA StartTogether ==
  ASSUME Types, TInv, OneGroup, NEW b \in Bus, intel_shim_sync_go(b)
  PROVE  TInv'
<1>1. UNCHANGED <<master_list, pc, at, xfer>>
  BY Zenon DEF intel_shim_sync_go, pathVars
<1>2. Waits'
  BY <1>1, Zenon DEF TInv, Waits, Link
<1>3. \A s \in Stream : (Past(s)' <=> Past(s)) /\ (Long(s)' <=> Long(s))
  BY <1>1, Zenon DEF Past, Long
<1>4. \A s \in Stream : ~(Past(s) /\ Long(s))
  BY StartAlone, Zenon
<1>5. Arming'
  BY <1>3, <1>4, Zenon DEF Arming
<1> QED  BY <1>2, <1>5, Zenon DEF TInv

LEMMA InitTogether == Init => TogetherInv
<1> SUFFICES ASSUME Init PROVE TogetherInv
  BY Zenon
<1>1. OneLink
  <2>1. \A s \in Stream : Len(master_list[s]) = 1 => ~Long(s)
    BY DEF Long
  <2> QED  BY <2>1, Zenon DEF Init, OneLink
<1>2. Idle.by = "io"
  BY Zenon DEF Idle
<1>3. TInv
  BY <1>2, NamesDiffer, Zenon DEF Init, TInv, Waits, Arming, Past
<1> QED  BY <1>1, <1>3, Zenon DEF TogetherInv

LEMMA NextTogether ==
  ASSUME OneGroup
  PROVE  IInv /\ TogetherInv /\ [Next]_vars => TogetherInv'
<1> SUFFICES ASSUME IInv, TogetherInv, [Next]_vars PROVE TogetherInv'
  OBVIOUS
<1>0. OneLink
  BY Zenon DEF TogetherInv
<1>1. OneLink'
  <2>1. UNCHANGED <<multi_link, master_list>>
    <3>1. ASSUME NEW s \in Stream, StreamStep(s) PROVE UNCHANGED <<multi_link, master_list>>
      BY <3>1, StreamStepFrame, Zenon DEF IInv, Types, Frame
    <3>2. ASSUME NEW b \in Bus, BusStep(b) PROVE UNCHANGED <<multi_link, master_list>>
      BY <3>2, Zenon DEF BusStep, Io, Send, EndAttempt, Wake, Timeout, RxIrq, Return, switchVars
    <3>3. CASE UNCHANGED vars
      BY <3>3, Zenon DEF vars
    <3>4. ASSUME NEW b \in Bus, intel_shim_sync_go(b)
          PROVE  UNCHANGED <<multi_link, master_list>>
      BY <3>4, Zenon DEF intel_shim_sync_go, pathVars
    <3> QED  BY <3>1, <3>2, <3>3, <3>4, Zenon DEF Next, Undefined
  <2> QED  BY <1>0, <2>1, Zenon DEF OneLink, Long
<1>2. CASE UNCHANGED vars
  <2>1. failed' = failed /\ (Waits => Waits')
    BY <1>2, Zenon DEF vars, Waits, Link
  <2>2. ASSUME NEW s \in Stream
        PROVE  (Past(s)' <=> Past(s)) /\ (Long(s)' <=> Long(s)) /\ (Armed(s)' <=> Armed(s))
    <3>1. UNCHANGED <<pc, at, master_list, cmd, cmdsync>>
      BY <1>2, Zenon DEF vars
    <3>2. Links(s)' = Links(s) /\ Behind(s)' = Behind(s) /\ Link(s)' = Link(s)
      BY <3>1, Zenon DEF Links, Behind, Link
    <3> QED  BY <3>1, <3>2, Zenon DEF Past, Long, Armed, Ready
  <2>3. Arming => Arming'
    BY <2>2, Zenon DEF Arming
  <2> QED  BY <1>1, <2>1, <2>3, Zenon DEF TogetherInv, TInv
<1>3. ASSUME NEW b \in Bus, ~failed, BusStep(b) PROVE TInv'
  BY <1>3, BusStepTogether, Zenon DEF IInv, TogetherInv
<1>4. ASSUME NEW s \in Stream, ~failed, StreamStep(s) PROVE failed' \/ TInv'
  BY <1>0, <1>4, StreamStepTogether, Zenon DEF IInv, TogetherInv
<1>5. ASSUME NEW b \in Bus, ~failed, intel_shim_sync_go(b) PROVE TInv'
  BY <1>5, StartTogether, Zenon DEF IInv, TogetherInv
<1> QED  BY <1>1, <1>2, <1>3, <1>4, <1>5, Zenon DEF TogetherInv, Next, Undefined

\* A trigger on a link of a call is SYNCGO of that call, for all its links.
LEMMA TriggeredByGo ==
  ASSUME Types, SInv, TInv, OneLink, OneGroup, NEW s \in Stream, Past(s), Long(s),
         NEW b \in Links(s), Triggered(b),
         (\E c \in Bus : BusStep(c)) \/ (\E t \in Stream : StreamStep(t))
  PROVE  \A c \in Links(s) : Triggered(c)
<1>0. /\ Links(s) \subseteq Bus /\ b \in Bus /\ Armed(s) /\ Multi(s) /\ multi_link
      /\ PathType /\ LinkType /\ Link(s) \in Bus /\ bus_lock[b] = s
  <2>1. Links(s) \subseteq Bus /\ Link(s) \in Bus
    BY LinkInBus, Zenon DEF Types
  <2>2. b \in Claimed(s)
    BY Zenon DEF Claimed, Past
  <2>3. Armed(s) /\ Multi(s) /\ multi_link
    BY LongAlone, Zenon DEF TInv, Arming
  <2> QED  BY <2>1, <2>2, <2>3, Zenon DEF SInv, LocksHeld, Types
<1>1. ASSUME NEW c \in Bus, BusStep(c) PROVE FALSE
  <2>1. hw_bank'[b] # hw_bank[b]
    BY <1>0, <1>1, BusStepHolds, Zenon DEF Triggered
  <2>2. xfer[b].by # "io"
    BY <1>0, <1>1, <2>1, BusStepHolds, Zenon
  <2>3. xfer[b].by \in Stream
    BY <1>0, <2>2, Zenon DEF PathType, XferType
  <2> DEFINE t == xfer[b].by
  <2>4. pc[t] = "wait" /\ Link(t) = b
    BY <1>0, <2>3, Zenon DEF TInv, Waits
  <2> HIDE DEF t
  <2>5. bus_lock[b] = t /\ t \in Stream
    <3>1. t \in Stream
      BY <2>3, Zenon DEF t
    <3>2. b \in Claimed(t)
      BY <2>4, <3>1, LinkInBus, Zenon DEF Claimed, Types
    <3> QED  BY <3>1, <3>2, Zenon DEF SInv, LocksHeld
  <2> QED  BY <1>0, <2>4, <2>5, Zenon DEF Armed
<1>2. ASSUME NEW t \in Stream, StreamStep(t) PROVE \A c \in Links(s) : Triggered(c)
  <2>1. CASE UNCHANGED <<cmd, hw_bank>>
    BY <2>1, Zenon DEF Triggered
  <2>2. CASE ~Past(t)
    BY <1>2, <2>1, <2>2, Waiting, Zenon
  <2>3. CASE Past(t)
    <3>1. t = s
      BY <2>3, LongAlone, Zenon
    <3>2. CASE sdw_bank_switch_defer(s)
      <4>1. Link(s) \in cmdsync
        BY <1>0, <3>2, Zenon DEF sdw_bank_switch_defer, Armed
      <4>2. cmd' = [cmd EXCEPT ![Link(s)] = Held] /\ hw_bank' = hw_bank
        BY <3>2, <4>1, Zenon DEF sdw_bank_switch_defer
      <4>3. Held.st = "held"
        BY Zenon DEF Held
      <4> QED  BY <1>0, <4>2, <4>3, Zenon DEF Triggered, PathType
    <3>3. CASE (intel_post_bank_switch(s) \/ intel_post_bank_switch_err(s)) /\ SyncGo
      <4>1. pc[s] = "post"
        BY <3>3, Zenon DEF intel_post_bank_switch, intel_post_bank_switch_err
      <4>2. CASE at[s] = 1
        <5>1. \A c \in Links(s) : Ready(c)
          BY <1>0, <4>1, <4>2, Zenon DEF Armed
        <5> QED  BY <1>0, <3>3, <5>1, SyncGoReleases, Zenon DEF Ready, Triggered
      <4>3. CASE at[s] # 1
        <5>1. ~Ready(b) /\ cmd[b].st # "held"
          BY <1>0, <4>1, <4>3, Zenon DEF Armed, Ready
        <5> QED  BY <1>0, <3>3, <5>1, SyncGoReleases, Zenon DEF Triggered
      <4> QED  BY <4>2, <4>3, Zenon
    <3>4. CASE sdw_bank_switch_transfer(s) \/ sdw_bank_switch_done(s)
      BY <1>0, <3>4, Zenon DEF sdw_bank_switch_transfer, sdw_bank_switch_done, Armed
    <3>5. StreamStep(s) =>
            \/ UNCHANGED <<cmd, hw_bank>> \/ sdw_bank_switch_defer(s)
            \/ (intel_post_bank_switch(s) \/ intel_post_bank_switch_err(s)) /\ SyncGo
            \/ sdw_bank_switch_transfer(s) \/ sdw_bank_switch_done(s)
      BY Zenon DEF StreamStep, Call, sdw_acquire_bus_lock, intel_pre_bank_switch,
         sdw_bank_switch_nomem, intel_post_bank_switch, intel_post_bank_switch_err,
         sdw_ml_sync_bank_switch, sdw_ml_sync_bank_switch_err, do_bank_switch_err
    <3> QED  BY <1>2, <2>1, <3>1, <3>2, <3>3, <3>4, <3>5, Zenon
  <2> QED  BY <2>2, <2>3, Zenon
<1> QED  BY <1>1, <1>2, Zenon

\* The actual bank switch is synchronized across all masters of a stream, if
\* every stream of several links shares one with every other stream and, should
\* links be probed or resume meanwhile, has them all.  The hypothesis is needed:
\* the CMDSYNC bits of all the links are in one register, and the SYNCGO of a
\* stream that holds other locks, or of a link that starts, lets go of links
\* that are armed for this one.
THEOREM LinksSwitchTogether ==
  ASSUME OneGroup
  PROVE  Spec => SwitchTogether
<1> DEFINE A == \A s \in Stream : \A b, c \in {d \in Links(s) : bus_lock[d] = s} :
                  pc[s] \notin {"idle", "acquire"} /\ Triggered(b) => Triggered(c)
<1>1. IInv /\ TogetherInv /\ [Next]_vars => TogetherInv'
  BY NextTogether, Zenon
<1>2. IInv /\ TogetherInv /\ [Next]_vars => [A]_vars
  <2> SUFFICES ASSUME IInv, TogetherInv, [Next]_vars, ~(UNCHANGED vars) PROVE A
    BY Zenon
  <2>1. /\ ~failed
        /\ \/ (\E c \in Bus : BusStep(c)) \/ (\E t \in Stream : StreamStep(t))
           \/ \E c \in Bus : intel_shim_sync_go(c)
    BY Zenon DEF Next, Undefined
  <2>2. Types /\ SInv /\ TInv /\ OneLink
    BY <2>1, Zenon DEF IInv, TogetherInv
  <2> SUFFICES ASSUME NEW s \in Stream, NEW b \in Links(s), NEW c \in Links(s),
                      Past(s), Triggered(b)
               PROVE  Triggered(c)
    BY Zenon DEF Past
  <2>3. CASE Long(s)
    <3>1. ~\E c0 \in Bus : intel_shim_sync_go(c0)
      BY <2>2, <2>3, StartAlone, Zenon
    <3> QED  BY <2>1, <2>2, <2>3, <3>1, TriggeredByGo, Zenon
  <2>4. CASE ~Long(s)
    <3>1. b = c
      <4>1. PICK i, j \in DOMAIN master_list[s] :
              b = master_list[s][i] /\ c = master_list[s][j]
        BY Zenon DEF Links
      <4>2. Len(master_list[s]) \in Nat /\ DOMAIN master_list[s] = 1 .. Len(master_list[s])
        BY <2>2, Positions, Zenon DEF Types
      <4>3. i = j
        BY <2>4, <4>1, <4>2 DEF Long
      <4> QED  BY <4>1, <4>3, Zenon
    <3> QED  BY <3>1, Zenon
  <2> QED  BY <2>3, <2>4, Zenon
<1>3. [][A]_vars <=> SwitchTogether
  BY PTL DEF SwitchTogether
<1> QED  BY <1>1, <1>2, <1>3, InitTogether, AlwaysIInv, PTL DEF Spec
===============================================================================
