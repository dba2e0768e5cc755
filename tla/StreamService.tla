----------------------------- MODULE StreamService -----------------------------
(***************************************************************************)
(* What the stream layer promises to the users of its streams: a stream    *)
(* that was started transmits on all its buses at once, one that was not   *)
(* or was stopped is silent on all of them, and no call for one stream     *)
(* touches what another one transmits.  After a failed start or stop       *)
(* nothing is promised for that stream until a later one succeeds.  The    *)
(* one success that promises nothing is a stop repeated after a failed     *)
(* stop: it may be ignored, and the stream may go on transmitting until    *)
(* it is started and stopped again.                                        *)
(***************************************************************************)
EXTENDS Naturals

CONSTANTS Stream, Bus, BusesOf

VARIABLES promise, live
vars == <<promise, live>>

Side == {"slave", "master"}
Promise == {"off", "on", "unknown", "ignored"}

\* The live ports agree with what each stream was promised.
Kept(pr, lv) ==
  \A s \in Stream :
    /\ pr[s] = "on" => \A b \in BusesOf[s] : {s} \X Side \subseteq lv[b]
    /\ pr[s] = "off" => \A b \in Bus : ({s} \X Side) \cap lv[b] = {}

Init ==
  /\ promise = [s \in Stream |-> "off"]
  /\ live = [b \in Bus |-> {}]

Settle(s, from, to) ==
  /\ promise[s] \in from
  /\ promise' = [promise EXCEPT ![s] = to]
  /\ Kept(promise', live')

Start(s) == Settle(s, {"off", "unknown", "ignored"}, "on")
Stop(s) == Settle(s, {"on", "unknown"}, "off")
Ignore(s) == Settle(s, {"unknown"}, "ignored")
Fail(s) == Settle(s, Promise, "unknown")

\* Any other call: only a stream nothing is promised for may change.
Other ==
  /\ promise' = promise
  /\ Kept(promise', live')

Next ==
  \/ Other
  \/ \E s \in Stream : Start(s) \/ Stop(s) \/ Ignore(s) \/ Fail(s)

Spec == Init /\ [][Next]_vars
===============================================================================
