---------------------------- MODULE SdwStreamProofs ----------------------------
(***************************************************************************)
(* Proofs about SdwStream for any set of streams and buses and any kinds   *)
(* of failure.                                                             *)
(***************************************************************************)
EXTENDS SdwStream, TLAPS

\* Back ends between hw_params and hw_free.
Configured == {"HW_PARAMS", "PREPARE", "START", "START_ERR", "STOP", "PAUSED",
               "SUSPEND"}

\* A stream is enabled only while its back end is started, or could not be
\* stopped; the latter is remembered as the outcome of its last call.
Started(b, st, l) ==
  /\ st = "ENABLED" => b \in {"START", "START_ERR", "CLOSING"}
  /\ b \in {"START_ERR", "CLOSING"} => l = "failed"
  /\ l = "skipped" => b \notin {"START", "START_ERR", "CLOSING"}

StartedBackEnd == \A s \in Stream : Started(be[s], state[s], last[s])

\* A stream's master runtimes are on its own buses only, and on all of them
\* from hw_params to hw_free and as long as it is enabled.
OnItsBuses ==
  /\ \A b \in Bus : \A s \in m_rt_list[b] : b \in Buses(s)
  /\ \A s \in Stream :
       be[s] \in Configured \/ state[s] = "ENABLED" =>
         \A b \in Buses(s) : s \in m_rt_list[b]

\* LiveIsEnabled for both banks: a port left on in the alternate bank would
\* come alive at the next bank switch.
EnabledBitsOwned ==
  \A b \in Bus : \A k \in Bank : \A p \in ch_en[b][k] :
    /\ b \in Buses(p[1])
    /\ state[p[1]] = "ENABLED" \/ last[p[1]] # "ok"

IInv ==
  /\ TypeOK
  /\ StartedBackEnd
  /\ OnItsBuses
  /\ EnabledBitsOwned
  /\ EnabledIsLive

-------------------------------------------------------------------------------
(* Facts about the operators *)

LEMMA BusesType == \A s \in Stream : Buses(s) \subseteq Bus
  BY StreamAssumption DEF Buses

LEMMA MastersType == \A s \in Stream : Masters(s) \subseteq Buses(s)
  BY Zenon DEF Masters

LEMMA BeforeType == \A s \in Stream, b \in Bus : Before(s, b) \subseteq Masters(s)
  BY Zenon DEF Before

LEMMA BankFlip ==
  ASSUME TypeOK, NEW b \in Bus
  PROVE  /\ next_bank(b) \in Bank
         /\ next_bank(b) # curr_bank[b]
         /\ \A k \in Bank : k = curr_bank[b] \/ k = next_bank(b)
  BY DEF TypeOK, Bank, next_bank

LEMMA EnabledOnType ==
  ASSUME TypeOK, NEW b \in Bus
  PROVE  EnabledOn(b) \subseteq Ports(Stream)
  BY Zenon DEF TypeOK, EnabledOn, Ports

LEMMA ModType == \A x \in Int : x % UintMod \in 0 .. (UintMod - 1)
  BY StreamAssumption

-------------------------------------------------------------------------------
(* What the bus part of a call can do *)

BusTypeOK ==
  /\ curr_bank \in [Bus -> Bank]
  /\ hw_bank \in [Bus -> Bank]
  /\ ch_en \in [Bus -> [Bank -> SUBSET Ports(Stream)]]

\* A call turns on ports of enabled streams and its own ones, and a bus that
\* agrees with the driver on the active bank afterwards either kept its active
\* bank, losing no enable in it, or runs from a bank in which all enabled
\* streams, off excepted, are on.
Effect(own, off) ==
  /\ BusTypeOK'
  /\ \A b \in Bus :
       /\ \A k \in Bank : ch_en'[b][k] \subseteq ch_en[b][k] \cup EnabledOn(b) \cup own
       /\ hw_bank'[b] = curr_bank'[b] =>
            \/ /\ curr_bank[b] = hw_bank[b]
               /\ hw_bank'[b] = hw_bank[b]
               /\ ch_en[b][hw_bank[b]] \subseteq ch_en'[b][hw_bank[b]]
            \/ EnabledOn(b) \ off \subseteq ch_en'[b][hw_bank'[b]]

\* Programming a set of buses and switching some of them.
LEMMA ProgramSwitch ==
  ASSUME TypeOK,
         NEW done \in SUBSET Bus, NEW B \in SUBSET done,
         NEW own \in SUBSET Ports(Stream),
         sdw_program_params(done, own), do_bank_switch(B)
  PROVE  Effect(own, {})
<1>1. BusTypeOK'
  BY BankFlip, EnabledOnType DEF TypeOK, BusTypeOK, sdw_program_params, do_bank_switch
<1>2. ASSUME NEW b \in Bus, NEW k \in Bank
      PROVE  ch_en'[b][k] \subseteq ch_en[b][k] \cup EnabledOn(b) \cup own
  BY BankFlip, Zenon DEF TypeOK, sdw_program_params
<1>3. ASSUME NEW b \in Bus, hw_bank'[b] = curr_bank'[b]
      PROVE  \/ /\ curr_bank[b] = hw_bank[b]
                /\ hw_bank'[b] = hw_bank[b]
                /\ ch_en[b][hw_bank[b]] \subseteq ch_en'[b][hw_bank[b]]
             \/ EnabledOn(b) \ {} \subseteq ch_en'[b][hw_bank'[b]]
  BY <1>3, BankFlip, Zenon DEF TypeOK, sdw_program_params, do_bank_switch
<1> QED
  BY <1>1, <1>2, <1>3, Zenon DEF Effect

\* Programming a set of buses without switching.
LEMMA ProgramOnly ==
  ASSUME TypeOK,
         NEW done \in SUBSET Bus, NEW own \in SUBSET Ports(Stream),
         sdw_program_params(done, own), NoBankSwitch
  PROVE  Effect(own, {})
<1>1. BusTypeOK'
  BY BankFlip, EnabledOnType DEF TypeOK, BusTypeOK, sdw_program_params, NoBankSwitch
<1>2. ASSUME NEW b \in Bus, NEW k \in Bank
      PROVE  /\ ch_en'[b][k] \subseteq ch_en[b][k] \cup EnabledOn(b) \cup own
             /\ ch_en[b][k] \subseteq ch_en'[b][k]
  BY BankFlip, Zenon DEF TypeOK, sdw_program_params
<1> QED
  BY <1>1, <1>2, Zenon DEF Effect, TypeOK, NoBankSwitch

\* A write that fails half-way through programming.
LEMMA ProgramErr ==
  ASSUME TypeOK,
         NEW done \in SUBSET Bus, NEW bad \in Bus, NEW own \in SUBSET Ports(Stream),
         sdw_program_params_err(done, bad, own), NoBankSwitch
  PROVE  Effect(own, {})
<1>0. PICK P \in SUBSET (EnabledOn(bad) \cup own) :
        ch_en' = [b \in Bus |->
          IF b \in done
          THEN [ch_en[b] EXCEPT ![next_bank(b)] = @ \cup EnabledOn(b) \cup own]
          ELSE IF b = bad THEN [ch_en[b] EXCEPT ![next_bank(b)] = @ \cup P]
          ELSE ch_en[b]]
  BY Zenon DEF sdw_program_params_err
<1>1. BusTypeOK'
  BY <1>0, BankFlip, EnabledOnType DEF TypeOK, BusTypeOK, NoBankSwitch
<1>2. ASSUME NEW b \in Bus, NEW k \in Bank
      PROVE  /\ ch_en'[b][k] \subseteq ch_en[b][k] \cup EnabledOn(b) \cup own
             /\ ch_en[b][k] \subseteq ch_en'[b][k]
  BY <1>0, BankFlip, Zenon DEF TypeOK
<1> QED
  BY <1>1, <1>2, Zenon DEF Effect, TypeOK, NoBankSwitch

\* A bank switch that is reported as failed, after all buses were programmed.
LEMMA ProgramSwitchErr ==
  ASSUME TypeOK,
         NEW s \in Stream, NEW own \in SUBSET Ports(Stream),
         sdw_program_params(Masters(s), own), do_bank_switch_err(s)
  PROVE  Effect(own, {})
<1>0. PICK bad \in Masters(s), H \in SUBSET Masters(s) :
        /\ curr_bank' = [b \in Bus |->
             IF b \in Before(s, bad) THEN next_bank(b) ELSE curr_bank[b]]
        /\ hw_bank' = [b \in Bus |->
             IF b \in Before(s, bad) \cup H THEN next_bank(b) ELSE hw_bank[b]]
  BY Zenon DEF do_bank_switch_err
<1>a. bad \in Bus /\ Masters(s) \subseteq Bus /\ Before(s, bad) \subseteq Masters(s)
  BY BusesType, MastersType, BeforeType, Zenon
<1>1. BusTypeOK'
  BY <1>0, <1>a, BankFlip, EnabledOnType DEF TypeOK, BusTypeOK, sdw_program_params
<1>2. ASSUME NEW b \in Bus, NEW k \in Bank
      PROVE  ch_en'[b][k] \subseteq ch_en[b][k] \cup EnabledOn(b) \cup own
  BY BankFlip, Zenon DEF TypeOK, sdw_program_params
<1>3. ASSUME NEW b \in Bus, hw_bank'[b] = curr_bank'[b]
      PROVE  \/ /\ curr_bank[b] = hw_bank[b]
                /\ hw_bank'[b] = hw_bank[b]
                /\ ch_en[b][hw_bank[b]] \subseteq ch_en'[b][hw_bank[b]]
             \/ EnabledOn(b) \ {} \subseteq ch_en'[b][hw_bank'[b]]
  BY <1>0, <1>3, <1>a, BankFlip, Zenon DEF TypeOK, sdw_program_params
<1> QED
  BY <1>1, <1>2, <1>3, Zenon DEF Effect

-------------------------------------------------------------------------------
(* The stream calls *)

LEMMA PrepareEffect ==
  ASSUME TypeOK, NEW s \in Stream,
         sdw_prepare_stream(s) \/ sdw_prepare_stream_err(s)
  PROVE  Effect({}, {}) /\ bandwidth' \in [Bus -> 0 .. (UintMod - 1)]
<1> DEFINE M == Masters(s)
<1>0. M \subseteq Bus /\ \A b \in M : Before(s, b) \subseteq M
  BY BusesType, MastersType, BeforeType, Zenon
<1>1. \A B : RaiseOn(s, B) => bandwidth' \in [Bus -> 0 .. (UintMod - 1)]
  <2>1. \A b \in Bus : bandwidth[b] + Added(s) \in Int
    BY StreamAssumption DEF TypeOK, Added
  <2>2. \A b \in Bus : Raised(s, b) \in 0 .. (UintMod - 1)
    BY <2>1, ModType, Zenon DEF Raised
  <2> QED  BY <2>2 DEF RaiseOn, TypeOK
<1>2. CASE sdw_prepare_stream(s) \/ PreparePortErr(s)
  <2>1. sdw_program_params(M, {}) /\ do_bank_switch(M) /\ RaiseOn(s, M)
    BY <1>2, Zenon DEF sdw_prepare_stream, PreparePortErr
  <2> QED  BY <2>1, <1>0, <1>1, ProgramSwitch, Zenon
<1>3. CASE PrepareAsync(s)
  <2>1. PICK bad \in M : /\ sdw_program_params(Before(s, bad), {})
                         /\ RaiseOn(s, Before(s, bad))
    BY <1>3, Zenon DEF PrepareAsync
  <2>2. NoBankSwitch
    BY <1>3, Zenon DEF PrepareAsync
  <2> QED  BY <2>1, <2>2, <1>0, <1>1, ProgramOnly, Zenon
<1>4. CASE PrepareNoFit(s)
  <2>1. PICK bad \in M : /\ sdw_program_params(Before(s, bad), {})
                         /\ RaiseOn(s, Before(s, bad) \cup {bad})
    BY <1>4, Zenon DEF PrepareNoFit
  <2>2. NoBankSwitch
    BY <1>4, Zenon DEF PrepareNoFit
  <2> QED  BY <2>1, <2>2, <1>0, <1>1, ProgramOnly, Zenon
<1>5. CASE PrepareProgramErr(s)
  <2>1. PICK bad \in M : /\ sdw_program_params_err(Before(s, bad), bad, {})
                         /\ RaiseOn(s, Before(s, bad))
    BY <1>5, Zenon DEF PrepareProgramErr
  <2>2. NoBankSwitch
    BY <1>5, Zenon DEF PrepareProgramErr
  <2> QED  BY <2>1, <2>2, <1>0, <1>1, ProgramErr, Zenon
<1>6. CASE PrepareBankErr(s)
  <2>1. sdw_program_params(M, {}) /\ do_bank_switch_err(s)
    BY <1>6, Zenon DEF PrepareBankErr
  <2>2. RaiseOn(s, {b \in Masters(s) : ~IsLast(s, b)})
    BY <1>6, Zenon DEF PrepareBankErr
  <2> QED  BY <2>1, <2>2, <1>1, ProgramSwitchErr, Zenon
<1> QED
  BY <1>2, <1>3, <1>4, <1>5, <1>6, Zenon DEF sdw_prepare_stream_err

LEMMA PortsOf ==
  /\ \A s \in Stream : Ports({s}) \subseteq Ports(Stream)
  /\ \A S, p : p \in Ports(S) => p[1] \in S
  /\ \A s, p : p \in Ports({s}) <=> p \in Ports({p[1]}) /\ p[1] = s
  BY Zenon DEF Ports

LEMMA EnableEffect ==
  ASSUME TypeOK, NEW s \in Stream,
         sdw_enable_stream(s) \/ sdw_enable_stream_err(s)
  PROVE  /\ Effect(Ports({s}), {})
         /\ sdw_enable_stream(s) =>
              \A b \in Masters(s) : Ports({s}) \subseteq ch_en'[b][hw_bank'[b]]
<1> DEFINE M == Masters(s)
<1>0. M \subseteq Bus /\ \A b \in M : Before(s, b) \subseteq M
  BY BusesType, MastersType, BeforeType, Zenon
<1>1. CASE sdw_enable_stream(s)
  <2>1. sdw_program_params(M, Ports({s})) /\ do_bank_switch(M)
    BY <1>1, Zenon DEF sdw_enable_stream
  <2>2. Effect(Ports({s}), {})
    BY <2>1, <1>0, ProgramSwitch, PortsOf, Zenon
  <2>3. \A b \in M : Ports({s}) \subseteq ch_en'[b][hw_bank'[b]]
    BY <2>1, <1>0, BankFlip, Zenon DEF TypeOK, sdw_program_params, do_bank_switch
  <2> QED  BY <2>2, <2>3, Zenon
<1>2. CASE sdw_enable_stream_err(s) /\ ~sdw_enable_stream(s)
  <2>1. CASE \E bad \in M :
               sdw_program_params_err(Before(s, bad), bad, Ports({s})) /\ NoBankSwitch
    BY <1>2, <2>1, <1>0, ProgramErr, PortsOf, Zenon
  <2>2. CASE sdw_program_params(M, Ports({s})) /\ do_bank_switch_err(s)
    BY <1>2, <2>2, ProgramSwitchErr, PortsOf, Zenon
  <2> QED  BY <1>2, <2>1, <2>2, Zenon DEF sdw_enable_stream_err
<1> QED
  BY <1>1, <1>2, Zenon

\* What the disable call writes on one bus.
LEMMA DisabledFacts ==
  ASSUME TypeOK, NEW s \in Stream, NEW b \in Bus, NEW off \in SUBSET Ports({s})
  PROVE  /\ Disabled(s, b, off) \in [Bank -> SUBSET Ports(Stream)]
         /\ Disabled(s, b, off)[curr_bank[b]] = ch_en[b][curr_bank[b]] \ off
         /\ Disabled(s, b, off)[next_bank(b)]
              = (ch_en[b][next_bank(b)] \cup EnabledOn(b)) \ Ports({s})
         /\ \A k \in Bank :
              Disabled(s, b, off)[k] \subseteq ch_en[b][k] \cup EnabledOn(b)
  BY BankFlip, EnabledOnType DEF TypeOK, Disabled

LEMMA DisabledNone ==
  ASSUME TypeOK, NEW s \in Stream, NEW b \in Bus
  PROVE  /\ Disabled(s, b, {}) \in [Bank -> SUBSET Ports(Stream)]
         /\ Disabled(s, b, {})[curr_bank[b]] = ch_en[b][curr_bank[b]]
         /\ \A k \in Bank :
              Disabled(s, b, {})[k] \subseteq ch_en[b][k] \cup EnabledOn(b)
  BY BankFlip, EnabledOnType DEF TypeOK, Disabled

\* A disable call that gets as far as the bank switch.
LEMMA DisableSwitch ==
  ASSUME TypeOK, NEW s \in Stream,
         NEW off \in [Masters(s) -> SUBSET Ports({s})],
         ch_en' = [b \in Bus |-> IF b \in Masters(s) THEN Disabled(s, b, off[b])
                                 ELSE ch_en[b]],
         do_bank_switch(Masters(s))
  PROVE  Effect({}, Ports({s}))
<1>0. Masters(s) \subseteq Bus
  BY BusesType, MastersType, Zenon
<1>1. BusTypeOK'
  BY <1>0, BankFlip, DisabledFacts, Zenon DEF TypeOK, BusTypeOK, do_bank_switch
<1>2. ASSUME NEW b \in Bus, NEW k \in Bank
      PROVE  ch_en'[b][k] \subseteq ch_en[b][k] \cup EnabledOn(b) \cup {}
  BY DisabledFacts, Zenon
<1>3. ASSUME NEW b \in Bus, hw_bank'[b] = curr_bank'[b]
      PROVE  \/ /\ curr_bank[b] = hw_bank[b]
                /\ hw_bank'[b] = hw_bank[b]
                /\ ch_en[b][hw_bank[b]] \subseteq ch_en'[b][hw_bank[b]]
             \/ EnabledOn(b) \ Ports({s}) \subseteq ch_en'[b][hw_bank'[b]]
  <2>1. CASE b \in Masters(s)
    <3>1. hw_bank'[b] = next_bank(b) /\ ch_en'[b] = Disabled(s, b, off[b])
      BY <2>1, Zenon DEF do_bank_switch
    <3>2. EnabledOn(b) \ Ports({s}) \subseteq Disabled(s, b, off[b])[next_bank(b)]
      BY <2>1, DisabledFacts
    <3> QED  BY <3>1, <3>2, Zenon
  <2>2. CASE b \notin Masters(s)
    BY <1>3, <2>2, Zenon DEF do_bank_switch
  <2> QED  BY <2>1, <2>2, Zenon
<1> QED
  BY <1>1, <1>2, <1>3, Zenon DEF Effect

LEMMA DisableEffect ==
  ASSUME TypeOK, NEW s \in Stream, sdw_disable_stream(s)
  PROVE  /\ Effect({}, Ports({s}))
         /\ \A b \in Masters(s), k \in Bank : ch_en'[b][k] \cap Ports({s}) = {}
<1>0. Masters(s) \subseteq Bus
  BY BusesType, MastersType, Zenon
<1>1. Effect({}, Ports({s}))
  <2> DEFINE off == [b \in Masters(s) |-> Ports({s})]
  <2>1. off \in [Masters(s) -> SUBSET Ports({s})]
    BY Zenon
  <2>2. ch_en' = [b \in Bus |-> IF b \in Masters(s) THEN Disabled(s, b, off[b])
                                ELSE ch_en[b]]
    BY Zenon DEF sdw_disable_stream
  <2>3. do_bank_switch(Masters(s))
    BY Zenon DEF sdw_disable_stream
  <2> HIDE DEF off
  <2> QED  BY <2>1, <2>2, <2>3, DisableSwitch, Zenon
<1>2. ASSUME NEW b \in Masters(s), NEW k \in Bank
      PROVE  ch_en'[b][k] \cap Ports({s}) = {}
  BY <1>0, Zenon DEF sdw_disable_stream, Disabled
<1> QED
  BY <1>1, <1>2, Zenon

LEMMA DisableErrEffect ==
  ASSUME TypeOK, NEW s \in Stream, sdw_disable_stream_err(s)
  PROVE  \/ Effect({}, {}) /\ UNCHANGED state
         \/ Effect({}, Ports({s})) /\ SetState(s, "DISABLED")
<1>0. Masters(s) \subseteq Bus
  BY BusesType, MastersType, Zenon
<1>1. CASE DisableWriteErr(s)
  <2>0. PICK bad \in Masters(s), Q \in SUBSET Ports({s}) :
          ch_en' = [b \in Bus |->
            IF b \in Before(s, bad)
            THEN [ch_en[b] EXCEPT ![next_bank(b)] = @ \ Ports({s})]
            ELSE IF b = bad THEN [ch_en[b] EXCEPT ![next_bank(b)] = @ \ Q]
            ELSE ch_en[b]]
    BY <1>1, Zenon DEF DisableWriteErr
  <2>1. UNCHANGED <<curr_bank, hw_bank, state>>
    BY <1>1, Zenon DEF DisableWriteErr, NoBankSwitch
  <2>2. BusTypeOK'
    BY <2>0, <2>1, <1>0, BankFlip DEF TypeOK, BusTypeOK
  <2>3. ASSUME NEW b \in Bus
        PROVE  /\ \A k \in Bank : ch_en'[b][k] \subseteq ch_en[b][k]
               /\ ch_en'[b][curr_bank[b]] = ch_en[b][curr_bank[b]]
    BY <2>0, BankFlip, Zenon DEF TypeOK
  <2> QED  BY <2>1, <2>2, <2>3, Zenon DEF Effect, TypeOK
<1>2. CASE DisableProgramErr(s)
  <2>0. PICK bad \in Masters(s), P \in SUBSET Ports(Stream \ {s}) :
          /\ P \subseteq EnabledOn(bad)
          /\ ch_en' = [b \in Bus |->
               IF b \in Before(s, bad) THEN Disabled(s, b, {})
               ELSE IF b = bad
               THEN [ch_en[b] EXCEPT ![next_bank(b)] = (@ \ Ports({s})) \cup P]
               ELSE IF b \in Masters(s)
               THEN [ch_en[b] EXCEPT ![next_bank(b)] = @ \ Ports({s})]
               ELSE ch_en[b]]
    BY <1>2, Zenon DEF DisableProgramErr
  <2>1. UNCHANGED <<curr_bank, hw_bank>> /\ SetState(s, "DISABLED")
    BY <1>2, Zenon DEF DisableProgramErr, NoBankSwitch
  <2>2. P \subseteq Ports(Stream)
    BY <1>0, <2>0, EnabledOnType, Zenon
  <2>3. ASSUME NEW b \in Bus
        PROVE  /\ ch_en'[b] \in [Bank -> SUBSET Ports(Stream)]
               /\ \A k \in Bank : ch_en'[b][k] \subseteq ch_en[b][k] \cup EnabledOn(b)
               /\ ch_en'[b][curr_bank[b]] = ch_en[b][curr_bank[b]]
    <3>1. CASE b \in Before(s, bad)
      <4>1. ch_en'[b] = Disabled(s, b, {})
        BY <2>0, <3>1, Zenon
      <4> QED  BY <4>1, DisabledNone
    <3>2. CASE b \notin Before(s, bad)
      BY <2>0, <2>2, <3>2, BankFlip DEF TypeOK
    <3> QED  BY <3>1, <3>2, Zenon
  <2>4. BusTypeOK'
    BY <2>0, <2>1, <2>3, Zenon DEF TypeOK, BusTypeOK
  <2> QED  BY <2>1, <2>3, <2>4 DEF Effect, TypeOK
<1>3. CASE DisableBankErr(s)
  <2>0. PICK bad \in Masters(s), H \in SUBSET Masters(s) :
          /\ curr_bank' = [b \in Bus |->
               IF b \in Before(s, bad) THEN next_bank(b) ELSE curr_bank[b]]
          /\ hw_bank' = [b \in Bus |->
               IF b \in Before(s, bad) \cup H THEN next_bank(b) ELSE hw_bank[b]]
    BY <1>3, Zenon DEF DisableBankErr, do_bank_switch_err
  <2>1. /\ ch_en' = [b \in Bus |->
             IF b \in Masters(s) THEN Disabled(s, b, {}) ELSE ch_en[b]]
        /\ SetState(s, "DISABLED")
    BY <1>3, Zenon DEF DisableBankErr
  <2>a. Before(s, bad) \subseteq Masters(s)
    BY <1>0, BeforeType, Zenon
  <2>2. BusTypeOK'
    BY <2>0, <2>1, <1>0, BankFlip, DisabledFacts, Zenon DEF TypeOK, BusTypeOK
  <2>3. ASSUME NEW b \in Bus, NEW k \in Bank
        PROVE  ch_en'[b][k] \subseteq ch_en[b][k] \cup EnabledOn(b) \cup {}
    BY <2>1, DisabledFacts, Zenon
  <2>4. ASSUME NEW b \in Bus, hw_bank'[b] = curr_bank'[b]
        PROVE  \/ /\ curr_bank[b] = hw_bank[b]
                  /\ hw_bank'[b] = hw_bank[b]
                  /\ ch_en[b][hw_bank[b]] \subseteq ch_en'[b][hw_bank[b]]
               \/ EnabledOn(b) \ Ports({s}) \subseteq ch_en'[b][hw_bank'[b]]
    <3>1. CASE b \in Before(s, bad)
      <4>1. hw_bank'[b] = next_bank(b) /\ ch_en'[b] = Disabled(s, b, {})
        BY <2>0, <2>1, <2>a, <3>1, Zenon
      <4>2. EnabledOn(b) \ Ports({s}) \subseteq Disabled(s, b, {})[next_bank(b)]
        BY DisabledFacts
      <4> QED  BY <4>1, <4>2, Zenon
    <3>2. CASE b \notin Before(s, bad)
      <4>1. curr_bank'[b] = curr_bank[b] /\ hw_bank[b] = curr_bank[b]
        BY <2>0, <2>4, <3>2, BankFlip, Zenon DEF TypeOK
      <4> QED  BY <2>1, <2>4, <4>1, DisabledNone, Zenon
    <3> QED  BY <3>1, <3>2, Zenon
  <2> QED  BY <2>1, <2>2, <2>3, <2>4, Zenon DEF Effect
<1>4. CASE DisableOtherBankErr(s)
  <2>0. PICK bad \in Masters(s), Q \in SUBSET Ports({s}) :
          ch_en' = [b \in Bus |->
            IF b \in Before(s, bad) THEN Disabled(s, b, Ports({s}))
            ELSE IF b = bad THEN Disabled(s, b, Q)
            ELSE IF b \in Masters(s) THEN Disabled(s, b, {})
            ELSE ch_en[b]]
    BY <1>4, Zenon DEF DisableOtherBankErr
  <2>1. do_bank_switch(Masters(s)) /\ SetState(s, "DISABLED")
    BY <1>4, Zenon DEF DisableOtherBankErr
  <2>a. Before(s, bad) \subseteq Masters(s)
    BY <1>0, BeforeType, Zenon
  <2> DEFINE off == [b \in Masters(s) |-> IF b \in Before(s, bad) THEN Ports({s})
                                          ELSE IF b = bad THEN Q ELSE {}]
  <2>2. off \in [Masters(s) -> SUBSET Ports({s})]
    BY Zenon
  <2>3. ch_en' = [b \in Bus |-> IF b \in Masters(s) THEN Disabled(s, b, off[b])
                                ELSE ch_en[b]]
    <3>1. \A b \in Bus : ch_en'[b] = IF b \in Masters(s) THEN Disabled(s, b, off[b])
                                     ELSE ch_en[b]
      BY <2>0, <2>a, Zenon
    <3>2. ch_en' = [b \in Bus |-> ch_en'[b]]
      BY <2>0, Zenon
    <3> HIDE DEF off
    <3> QED  BY <3>1, <3>2, Zenon
  <2> HIDE DEF off
  <2> QED  BY <2>1, <2>2, <2>3, DisableSwitch, Zenon
<1> QED
  BY <1>1, <1>2, <1>3, <1>4, Zenon DEF sdw_disable_stream_err

LEMMA DeprepareEffect ==
  ASSUME TypeOK, NEW s \in Stream,
         _sdw_deprepare_stream(s) \/ sdw_deprepare_stream_err(s)
  PROVE  Effect({}, {}) /\ bandwidth' \in [Bus -> 0 .. (UintMod - 1)]
<1> DEFINE M == Masters(s)
<1>0. M \subseteq Bus /\ \A b \in M : Before(s, b) \subseteq M
  BY BusesType, MastersType, BeforeType, Zenon
<1>1. \A B : LowerOn(s, B) => bandwidth' \in [Bus -> 0 .. (UintMod - 1)]
  <2>1. \A b \in Bus : bandwidth[b] + UintMod - Demand[s] \in Int
    BY StreamAssumption DEF TypeOK
  <2>2. \A b \in Bus : Lowered(s, b) \in 0 .. (UintMod - 1)
    BY <2>1, ModType, Zenon DEF Lowered
  <2> QED  BY <2>2 DEF LowerOn, TypeOK
<1>2. CASE _sdw_deprepare_stream(s)
  BY <1>2, <1>0, <1>1, ProgramSwitch, Zenon DEF _sdw_deprepare_stream
<1>3. CASE DeprepareBusErr(s)
  <2>1. NoBankSwitch
    BY <1>3, Zenon DEF DeprepareBusErr
  <2>2. PICK bad \in M :
          /\ LowerOn(s, Before(s, bad)) \/ LowerOn(s, Before(s, bad) \cup {bad})
          /\ \/ sdw_program_params(Before(s, bad), {})
             \/ sdw_program_params_err(Before(s, bad), bad, {})
    BY <1>3, Zenon DEF DeprepareBusErr
  <2> QED  BY <2>1, <2>2, <1>0, <1>1, ProgramOnly, ProgramErr, Zenon
<1>4. CASE DeprepareBankErr(s)
  BY <1>4, <1>1, ProgramSwitchErr, Zenon DEF DeprepareBankErr
<1> QED
  BY <1>2, <1>3, <1>4, Zenon DEF sdw_deprepare_stream_err

-------------------------------------------------------------------------------
(* Preservation of the register part of the invariant *)

\* Ports turned on belong to streams that were enabled, on their own buses.
LEMMA EnabledOnOwned ==
  ASSUME IInv, NEW b \in Bus, NEW p \in EnabledOn(b)
  PROVE  b \in Buses(p[1]) /\ p[1] \in Stream /\ state[p[1]] = "ENABLED"
  BY Zenon DEF IInv, OnItsBuses, TypeOK, EnabledOn, Ports

\* All ports of an enabled stream are turned on, on each of its buses.
LEMMA EnabledOnAll ==
  ASSUME IInv, NEW t \in Stream, state[t] = "ENABLED", NEW b \in Buses(t)
  PROVE  Ports({t}) \subseteq EnabledOn(b)
  BY Zenon DEF IInv, OnItsBuses, EnabledOn, Ports

\* A call that enables no stream keeps the enabled ones alive.
LEMMA KeepsLive ==
  ASSUME IInv, NEW s \in Stream, NEW own, NEW off \in {{}, Ports({s})},
         Effect(own, off),
         \A t \in Stream : state'[t] = "ENABLED" => state[t] = "ENABLED",
         off = {} \/ state'[s] # "ENABLED"
  PROVE  EnabledIsLive'
<1> SUFFICES ASSUME NEW t \in Stream, state'[t] = "ENABLED",
                    NEW b \in Buses(t), hw_bank'[b] = curr_bank'[b]
             PROVE  Ports({t}) \subseteq ch_en'[b][hw_bank'[b]]
  BY Zenon DEF EnabledIsLive, Live, Buses
<1>1. b \in Bus /\ state[t] = "ENABLED"
  BY BusesType, Zenon
<1>2. Ports({t}) \subseteq EnabledOn(b) \ off
  <2>1. Ports({t}) \subseteq EnabledOn(b)
    BY <1>1, EnabledOnAll, Zenon
  <2>2. off = {} \/ t # s
    BY Zenon
  <2> QED  BY <2>1, <2>2, Zenon DEF Ports
<1>3. CASE EnabledOn(b) \ off \subseteq ch_en'[b][hw_bank'[b]]
  BY <1>2, <1>3, Zenon
<1>4. CASE /\ curr_bank[b] = hw_bank[b]
           /\ hw_bank'[b] = hw_bank[b]
           /\ ch_en[b][hw_bank[b]] \subseteq ch_en'[b][hw_bank[b]]
  BY <1>1, <1>4, Zenon DEF IInv, EnabledIsLive, Live
<1> QED
  BY <1>1, <1>3, <1>4, Zenon DEF Effect

\* A call that turns on no port of its own leaves no stray enable, if a stream
\* that stops being enabled is off in both banks or remembered in last.
LEMMA KeepsOwned ==
  ASSUME IInv, NEW s \in Stream, NEW own \in {{}, Ports({s})}, NEW off,
         Effect(own, off),
         \A t \in Stream \ {s} : state'[t] = state[t],
         \A t \in Stream \ {s} : last'[t] = last[t],
         \/ state'[s] = "ENABLED"
         \/ last'[s] # "ok"
         \/ own = {} /\ state[s] # "ENABLED" /\ (last[s] # "ok" => last'[s] # "ok")
         \/ \A b \in Buses(s), k \in Bank : ch_en'[b][k] \cap Ports({s}) = {},
         own = {} \/ \A b \in Bus : b \notin Buses(s) => ch_en'[b] = ch_en[b]
  PROVE  EnabledBitsOwned'
<1> SUFFICES ASSUME NEW b \in Bus, NEW k \in Bank, NEW p \in ch_en'[b][k]
             PROVE  /\ b \in Buses(p[1])
                    /\ state'[p[1]] = "ENABLED" \/ last'[p[1]] # "ok"
  BY Zenon DEF EnabledBitsOwned, Buses
<1>1. p \in Ports(Stream) /\ p[1] \in Stream /\ p \in Ports({p[1]})
  BY DEF Effect, BusTypeOK, Ports
<1>2. b \in Buses(p[1])
  <2>1. CASE p \in ch_en[b][k]
    BY <2>1, Zenon DEF IInv, EnabledBitsOwned
  <2>2. CASE p \in EnabledOn(b)
    BY <2>2, EnabledOnOwned, Zenon
  <2>3. CASE p \notin ch_en[b][k] /\ p \in own
    <3>1. own = Ports({s}) /\ p[1] = s /\ own # {}
      BY <2>3, PortsOf
    <3> QED  BY <2>3, <3>1, Zenon
  <2> QED  BY <2>1, <2>2, <2>3, Zenon DEF Effect
<1>3. CASE p[1] # s
  <2>1. p \in ch_en[b][k] \cup EnabledOn(b)
    BY <1>3, PortsOf, Zenon DEF Effect
  <2>2. state[p[1]] = "ENABLED" \/ last[p[1]] # "ok"
    <3>1. CASE p \in ch_en[b][k]
      BY <3>1, Zenon DEF IInv, EnabledBitsOwned
    <3>2. CASE p \in EnabledOn(b)
      BY <3>2, EnabledOnOwned, Zenon
    <3> QED  BY <2>1, <3>1, <3>2, Zenon
  <2> QED  BY <1>1, <1>2, <1>3, <2>2, Zenon
<1>4. CASE p[1] = s
  <2>1. ~ \A c \in Buses(s), j \in Bank : ch_en'[c][j] \cap Ports({s}) = {}
    BY <1>1, <1>2, <1>4, Zenon
  <2>2. CASE own = {} /\ state[s] # "ENABLED" /\ (last[s] # "ok" => last'[s] # "ok")
    <3>1. p \in ch_en[b][k] \cup EnabledOn(b)
      BY <2>2, Zenon DEF Effect
    <3> QED  BY <1>2, <1>4, <2>2, <3>1, EnabledOnOwned, Zenon DEF IInv, EnabledBitsOwned
  <2> QED  BY <1>2, <1>4, <2>1, <2>2, Zenon
<1> QED
  BY <1>3, <1>4, Zenon

\* The enable call writes registers of its own buses only.
LEMMA EnableLocal ==
  ASSUME NEW s \in Stream, sdw_enable_stream(s) \/ sdw_enable_stream_err(s)
  PROVE  \A b \in Bus : b \notin Buses(s) => ch_en'[b] = ch_en[b]
<1>0. Masters(s) \subseteq Buses(s) /\ \A b \in Masters(s) : Before(s, b) \subseteq Masters(s)
  BY MastersType, Zenon DEF Before
<1>1. CASE sdw_program_params(Masters(s), Ports({s}))
  BY <1>0, <1>1, Zenon DEF sdw_program_params
<1>2. CASE \E bad \in Masters(s) :
             sdw_program_params_err(Before(s, bad), bad, Ports({s}))
  BY <1>0, <1>2, Zenon DEF sdw_program_params_err
<1> QED
  BY <1>1, <1>2, Zenon DEF sdw_enable_stream, sdw_enable_stream_err

\* Only the stream of a call changes its back end, state and outcome.
LEMMA KeepsStarted ==
  ASSUME StartedBackEnd, NEW s \in Stream,
         \A t \in Stream \ {s} :
           be'[t] = be[t] /\ state'[t] = state[t] /\ last'[t] = last[t],
         Started(be'[s], state'[s], last'[s])
  PROVE  StartedBackEnd'
BY Zenon DEF StartedBackEnd

LEMMA LastIs ==
  ASSUME TypeOK, NEW s \in Stream, NEW o \in Outcome, SetLast(s, o)
  PROVE  /\ last' \in [Stream -> Outcome]
         /\ last'[s] = o
         /\ \A t \in Stream \ {s} : last'[t] = last[t]
BY Zenon DEF TypeOK, SetLast

LEMMA BeIs ==
  ASSUME TypeOK, NEW s \in Stream, NEW v \in BeState, SetBe(s, v)
  PROVE  /\ be' \in [Stream -> BeState]
         /\ be'[s] = v
         /\ \A t \in Stream \ {s} : be'[t] = be[t]
BY Zenon DEF TypeOK, SetBe

LEMMA StateIs ==
  ASSUME TypeOK, NEW s \in Stream, NEW v \in StreamState, SetState(s, v)
  PROVE  /\ state' \in [Stream -> StreamState]
         /\ state'[s] = v
         /\ \A t \in Stream \ {s} : state'[t] = state[t]
BY Zenon DEF TypeOK, SetState

-------------------------------------------------------------------------------
(* The invariant is inductive *)

LEMMA InitIInv == Init => IInv
<1> SUFFICES ASSUME Init PROVE IInv
  BY Zenon
<1>0. last \in [Stream -> Outcome]
  BY Zenon DEF Init, Outcome
<1>1. TypeOK
  BY <1>0, StreamAssumption DEF Init, TypeOK, BeState, StreamState, Bank, Ports
<1>2. EnabledBitsOwned /\ EnabledIsLive /\ StartedBackEnd
  BY Zenon DEF Init, EnabledBitsOwned, EnabledIsLive, StartedBackEnd, Started
<1>3. OnItsBuses
  BY Zenon DEF Init, OnItsBuses, Configured
<1> QED
  BY <1>1, <1>2, <1>3, Zenon DEF IInv

\* Steps that leave the buses' registers alone.
LEMMA QuietStep ==
  ASSUME IInv, TypeOK', UNCHANGED <<curr_bank, hw_bank, ch_en>>,
         \A t \in Stream : last[t] # "ok" => last'[t] # "ok",
         \A t \in Stream : state'[t] = "ENABLED" => state[t] = "ENABLED",
         \A t \in Stream : state[t] = "ENABLED" =>
           state'[t] = "ENABLED" \/ last'[t] # "ok"
  PROVE  EnabledBitsOwned' /\ EnabledIsLive'
<1>1. EnabledIsLive'
  BY Zenon DEF IInv, EnabledIsLive, Live, Buses
<1>2. EnabledBitsOwned'
  <2> SUFFICES ASSUME NEW b \in Bus, NEW k \in Bank, NEW p \in ch_en[b][k]
               PROVE  /\ b \in Buses(p[1])
                      /\ state'[p[1]] = "ENABLED" \/ last'[p[1]] # "ok"
    BY Zenon DEF EnabledBitsOwned, Buses
  <2>1. p[1] \in Stream
    BY DEF IInv, TypeOK, Ports
  <2> QED  BY <2>1, Zenon DEF IInv, EnabledBitsOwned
<1> QED
  BY <1>1, <1>2, Zenon

LEMMA StartupIInv ==
  ASSUME IInv, NEW s \in Stream, Startup(s)
  PROVE  IInv'
<1>1. TypeOK'
  BY Zenon DEF IInv, TypeOK, Startup, SetBe, SetState, busVars, BeState, StreamState
<1>2. StartedBackEnd'
  BY Zenon DEF IInv, TypeOK, StartedBackEnd, Started, Startup, SetBe, SetState, busVars
<1>3. OnItsBuses'
  BY Zenon DEF IInv, TypeOK, OnItsBuses, Startup, SetBe, SetState, busVars, Configured, Buses
<1>4. EnabledBitsOwned' /\ EnabledIsLive'
  <2>1. state[s] # "ENABLED"
    BY Zenon DEF IInv, StartedBackEnd, Started, Startup
  <2> QED  BY <1>1, <2>1, QuietStep, Zenon DEF IInv, TypeOK, Startup, SetState, busVars
<1> QED
  BY <1>1, <1>2, <1>3, <1>4, Zenon DEF IInv

LEMMA HwParamsIInv ==
  ASSUME IInv, NEW s \in Stream, HwParams(s)
  PROVE  IInv'
<1>1. TypeOK'
  BY BusesType, Zenon DEF IInv, TypeOK, HwParams, SetBe, SetState, BeState, StreamState
<1>2. StartedBackEnd'
  BY Zenon DEF IInv, TypeOK, StartedBackEnd, Started, HwParams, SetBe, SetState
<1>3. OnItsBuses'
  BY BusesType, Zenon DEF IInv, TypeOK, OnItsBuses, HwParams, SetBe, SetState, Configured, Buses
<1>4. EnabledBitsOwned' /\ EnabledIsLive'
  <2>1. state[s] # "ENABLED"
    BY Zenon DEF IInv, StartedBackEnd, Started, HwParams
  <2> QED  BY <1>1, <2>1, QuietStep, Zenon DEF IInv, TypeOK, HwParams, SetState
<1> QED
  BY <1>1, <1>2, <1>3, <1>4, Zenon DEF IInv

LEMMA PrepareIInv ==
  ASSUME IInv, NEW s \in Stream, Prepare(s)
  PROVE  IInv'
<1>0. /\ Effect({}, {})
      /\ bandwidth' \in [Bus -> 0 .. (UintMod - 1)]
  BY PrepareEffect, Zenon DEF IInv, Prepare
<1>a. /\ UNCHANGED <<dais, m_rt_list, last>>
      /\ \/ SetState(s, "PREPARED") /\ SetBe(s, "PREPARE")
         \/ UNCHANGED <<state, be>>
      /\ be[s] \in {"HW_PARAMS", "STOP", "SUSPEND", "PAUSED"}
  BY Zenon DEF Prepare, sdw_prepare_stream, sdw_prepare_stream_err
<1>b. state[s] # "ENABLED"
  BY <1>a, Zenon DEF IInv, StartedBackEnd, Started
<1>1. TypeOK'
  <2>1. be' \in [Stream -> BeState] /\ state' \in [Stream -> StreamState]
    <3>1. CASE SetState(s, "PREPARED") /\ SetBe(s, "PREPARE")
      BY <3>1, BeIs, StateIs, Zenon DEF IInv, BeState, StreamState
    <3>2. CASE UNCHANGED <<state, be>>
      BY <3>2, Zenon DEF IInv, TypeOK
    <3> QED  BY <1>a, <3>1, <3>2, Zenon
  <2> QED  BY <1>0, <1>a, <2>1, Zenon DEF IInv, TypeOK, Effect, BusTypeOK
<1>2. StartedBackEnd'
  BY <1>a, Zenon DEF IInv, TypeOK, StartedBackEnd, Started, SetBe, SetState
<1>3. OnItsBuses'
  BY <1>a DEF IInv, TypeOK, OnItsBuses, SetBe, SetState, Configured, Buses
<1>4. EnabledIsLive'
  BY <1>0, <1>a, KeepsLive, Zenon DEF IInv, TypeOK, SetState
<1>5. EnabledBitsOwned'
  BY <1>0, <1>a, <1>b, KeepsOwned, Zenon DEF IInv, TypeOK, SetState
<1> QED
  BY <1>1, <1>2, <1>3, <1>4, <1>5, Zenon DEF IInv

LEMMA TriggerStartIInv ==
  ASSUME IInv, NEW s \in Stream, TriggerStart(s)
  PROVE  IInv'
<1>0. /\ Effect(Ports({s}), {})
      /\ \A b \in Bus : b \notin Buses(s) => ch_en'[b] = ch_en[b]
  BY EnableEffect, EnableLocal, Zenon DEF IInv, TriggerStart
<1>a. /\ UNCHANGED <<dais, m_rt_list, bandwidth>>
      /\ \/ /\ sdw_enable_stream(s) /\ SetState(s, "ENABLED") /\ SetBe(s, "START")
            /\ SetLast(s, "ok")
         \/ UNCHANGED <<state, be>> /\ SetLast(s, "failed")
      /\ be[s] \in {"PREPARE", "STOP", "SUSPEND", "PAUSED"}
  BY Zenon DEF TriggerStart, sdw_enable_stream, sdw_enable_stream_err
<1>b. /\ last' \in [Stream -> Outcome]
      /\ \A t \in Stream \ {s} : last'[t] = last[t]
  BY <1>a, LastIs, Zenon DEF IInv, Outcome
<1>c. \/ /\ state'[s] = "ENABLED" /\ be'[s] = "START" /\ last'[s] = "ok"
      \/ state'[s] = state[s] /\ be'[s] = be[s] /\ last'[s] = "failed"
  BY <1>a, LastIs, BeIs, StateIs, Zenon DEF IInv, Outcome, BeState, StreamState
<1>1. TypeOK'
  <2>1. be' \in [Stream -> BeState] /\ state' \in [Stream -> StreamState]
    <3>1. CASE SetState(s, "ENABLED") /\ SetBe(s, "START")
      BY <3>1, BeIs, StateIs, Zenon DEF IInv, BeState, StreamState
    <3>2. CASE UNCHANGED <<state, be>>
      BY <3>2, Zenon DEF IInv, TypeOK
    <3> QED  BY <1>a, <3>1, <3>2, Zenon
  <2> QED BY <1>0, <1>a, <1>b, <2>1, Zenon DEF IInv, TypeOK, Effect, BusTypeOK
<1>2. StartedBackEnd'
  <2>1. \A t \in Stream \ {s} : be'[t] = be[t] /\ state'[t] = state[t]
    BY <1>a, Zenon DEF IInv, TypeOK, SetBe, SetState
  <2>2. Started(be'[s], state'[s], last'[s])
    <3>1. Started(be[s], state[s], last[s])
      BY Zenon DEF IInv, StartedBackEnd
    <3> QED  BY <1>a, <1>c, <3>1, Zenon DEF Started
  <2> QED  BY <1>b, <2>1, <2>2, KeepsStarted, Zenon DEF IInv
<1>3. OnItsBuses'
  <2>1. /\ m_rt_list' = m_rt_list /\ be[s] \in Configured
        /\ \A t \in Stream \ {s} : be'[t] = be[t] /\ state'[t] = state[t]
    BY <1>a, Zenon DEF IInv, TypeOK, SetBe, SetState, Configured
  <2> QED BY <2>1, Zenon DEF IInv, OnItsBuses, Buses
<1>4. EnabledIsLive'
  <2>1. CASE UNCHANGED state
    BY <1>0, <2>1, KeepsLive, Zenon
  <2>2. CASE sdw_enable_stream(s) /\ SetState(s, "ENABLED")
    <3> SUFFICES ASSUME NEW t \in Stream, state'[t] = "ENABLED",
                        NEW b \in Buses(t), hw_bank'[b] = curr_bank'[b]
                 PROVE  Ports({t}) \subseteq ch_en'[b][hw_bank'[b]]
      BY Zenon DEF EnabledIsLive, Live, Buses
    <3>1. b \in Bus
      BY BusesType, Zenon
    <3>2. CASE t = s
      <4>1. b \in Masters(s)
        BY <1>a, <3>2, Zenon DEF IInv, OnItsBuses, Configured, Masters
      <4> QED  BY <2>2, <3>2, <4>1, EnableEffect, Zenon DEF IInv
    <3>3. CASE t # s
      <4>1. state[t] = "ENABLED"
        BY <2>2, <3>3, Zenon DEF IInv, TypeOK, SetState
      <4>2. Ports({t}) \subseteq EnabledOn(b)
        BY <4>1, EnabledOnAll, Zenon
      <4>3. CASE EnabledOn(b) \ {} \subseteq ch_en'[b][hw_bank'[b]]
        BY <4>2, <4>3, Zenon
      <4>4. CASE /\ curr_bank[b] = hw_bank[b]
                 /\ hw_bank'[b] = hw_bank[b]
                 /\ ch_en[b][hw_bank[b]] \subseteq ch_en'[b][hw_bank[b]]
        BY <4>1, <4>4, Zenon DEF IInv, EnabledIsLive, Live
      <4> QED  BY <1>0, <3>1, <4>3, <4>4, Zenon DEF Effect
    <3> QED  BY <3>2, <3>3, Zenon
  <2> QED  BY <1>a, <2>1, <2>2, Zenon
<1>5. EnabledBitsOwned'
  <2>1. /\ \A t \in Stream \ {s} : state'[t] = state[t]
        /\ \A t \in Stream \ {s} : last'[t] = last[t]
        /\ state'[s] = "ENABLED" \/ last'[s] # "ok"
    BY <1>a, <1>b, <1>c, Zenon DEF IInv, TypeOK, SetState
  <2> QED  BY <1>0, <2>1, KeepsOwned, Zenon
<1> QED
  BY <1>1, <1>2, <1>3, <1>4, <1>5, Zenon DEF IInv

LEMMA TriggerStopIInv ==
  ASSUME IInv, NEW s \in Stream, NEW v \in {"STOP", "SUSPEND", "PAUSED"},
         TriggerStop(s, v)
  PROVE  IInv'
<1>a. /\ UNCHANGED <<dais, m_rt_list>>
      /\ be[s] \in {"START", "START_ERR"}
  BY Zenon DEF TriggerStop
<1>b. OnItsBuses' <=> \A t \in Stream :
        be'[t] \in Configured \/ state'[t] = "ENABLED" =>
          \A b \in Buses(t) : t \in m_rt_list[b]
  BY <1>a, Zenon DEF IInv, OnItsBuses, Buses
<1>1. CASE sdw_disable_stream(s) /\ SetBe(s, v) /\ SetLast(s, "ok")
  <2>0. /\ Effect({}, Ports({s}))
        /\ \A b \in Masters(s), k \in Bank : ch_en'[b][k] \cap Ports({s}) = {}
    BY <1>1, DisableEffect, Zenon DEF IInv
  <2>a. Masters(s) = Buses(s)
    BY <1>a, Zenon DEF IInv, OnItsBuses, Configured, Masters
  <2>b. SetState(s, "DISABLED") /\ UNCHANGED bandwidth
    BY <1>1, Zenon DEF sdw_disable_stream
  <2>c. /\ last' \in [Stream -> Outcome] /\ last'[s] = "ok"
        /\ \A t \in Stream \ {s} : last'[t] = last[t]
    BY <1>1, LastIs, Zenon DEF IInv, Outcome
  <2>d. /\ be' \in [Stream -> BeState] /\ be'[s] = v
        /\ \A t \in Stream \ {s} : be'[t] = be[t]
    BY <1>1, BeIs, Zenon DEF IInv, BeState
  <2>e. /\ state' \in [Stream -> StreamState] /\ state'[s] = "DISABLED"
        /\ \A t \in Stream \ {s} : state'[t] = state[t]
    BY <2>b, StateIs, Zenon DEF IInv, StreamState
  <2>1. TypeOK'
    BY <1>a, <2>0, <2>b, <2>c, <2>d, <2>e, Zenon DEF IInv, TypeOK, Effect, BusTypeOK
  <2>2. StartedBackEnd'
    <3>1. Started(v, "DISABLED", "ok")
      BY Zenon DEF Started
    <3> QED  BY <2>c, <2>d, <2>e, <3>1, KeepsStarted, Zenon DEF IInv
  <2>3. OnItsBuses'
    BY <1>a, <1>b, <1>1, <2>b, Zenon DEF IInv, TypeOK, OnItsBuses, SetBe, SetState, Configured
  <2>4. EnabledIsLive'
    <3>1. \A t \in Stream : state'[t] = "ENABLED" => state[t] = "ENABLED"
      BY <2>b, Zenon DEF IInv, TypeOK, SetState
    <3>2. state'[s] # "ENABLED"
      BY <2>b, Zenon DEF IInv, TypeOK, SetState
    <3> QED  BY <2>0, <3>1, <3>2, KeepsLive, Zenon
  <2>5. EnabledBitsOwned'
    <3>1. \A t \in Stream \ {s} : state'[t] = state[t]
      BY <2>b, Zenon DEF IInv, TypeOK, SetState
    <3>2. \A t \in Stream \ {s} : last'[t] = last[t]
      BY <2>c, Zenon
    <3>3. Effect({}, Ports({s}))
      BY <2>0, Zenon
    <3>4. \A b \in Buses(s), k \in Bank : ch_en'[b][k] \cap Ports({s}) = {}
      BY <2>0, <2>a, Zenon
    <3> QED  BY <3>1, <3>2, <3>3, <3>4, KeepsOwned, Zenon
  <2> QED  BY <2>1, <2>2, <2>3, <2>4, <2>5, Zenon DEF IInv
<1>2. CASE /\ state[s] = "DISABLED" /\ SetBe(s, v)
           /\ SetLast(s, "skipped")
           /\ UNCHANGED <<state, curr_bank, hw_bank, ch_en, bandwidth>>
  <2>c. /\ last' \in [Stream -> Outcome] /\ last'[s] = "skipped"
        /\ \A t \in Stream \ {s} : last'[t] = last[t]
    BY <1>2, LastIs, Zenon DEF IInv, Outcome
  <2>d. /\ be' \in [Stream -> BeState] /\ be'[s] = v
        /\ \A t \in Stream \ {s} : be'[t] = be[t]
    BY <1>2, BeIs, Zenon DEF IInv, BeState
  <2>1. TypeOK'
    BY <1>a, <1>2, <2>c, <2>d, Zenon DEF IInv, TypeOK
  <2>2. StartedBackEnd'
    <3>1. Started(v, "DISABLED", "skipped")
      BY Zenon DEF Started
    <3> QED  BY <1>2, <2>c, <2>d, <3>1, KeepsStarted, Zenon DEF IInv
  <2>3. OnItsBuses'
    BY <1>a, <1>b, <1>2, Zenon DEF IInv, TypeOK, OnItsBuses, SetBe, Configured
  <2>4. EnabledBitsOwned' /\ EnabledIsLive'
    BY <1>2, <2>1, <2>c, QuietStep, Zenon
  <2> QED  BY <2>1, <2>2, <2>3, <2>4, Zenon DEF IInv
<1>3. CASE /\ sdw_disable_stream_err(s) /\ SetBe(s, "START_ERR")
           /\ SetLast(s, "failed")
  <2>a. state[s] = "ENABLED" /\ UNCHANGED bandwidth
    BY <1>3, Zenon DEF sdw_disable_stream_err
  <2>b. PICK off \in {{}, Ports({s})} :
          /\ Effect({}, off)
          /\ \/ off = {} /\ UNCHANGED state
             \/ SetState(s, "DISABLED")
    BY <1>3, DisableErrEffect, Zenon DEF IInv
  <2>c. /\ last' \in [Stream -> Outcome] /\ last'[s] = "failed"
        /\ \A t \in Stream \ {s} : last'[t] = last[t]
    BY <1>3, LastIs, Zenon DEF IInv, Outcome
  <2>d. /\ be' \in [Stream -> BeState] /\ be'[s] = "START_ERR"
        /\ \A t \in Stream \ {s} : be'[t] = be[t]
    BY <1>3, BeIs, Zenon DEF IInv, BeState
  <2>1. TypeOK'
    <3>1. be' \in [Stream -> BeState] /\ state' \in [Stream -> StreamState]
      BY <1>3, <2>b, Zenon DEF IInv, TypeOK, SetBe, SetState, BeState, StreamState
    <3>2. BusTypeOK'
      BY <2>b, Zenon DEF Effect
    <3> QED  BY <1>a, <2>a, <2>c, <3>1, <3>2, Zenon DEF IInv, TypeOK, BusTypeOK
  <2>2. StartedBackEnd'
    <3>1. \A st : Started("START_ERR", st, "failed")
      BY Zenon DEF Started
    <3>2. \A t \in Stream \ {s} : state'[t] = state[t]
      BY <2>b, Zenon DEF IInv, TypeOK, SetState
    <3> QED  BY <2>c, <2>d, <3>1, <3>2, KeepsStarted, Zenon DEF IInv
  <2>3. OnItsBuses'
    BY <1>a, <1>b, <1>3, <2>b DEF IInv, TypeOK, OnItsBuses, SetBe, SetState, Configured
  <2>4. EnabledIsLive'
    <3>1. \A t \in Stream : state'[t] = "ENABLED" => state[t] = "ENABLED"
      BY <2>b, Zenon DEF IInv, TypeOK, SetState
    <3>2. off = {} \/ state'[s] # "ENABLED"
      BY <2>b, Zenon DEF IInv, TypeOK, SetState
    <3> QED  BY <2>b, <3>1, <3>2, KeepsLive, Zenon
  <2>5. EnabledBitsOwned'
    <3>1. \A t \in Stream \ {s} : state'[t] = state[t]
      BY <2>b, Zenon DEF IInv, TypeOK, SetState
    <3>2. last'[s] # "ok"
      BY <2>c, Zenon
    <3> QED  BY <2>b, <2>c, <3>1, <3>2, KeepsOwned, Zenon
  <2> QED  BY <2>1, <2>2, <2>3, <2>4, <2>5, Zenon DEF IInv
<1> QED
  BY <1>1, <1>2, <1>3, Zenon DEF TriggerStop

LEMMA HwFreeIInv ==
  ASSUME IInv, NEW s \in Stream, HwFree(s)
  PROVE  IInv'
<1>a. /\ UNCHANGED <<state, curr_bank, hw_bank, ch_en, bandwidth, last, m_rt_list>>
      /\ dais' = [dais EXCEPT ![s] = Buses(s)]
      /\ \/ /\ be[s] \notin {"START", "START_ERR", "CLOSING"}
            /\ SetBe(s, "FREEING")
         \/ be[s] = "START_ERR" /\ SetBe(s, "CLOSING")
  BY Zenon DEF HwFree, busVars
<1>1. TypeOK'
  BY <1>a, BusesType, Zenon DEF IInv, TypeOK, SetBe, BeState
<1>2. StartedBackEnd'
  BY <1>a, Zenon DEF IInv, TypeOK, StartedBackEnd, Started, SetBe
<1>3. OnItsBuses'
  BY <1>a, Zenon DEF IInv, TypeOK, OnItsBuses, SetBe, Configured, Buses
<1>4. EnabledBitsOwned' /\ EnabledIsLive'
  BY <1>1, <1>a, QuietStep, Zenon
<1> QED
  BY <1>1, <1>2, <1>3, <1>4, Zenon DEF IInv

LEMMA HwFreeDaiIInv ==
  ASSUME IInv, NEW s \in Stream, HwFreeDai(s)
  PROVE  IInv'
<1>a. PICK b \in dais[s] :
        /\ dais' = [dais EXCEPT ![s] = @ \ {b}]
        /\ IF be[s] = "FREEING" /\ dais[s] = {b}
           THEN SetBe(s, "HW_FREE") ELSE UNCHANGED be
        /\ \/ _sdw_deprepare_stream(s) /\ RemoveMaster(s, b, "DEPREPARED")
           \/ /\ state[s] = "DEPREPARED"
              /\ RemoveMaster(s, b, "DEPREPARED")
              /\ UNCHANGED <<curr_bank, hw_bank, ch_en, bandwidth>>
           \/ sdw_deprepare_stream_err(s) /\ UNCHANGED m_rt_list
           \/ UNCHANGED <<state, busVars>>
  BY Zenon DEF HwFreeDai
<1>b. be[s] \in {"FREEING", "CLOSING"} /\ UNCHANGED last /\ b \in Bus
  BY Zenon DEF HwFreeDai, IInv, TypeOK
<1>c. \/ state[s] = "ENABLED" /\ UNCHANGED <<state, busVars>>
      \/ /\ state[s] # "ENABLED"
         /\ \E w \in StreamState \ {"ENABLED"} : SetState(s, w)
         /\ UNCHANGED m_rt_list \/ m_rt_list' = [m_rt_list EXCEPT ![b] = @ \ {s}]
         /\ \/ UNCHANGED <<curr_bank, hw_bank, ch_en, bandwidth>>
            \/ Effect({}, {}) /\ bandwidth' \in [Bus -> 0 .. (UintMod - 1)]
  <2>1. CASE _sdw_deprepare_stream(s) /\ RemoveMaster(s, b, "DEPREPARED")
    BY <2>1, DeprepareEffect, Zenon
    DEF IInv, _sdw_deprepare_stream, CanDeprepare, RemoveMaster, StreamState
  <2>2. CASE /\ state[s] = "DEPREPARED" /\ RemoveMaster(s, b, "DEPREPARED")
             /\ UNCHANGED <<curr_bank, hw_bank, ch_en, bandwidth>>
    BY <2>2, Zenon DEF RemoveMaster, StreamState
  <2>3. CASE sdw_deprepare_stream_err(s) /\ UNCHANGED m_rt_list
    <3>1. Effect({}, {}) /\ bandwidth' \in [Bus -> 0 .. (UintMod - 1)]
      BY <2>3, DeprepareEffect, Zenon DEF IInv
    <3>2. state[s] \in {"PREPARED", "DISABLED"}
      BY <2>3, Zenon DEF sdw_deprepare_stream_err, CanDeprepare
    <3>3. UNCHANGED state \/ SetState(s, "DEPREPARED")
      BY <2>3, Zenon DEF sdw_deprepare_stream_err, DeprepareBusErr, DeprepareBankErr
    <3>4. UNCHANGED state => SetState(s, state[s])
      BY Zenon DEF IInv, TypeOK, SetState
    <3> QED  BY <2>3, <3>1, <3>2, <3>3, <3>4, Zenon DEF StreamState
  <2>4. CASE UNCHANGED <<state, busVars>>
    <3>1. SetState(s, state[s]) /\ state[s] \in StreamState
      BY <2>4, Zenon DEF IInv, TypeOK, SetState
    <3> QED  BY <2>4, <3>1, Zenon DEF busVars
  <2> QED  BY <1>a, <2>1, <2>2, <2>3, <2>4, Zenon
<1>d. /\ state' \in [Stream -> StreamState]
      /\ \A t \in Stream : state'[t] = "ENABLED" <=> state[t] = "ENABLED"
      /\ \A t \in Stream \ {s} : state'[t] = state[t] /\ be'[t] = be[t]
      /\ be' \in [Stream -> BeState]
      /\ be'[s] \in {"FREEING", "HW_FREE"} \/ be'[s] = be[s]
      /\ be'[s] = "CLOSING" <=> be[s] = "CLOSING"
  <2>1. /\ state' \in [Stream -> StreamState]
        /\ \A t \in Stream : state'[t] = "ENABLED" <=> state[t] = "ENABLED"
        /\ \A t \in Stream \ {s} : state'[t] = state[t]
    BY <1>c DEF IInv, TypeOK, SetState
  <2>2. /\ \A t \in Stream \ {s} : be'[t] = be[t]
        /\ be' \in [Stream -> BeState]
        /\ be'[s] \in {"FREEING", "HW_FREE"} \/ be'[s] = be[s]
        /\ be'[s] = "CLOSING" <=> be[s] = "CLOSING"
    <3>1. CASE SetBe(s, "HW_FREE") /\ be[s] = "FREEING"
      BY <3>1, Zenon DEF IInv, TypeOK, SetBe, BeState
    <3>2. CASE UNCHANGED be
      BY <3>2, Zenon DEF IInv, TypeOK
    <3> QED  BY <1>a, <3>1, <3>2, Zenon
  <2> QED  BY <2>1, <2>2, Zenon
<1>e. m_rt_list' \in [Bus -> SUBSET Stream]
  <2>1. \/ m_rt_list' = m_rt_list
        \/ m_rt_list' = [m_rt_list EXCEPT ![b] = m_rt_list[b] \ {s}]
    BY <1>c, Zenon DEF busVars
  <2>2. m_rt_list \in [Bus -> SUBSET Stream]
    BY Zenon DEF IInv, TypeOK
  <2> QED  BY <1>b, <2>1, <2>2, Zenon
<1>1. TypeOK'
  <2>1. dais' \in [Stream -> SUBSET Bus]
    BY <1>a, Zenon DEF IInv, TypeOK
  <2> QED
    BY <1>b, <1>c, <1>d, <1>e, <2>1, Zenon DEF IInv, TypeOK, Effect, BusTypeOK, busVars
<1>2. StartedBackEnd'
  BY <1>b, <1>d, Zenon DEF IInv, StartedBackEnd, Started
<1>3. OnItsBuses'
  <2>1. \A c \in Bus : m_rt_list'[c] \subseteq m_rt_list[c]
    BY <1>c, Zenon DEF IInv, TypeOK, busVars
  <2>2. \A c \in Bus : \A t \in m_rt_list[c] :
          t \in m_rt_list'[c] \/ (t = s /\ state[s] # "ENABLED")
    BY <1>c, Zenon DEF IInv, TypeOK, busVars
  <2> QED
    BY <1>b, <1>d, <2>1, <2>2, BusesType, Zenon DEF IInv, OnItsBuses, Configured, Buses
<1>4. EnabledBitsOwned' /\ EnabledIsLive'
  <2>1. CASE UNCHANGED <<curr_bank, hw_bank, ch_en>>
    BY <1>1, <1>b, <1>d, <2>1, QuietStep, Zenon
  <2>2. CASE Effect({}, {}) /\ state[s] # "ENABLED"
    BY <1>b, <1>d, <2>2, KeepsLive, KeepsOwned, Zenon
  <2> QED  BY <1>c, <2>1, <2>2, Zenon DEF busVars
<1> QED
  BY <1>1, <1>2, <1>3, <1>4, Zenon DEF IInv

LEMMA ShutdownIInv ==
  ASSUME IInv, NEW s \in Stream, Shutdown(s)
  PROVE  IInv'
<1>a. /\ UNCHANGED <<curr_bank, hw_bank, ch_en, bandwidth, last, m_rt_list, dais>>
      /\ be[s] \in {"OPEN", "HW_FREE", "CLOSING"}
      /\ SetBe(s, "CLOSE") /\ SetState(s, "NONE")
  BY Zenon DEF Shutdown, busVars
<1>1. TypeOK'
  BY <1>a, Zenon DEF IInv, TypeOK, SetBe, SetState, BeState, StreamState
<1>2. StartedBackEnd'
  BY <1>a, Zenon DEF IInv, TypeOK, StartedBackEnd, Started, SetBe, SetState
<1>3. OnItsBuses'
  BY <1>a, Zenon DEF IInv, TypeOK, OnItsBuses, SetBe, SetState, Configured, Buses
<1>4. EnabledBitsOwned' /\ EnabledIsLive'
  <2>1. state[s] = "ENABLED" => last[s] # "ok"
    BY <1>a, Zenon DEF IInv, StartedBackEnd, Started
  <2> QED  BY <1>1, <1>a, <2>1, QuietStep, Zenon DEF IInv, TypeOK, SetState
<1> QED
  BY <1>1, <1>2, <1>3, <1>4, Zenon DEF IInv

LEMMA NextIInv == IInv /\ [Next]_vars => IInv'
<1> SUFFICES ASSUME IInv, [Next]_vars PROVE IInv'
  BY Zenon
<1>1. CASE Next
  BY Zenon, <1>1, StartupIInv, HwParamsIInv, PrepareIInv, TriggerStartIInv,
     TriggerStopIInv, HwFreeIInv, HwFreeDaiIInv, ShutdownIInv DEF Next
<1>2. CASE UNCHANGED vars
  <2>1. TypeOK'
    BY <1>2, Zenon DEF IInv, TypeOK, vars, busVars
  <2>2. EnabledBitsOwned' /\ EnabledIsLive'
    BY <1>2, <2>1, QuietStep, Zenon DEF vars, busVars
  <2>3. StartedBackEnd' /\ OnItsBuses'
    BY <1>2, Zenon DEF IInv, StartedBackEnd, Started, OnItsBuses, Buses, vars, busVars
  <2> QED  BY <2>1, <2>2, <2>3, Zenon DEF IInv
<1> QED
  BY <1>1, <1>2, Zenon

LEMMA AlwaysIInv == Spec => []IInv
  BY InitIInv, NextIInv, PTL DEF Spec

-------------------------------------------------------------------------------
(* Theorems *)

\* Type correctness, for any streams, buses and failures.
THEOREM TypeCorrect == Spec => []TypeOK
<1>1. IInv => TypeOK
  BY Zenon DEF IInv
<1> QED
  BY <1>1, AlwaysIInv, PTL

\* An enabled stream is on, in the active bank of each of its buses, whatever
\* the calls of other streams did and wherever they failed.
THEOREM EnabledStreamsAreLive == Spec => []EnabledIsLive
<1>1. IInv => EnabledIsLive
  BY Zenon DEF IInv
<1> QED
  BY <1>1, AlwaysIInv, PTL

\* No bank switch turns on a stream that is not enabled, unless the stream's
\* own last enable or disable call failed, or was a stop that did nothing since
\* a failed one had set the state.
THEOREM OnlyEnabledStreamsAreLive == Spec => []LiveIsEnabled
<1>1. IInv => LiveIsEnabled
  <2>1. TypeOK => \A b \in Bus : hw_bank[b] \in Bank
    BY Zenon DEF TypeOK
  <2> QED  BY <2>1, Zenon DEF IInv, EnabledBitsOwned, LiveIsEnabled, Live
<1> QED
  BY <1>1, AlwaysIInv, PTL

-------------------------------------------------------------------------------
(* SdwStream implements StreamService, and the properties that go with it:    *)
(* the driver writes only the bank that is not active, and prepare, start and *)
(* stop find the stream in a state they accept.                               *)

\* One call for stream s.
Step(s) ==
  \/ Startup(s) \/ HwParams(s) \/ Prepare(s) \/ TriggerStart(s)
  \/ \E v \in {"STOP", "SUSPEND", "PAUSED"} : TriggerStop(s, v)
  \/ HwFree(s) \/ HwFreeDai(s) \/ Shutdown(s)

LEMMA NextIsStep == Next <=> \E s \in Stream : Step(s)
BY Zenon DEF Next, Step

-------------------------------------------------------------------------------
(* A call for a stream leaves the other streams alone *)

StateOf(s) == \A t \in Stream \ {s} : state'[t] = state[t]

LEMMA SetStateFrame ==
  ASSUME TypeOK, NEW s \in Stream, NEW v,
         SetState(s, v) \/ UNCHANGED state
  PROVE  StateOf(s)
BY Zenon DEF SetState, StateOf, TypeOK

LEMMA StateFrame ==
  ASSUME TypeOK, NEW s \in Stream, Step(s)
  PROVE  StateOf(s)
<1>1. CASE Startup(s) \/ HwParams(s) \/ Shutdown(s) \/ HwFree(s)
  BY <1>1, SetStateFrame, Zenon DEF Startup, HwParams, Shutdown, HwFree
<1>2. CASE Prepare(s)
  BY <1>2, SetStateFrame, Zenon DEF Prepare, sdw_prepare_stream, sdw_prepare_stream_err
<1>3. CASE TriggerStart(s)
  BY <1>3, SetStateFrame, Zenon DEF TriggerStart, sdw_enable_stream, sdw_enable_stream_err
<1>4. CASE \E v \in {"STOP", "SUSPEND", "PAUSED"} : TriggerStop(s, v)
  BY <1>4, SetStateFrame, Zenon DEF TriggerStop, sdw_disable_stream, sdw_disable_stream_err,
     DisableWriteErr, DisableProgramErr, DisableBankErr, DisableOtherBankErr
<1>5. CASE HwFreeDai(s)
  BY <1>5, SetStateFrame, Zenon DEF HwFreeDai, RemoveMaster, sdw_deprepare_stream_err,
     DeprepareBusErr, DeprepareBankErr
<1> QED BY <1>1, <1>2, <1>3, <1>4, <1>5, Zenon DEF Step

LEMMA LastFrame ==
  ASSUME TypeOK, NEW s \in Stream, Step(s)
  PROVE  \A t \in Stream \ {s} : last'[t] = last[t]
BY Zenon DEF TypeOK, SetLast, Step, Startup, HwParams, Prepare, TriggerStart, TriggerStop, HwFree,
       HwFreeDai, Shutdown

LEMMA BeFrame ==
  ASSUME TypeOK, NEW s \in Stream, Step(s)
  PROVE  \A t \in Stream \ {s} : be'[t] = be[t]
BY Zenon DEF TypeOK, SetBe, Step, Startup, HwParams, Prepare, TriggerStart, TriggerStop,
       HwFree, HwFreeDai, Shutdown

-------------------------------------------------------------------------------
(* The active bank *)

\* What a step may do to the banks: the driver's view follows the bus, and the
\* active bank of a bus that is not switched keeps its enables.
Agree == "late" \notin Faults /\ hw_bank = curr_bank => hw_bank' = curr_bank'
Untouched ==
  \A b \in Bus : hw_bank[b] = curr_bank[b] /\ hw_bank'[b] = hw_bank[b]
                   => ch_en'[b][hw_bank[b]] = ch_en[b][hw_bank[b]]

LEMMA NoSwitchAgrees == ASSUME NoBankSwitch PROVE Agree
BY Zenon DEF NoBankSwitch, Agree

LEMMA SwitchAgrees ==
  ASSUME TypeOK, NEW B, do_bank_switch(B)
  PROVE  Agree
BY Zenon DEF do_bank_switch, Agree, TypeOK

LEMMA SwitchErrAgrees ==
  ASSUME TypeOK, NEW s \in Stream, do_bank_switch_err(s)
  PROVE  Agree
BY Zenon DEF do_bank_switch_err, Agree, TypeOK

LEMMA StepAgrees ==
  ASSUME TypeOK, NEW s \in Stream, Step(s)
  PROVE  Agree
<1> USE DEF NoBankSwitch
<1>1. CASE Startup(s) \/ HwParams(s) \/ Shutdown(s) \/ HwFree(s)
  BY <1>1, NoSwitchAgrees, Zenon DEF Startup, HwParams, Shutdown, HwFree, busVars
<1>2. CASE Prepare(s)
  BY <1>2, NoSwitchAgrees, SwitchAgrees, SwitchErrAgrees, Zenon
     DEF Prepare, sdw_prepare_stream, sdw_prepare_stream_err, PrepareAsync,
         PrepareNoFit, PrepareProgramErr, PrepareBankErr, PreparePortErr
<1>3. CASE TriggerStart(s)
  BY <1>3, NoSwitchAgrees, SwitchAgrees, SwitchErrAgrees, Zenon
     DEF TriggerStart, sdw_enable_stream, sdw_enable_stream_err
<1>4. CASE \E v \in {"STOP", "SUSPEND", "PAUSED"} : TriggerStop(s, v)
  BY <1>4, NoSwitchAgrees, SwitchAgrees, SwitchErrAgrees, Zenon
     DEF TriggerStop, sdw_disable_stream, sdw_disable_stream_err, DisableWriteErr,
         DisableProgramErr, DisableBankErr, DisableOtherBankErr
<1>5. CASE HwFreeDai(s)
  BY <1>5, NoSwitchAgrees, SwitchAgrees, SwitchErrAgrees, Zenon
     DEF HwFreeDai, _sdw_deprepare_stream, sdw_deprepare_stream_err,
         DeprepareBusErr, DeprepareBankErr, busVars
<1> QED BY <1>1, <1>2, <1>3, <1>4, <1>5, Zenon DEF Step

LEMMA ProgramUntouched ==
  ASSUME TypeOK, NEW done, NEW own, sdw_program_params(done, own)
  PROVE  \A b \in Bus : ch_en'[b][curr_bank[b]] = ch_en[b][curr_bank[b]]
BY BankFlip, Zenon DEF TypeOK, sdw_program_params

LEMMA ProgramErrUntouched ==
  ASSUME TypeOK, NEW done, NEW bad, NEW own, sdw_program_params_err(done, bad, own)
  PROVE  \A b \in Bus : ch_en'[b][curr_bank[b]] = ch_en[b][curr_bank[b]]
BY BankFlip DEF TypeOK, sdw_program_params_err

LEMMA OtherBankUntouched ==
  ASSUME \A b \in Bus : ch_en'[b][curr_bank[b]] = ch_en[b][curr_bank[b]]
  PROVE  Untouched
BY DEF Untouched

\* A disable call cleans the bank it leaves only after it has left it.
LEMMA DisableUntouched ==
  ASSUME TypeOK, NEW s \in Stream,
         sdw_disable_stream(s) \/ sdw_disable_stream_err(s)
  PROVE  Untouched
<1>0. Masters(s) \subseteq Bus /\ \A b \in Masters(s) : Before(s, b) \subseteq Masters(s)
  BY BusesType, MastersType, BeforeType, Zenon
<1>a. ASSUME do_bank_switch(Masters(s)),
             \A b \in Bus : b \notin Masters(s) => ch_en'[b] = ch_en[b]
      PROVE  Untouched
  BY <1>0, <1>a, BankFlip, Zenon DEF do_bank_switch, Untouched, TypeOK
<1>1. CASE sdw_disable_stream(s)
  BY <1>1, <1>a, Zenon DEF sdw_disable_stream
<1>2. CASE DisableWriteErr(s)
  BY <1>2, BankFlip, OtherBankUntouched DEF TypeOK, DisableWriteErr
<1>3. CASE DisableProgramErr(s)
  <2>1. \A b \in Bus : ch_en'[b][curr_bank[b]] = ch_en[b][curr_bank[b]]
    BY <1>3, BankFlip, DisabledNone DEF TypeOK, DisableProgramErr
  <2> QED  BY <2>1, OtherBankUntouched, Zenon
<1>4. CASE DisableBankErr(s)
  <2>1. \A b \in Bus : ch_en'[b][curr_bank[b]] = ch_en[b][curr_bank[b]]
    BY <1>4, DisabledNone, Zenon DEF DisableBankErr
  <2> QED  BY <2>1, OtherBankUntouched, Zenon
<1>5. CASE DisableOtherBankErr(s)
  <2>1. \A b \in Bus : b \notin Masters(s) => ch_en'[b] = ch_en[b]
    BY <1>5, <1>0, Zenon DEF DisableOtherBankErr
  <2> QED  BY <1>5, <2>1, <1>a, Zenon DEF DisableOtherBankErr
<1> QED  BY <1>1, <1>2, <1>3, <1>4, <1>5, Zenon DEF sdw_disable_stream_err

LEMMA StepUntouched ==
  ASSUME TypeOK, NEW s \in Stream, Step(s)
  PROVE  Untouched
<1>0. (UNCHANGED ch_en) => Untouched
  BY Zenon DEF Untouched
<1>1. CASE Startup(s) \/ HwParams(s) \/ Shutdown(s) \/ HwFree(s)
  BY <1>1, <1>0, Zenon DEF Startup, HwParams, Shutdown, HwFree, busVars
<1>2. CASE Prepare(s)
  BY <1>2, OtherBankUntouched, ProgramUntouched, ProgramErrUntouched, Zenon
     DEF Prepare, sdw_prepare_stream, sdw_prepare_stream_err, PrepareAsync,
         PrepareNoFit, PrepareProgramErr, PrepareBankErr, PreparePortErr
<1>3. CASE TriggerStart(s)
  BY <1>3, OtherBankUntouched, ProgramUntouched, ProgramErrUntouched, Zenon
     DEF TriggerStart, sdw_enable_stream, sdw_enable_stream_err
<1>4. CASE \E v \in {"STOP", "SUSPEND", "PAUSED"} : TriggerStop(s, v)
  BY <1>4, <1>0, DisableUntouched, Zenon DEF TriggerStop
<1>5. CASE HwFreeDai(s)
  BY <1>5, <1>0, OtherBankUntouched, ProgramUntouched, ProgramErrUntouched, Zenon
     DEF HwFreeDai, _sdw_deprepare_stream, sdw_deprepare_stream_err,
         DeprepareBusErr, DeprepareBankErr, busVars
<1> QED BY <1>1, <1>2, <1>3, <1>4, <1>5, Zenon DEF Step

-------------------------------------------------------------------------------
(* The calls of the back end *)

LEMMA StepConsistent ==
  ASSUME TypeOK, CallsConsistent, NEW s \in Stream, Step(s)
  PROVE  CallsConsistent'
<1> DEFINE Ok(x, y) ==
      /\ x = "HW_PARAMS" => y = "CONFIGURED"
      /\ x = "PREPARE" => y = "PREPARED"
      /\ x = "START" => y = "ENABLED"
      /\ x = "START_ERR" => y \in {"ENABLED", "DISABLED"}
      /\ x \in {"STOP", "SUSPEND", "PAUSED"} => y = "DISABLED"
<1>0. Ok(be[s], state[s])
  BY Zenon DEF CallsConsistent
<1>a. \A v : SetBe(s, v) => be'[s] = v
  BY Zenon DEF SetBe, TypeOK
<1>b. \A v : SetState(s, v) => state'[s] = v
  BY Zenon DEF SetState, TypeOK
<1>c. Ok(be'[s], state'[s])
  <2>1. CASE Startup(s) \/ HwParams(s) \/ Shutdown(s)
    BY <2>1, <1>a, <1>b, Zenon DEF Startup, HwParams, Shutdown
  <2>2. CASE HwFree(s)
    BY <2>2, <1>a, Zenon DEF HwFree
  <2>3. CASE Prepare(s)
    <3>1. CASE sdw_prepare_stream(s) /\ SetBe(s, "PREPARE")
      BY <3>1, <1>a, <1>b, Zenon DEF sdw_prepare_stream
    <3>2. CASE UNCHANGED <<be, state>>
      BY <3>2, <1>0, Zenon
    <3> QED  BY <2>3, <3>1, <3>2, Zenon DEF Prepare, sdw_prepare_stream_err
  <2>4. CASE TriggerStart(s)
    <3>1. CASE sdw_enable_stream(s) /\ SetBe(s, "START")
      BY <3>1, <1>a, <1>b, Zenon DEF sdw_enable_stream
    <3>2. CASE UNCHANGED <<be, state>>
      BY <3>2, <1>0, Zenon
    <3> QED  BY <2>4, <3>1, <3>2, Zenon DEF TriggerStart, sdw_enable_stream_err
  <2>5. ASSUME NEW v \in {"STOP", "SUSPEND", "PAUSED"}, TriggerStop(s, v)
        PROVE  Ok(be'[s], state'[s])
    <3>1. CASE sdw_disable_stream(s) /\ SetBe(s, v)
      BY <3>1, <1>a, <1>b, Zenon DEF sdw_disable_stream
    <3>2. CASE state[s] = "DISABLED" /\ SetBe(s, v) /\ UNCHANGED state
      BY <3>2, <1>a, Zenon
    <3>3. CASE sdw_disable_stream_err(s) /\ SetBe(s, "START_ERR")
      <4>1. state'[s] \in {"ENABLED", "DISABLED"}
        BY <3>3, <1>b, Zenon DEF sdw_disable_stream_err, DisableWriteErr,
           DisableProgramErr, DisableBankErr, DisableOtherBankErr
      <4> QED  BY <3>3, <4>1, <1>a, Zenon
    <3> QED  BY <2>5, <3>1, <3>2, <3>3, Zenon DEF TriggerStop
  <2>6. CASE HwFreeDai(s)
    <3>1. be'[s] \in {"FREEING", "CLOSING", "HW_FREE"}
      BY <2>6, <1>a, Zenon DEF HwFreeDai
    <3> QED  BY <3>1, Zenon
  <2> QED  BY <2>1, <2>2, <2>3, <2>4, <2>5, <2>6, Zenon DEF Step
<1>d. \A t \in Stream \ {s} : be'[t] = be[t] /\ state'[t] = state[t]
  BY BeFrame, StateFrame, Zenon DEF StateOf
<1> SUFFICES ASSUME NEW t \in Stream PROVE Ok(be'[t], state'[t])
  BY Zenon DEF CallsConsistent
<1> QED  BY <1>c, <1>d, Zenon DEF CallsConsistent

-------------------------------------------------------------------------------
(* The refinement mapping *)

PromiseOf(s) ==
  IF last[s] = "failed" THEN "unknown"
  ELSE IF last[s] = "skipped" THEN "ignored"
  ELSE IF state[s] = "ENABLED" THEN "on" ELSE "off"
Promises == [s \in Stream |-> PromiseOf(s)]
Lives == [b \in Bus |-> Live(b)]

PromisesHold == Service!Kept(Promises, Lives)

\* What the inductive invariant says of the mapped state.
LEMMA PromisesKept ==
  ASSUME IInv, hw_bank = curr_bank
  PROVE  PromisesHold
<1> USE DEF PromisesHold, Service!Kept, Service!Side, Promises, PromiseOf, Lives
<1> SUFFICES ASSUME NEW s \in Stream
             PROVE  /\ PromiseOf(s) = "on" =>
                         \A b \in Buses(s) : {s} \X Side \subseteq Live(b)
                    /\ PromiseOf(s) = "off" =>
                         \A b \in Bus : ({s} \X Side) \cap Live(b) = {}
  BY BusesType, Zenon DEF Side
<1>1. ASSUME PromiseOf(s) = "on", NEW b \in Buses(s)
      PROVE  {s} \X Side \subseteq Live(b)
  BY <1>1, BusesType, Zenon DEF IInv, EnabledIsLive, Ports
<1>2. ASSUME PromiseOf(s) = "off", NEW b \in Bus
      PROVE  ({s} \X Side) \cap Live(b) = {}
  <2>1. hw_bank[b] \in Bank
    BY Zenon DEF IInv, TypeOK
  <2>2. \A p \in Live(b) : state[p[1]] = "ENABLED" \/ last[p[1]] # "ok"
    BY <2>1, Zenon DEF IInv, EnabledBitsOwned, Live
  <2>3. \A p \in {s} \X Side : p[1] = s
    BY Zenon
  <2>4. state[s] # "ENABLED" /\ last[s] = "ok"
    <3>1. last[s] \in {"ok", "failed", "skipped"}
      BY Zenon DEF IInv, TypeOK, Outcome
    <3>2. last[s] # "failed" /\ last[s] # "skipped" /\ state[s] # "ENABLED"
      BY <1>2, Zenon
    <3> QED  BY <3>1, <3>2, Zenon
  <2> QED  BY <2>2, <2>3, <2>4, Zenon
<1> QED  BY <1>1, <1>2, Zenon

\* A stop is skipped only after a failed one.
LEMMA SkipAfterFailure ==
  ASSUME IInv, CallsConsistent, NEW s \in Stream, Step(s),
         last'[s] = "skipped", last[s] # "skipped"
  PROVE  last[s] = "failed"
<1>1. \/ UNCHANGED last
      \/ SetLast(s, "ok") \/ SetLast(s, "failed")
      \/ be[s] \in {"START", "START_ERR"} /\ state[s] = "DISABLED"
  BY Zenon DEF Step, Startup, HwParams, Prepare, TriggerStart, TriggerStop, HwFree,
         HwFreeDai, Shutdown
<1>2. \A o : SetLast(s, o) => last'[s] = o
  BY Zenon DEF IInv, TypeOK, SetLast
<1>3. be[s] = "START_ERR"
  BY <1>1, <1>2, Zenon DEF CallsConsistent
<1> QED  BY <1>3, Zenon DEF IInv, StartedBackEnd, Started

LEMMA StepRefines ==
  ASSUME IInv, CallsConsistent, PromisesHold', NEW s \in Stream, Step(s)
  PROVE  Service!Next
<1>1. Service!Kept(Promises', Lives')
  BY Zenon DEF PromisesHold, Service!Kept, Buses
<1>2. \A t \in Stream \ {s} : PromiseOf(t)' = PromiseOf(t)
  BY StateFrame, LastFrame, Zenon DEF IInv, StateOf, PromiseOf
<1>3. Promises' = [Promises EXCEPT ![s] = PromiseOf(s)']
  BY <1>2, Zenon DEF Promises
<1>4. Promises[s] = PromiseOf(s)
  BY Zenon DEF Promises
<1>5. /\ PromiseOf(s) \in {"on", "off", "unknown", "ignored"}
      /\ PromiseOf(s)' \in {"on", "off", "unknown", "ignored"}
  BY Zenon DEF PromiseOf
<1>6. CASE PromiseOf(s)' = PromiseOf(s)
  <2>1. Promises' = Promises
    BY <1>3, <1>4, <1>6, Zenon DEF Promises
  <2>2. Service!Other
    BY <2>1, <1>1, Zenon DEF Service!Other, Promises, PromiseOf, Lives
  <2> QED  BY <2>2, Zenon DEF Service!Next
<1>7. CASE PromiseOf(s)' = "on" /\ PromiseOf(s) # "on"
  <2>1. Service!Start(s)
    BY <1>1, <1>3, <1>4, <1>5, <1>7, Zenon
       DEF Service!Start, Service!Settle, Promises, PromiseOf, Lives
  <2> QED  BY <2>1, Zenon DEF Service!Next
<1>8. CASE PromiseOf(s)' = "off" /\ PromiseOf(s) # "off"
  <2>0. PromiseOf(s) # "ignored"
    <3>1. SUFFICES ASSUME last[s] = "skipped" PROVE FALSE
      BY Zenon DEF PromiseOf
    <3>2. last'[s] # "skipped"
      BY <1>8, Zenon DEF PromiseOf
    <3>3. be[s] \notin {"START", "START_ERR", "CLOSING"}
      BY <3>1, Zenon DEF IInv, StartedBackEnd, Started
    <3>4. TriggerStart(s)
      BY <3>1, <3>2, <3>3, Zenon DEF Step, Startup, HwParams, Prepare, TriggerStop,
             HwFree, HwFreeDai, Shutdown
    <3>5. \A o : SetLast(s, o) => last'[s] = o
      BY Zenon DEF IInv, TypeOK, SetLast
    <3>6. last'[s] = "failed" \/ state'[s] = "ENABLED"
      BY <3>4, <3>5, Zenon DEF TriggerStart, sdw_enable_stream, SetState, IInv, TypeOK
    <3> QED  BY <3>6, <1>8, Zenon DEF PromiseOf
  <2>1. Service!Stop(s)
    BY <1>1, <1>3, <1>4, <1>5, <1>8, <2>0, Zenon
       DEF Service!Stop, Service!Settle, Promises, PromiseOf, Lives
  <2> QED  BY <2>1, Zenon DEF Service!Next
<1>9. CASE PromiseOf(s)' = "unknown"
  <2>1. Service!Fail(s)
    BY <1>1, <1>3, <1>4, <1>5, <1>9, Zenon
       DEF Service!Fail, Service!Settle, Service!Promise, Promises, PromiseOf, Lives
  <2> QED  BY <2>1, Zenon DEF Service!Next
<1>10. CASE PromiseOf(s)' = "ignored" /\ PromiseOf(s) # "ignored"
  <2>1. last'[s] = "skipped" /\ last[s] # "skipped"
    BY <1>10, Zenon DEF PromiseOf
  <2>2. PromiseOf(s) = "unknown"
    BY <2>1, SkipAfterFailure, Zenon DEF PromiseOf
  <2>3. Service!Ignore(s)
    BY <1>1, <1>3, <1>4, <1>10, <2>2, Zenon
       DEF Service!Ignore, Service!Settle, Promises, PromiseOf, Lives
  <2> QED  BY <2>3, Zenon DEF Service!Next
<1> QED  BY <1>5, <1>6, <1>7, <1>8, <1>9, <1>10, Zenon

-------------------------------------------------------------------------------
(* Theorems *)

\* Driver and bus agree on the active bank, unless a switch takes effect after
\* it was reported as failed.
BankAgreement == "late" \notin Faults => hw_bank = curr_bank

LEMMA DriverKnowsTheBank == Spec => []BankAgreement
<1>1. Init => BankAgreement
  BY Zenon DEF Init, BankAgreement
<1>2. IInv /\ BankAgreement /\ [Next]_vars => BankAgreement'
  <2>1. IInv /\ BankAgreement /\ Next => BankAgreement'
    BY NextIsStep, StepAgrees, Zenon DEF IInv, BankAgreement, Agree
  <2>2. BankAgreement /\ UNCHANGED vars => BankAgreement'
    BY Zenon DEF BankAgreement, vars, busVars
  <2> QED  BY <2>1, <2>2
<1> QED  BY <1>1, <1>2, AlwaysIInv, PTL DEF Spec

\* Every stream call writes the bank the bus is not running from: the registers
\* in use change only by a bank switch.
THEOREM CallsWriteTheOtherBank == Spec => ActiveBankUntouched
<1> DEFINE A == \A b \in Bus :
       hw_bank[b] = curr_bank[b] /\ hw_bank'[b] = hw_bank[b] =>
         ch_en'[b][hw_bank[b]] = Live(b)
<1>1. IInv /\ [Next]_vars => [A]_vars
  <2>1. IInv /\ Next => Untouched
    BY NextIsStep, StepUntouched, Zenon DEF IInv
  <2>2. Untouched => A
    BY Zenon DEF Untouched, Live
  <2> QED  BY <2>1, <2>2, Zenon
<1>2. [][A]_vars <=> ActiveBankUntouched
  BY PTL DEF ActiveBankUntouched
<1> QED  BY <1>1, <1>2, AlwaysIInv, PTL DEF Spec

\* The DPCM back end's own state machine keeps the calls in the order the state
\* checks of sdw_prepare_stream, sdw_enable_stream and sdw_disable_stream
\* expect, whichever calls fail.
THEOREM CallsAreConsistent == Spec => []CallsConsistent
<1>1. Init => CallsConsistent
  BY Zenon DEF Init, CallsConsistent
<1>2. IInv /\ CallsConsistent /\ [Next]_vars => CallsConsistent'
  <2>1. IInv /\ CallsConsistent /\ Next => CallsConsistent'
    BY NextIsStep, StepConsistent, Zenon DEF IInv
  <2>2. CallsConsistent /\ UNCHANGED vars => CallsConsistent'
    BY Zenon DEF CallsConsistent, vars
  <2> QED  BY <2>1, <2>2
<1> QED  BY <1>1, <1>2, AlwaysIInv, PTL DEF Spec

\* The stream layer of stream.c implements StreamService for any streams, links
\* and demands, as long as no bank switch takes effect after it was reported as
\* failed: what a stream transmits is changed by its own calls only, and on all
\* its links in one step.  A stop repeated after a failed one promises nothing
\* (Ignore).
THEOREM StreamRefinesService ==
  ASSUME "late" \notin Faults
  PROVE  Spec => ImplementsService
<1>1. Init => Service!Init
  BY DEF Init, Service!Init, Live, Bank
<1>2. IInv /\ BankAgreement => PromisesHold
  BY PromisesKept, Zenon DEF BankAgreement
<1>3. IInv /\ CallsConsistent /\ PromisesHold' /\ [Next]_vars
        => [Service!Next]_(Service!vars)
  <2>1. IInv /\ CallsConsistent /\ PromisesHold' /\ Next => Service!Next
    BY NextIsStep, StepRefines, Zenon
  <2>2. UNCHANGED vars => UNCHANGED Service!vars
    BY Zenon DEF vars, busVars, Service!vars, Live
  <2> QED  BY <2>1, <2>2, Zenon
<1> QED
  BY <1>1, <1>2, <1>3, AlwaysIInv, DriverKnowsTheBank, CallsAreConsistent, PTL
     DEF Spec, ImplementsService, Service!Spec
===============================================================================
