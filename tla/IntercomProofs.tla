-------------------------- MODULE IntercomProofs ------------------------------
(***************************************************************************)
(* intercom_buzzer: the relay (BuzzerLock), the signed link to the deadbolt*)
(* (DoorLink) and the access manager (AccessManager), which share no state,*)
(* each for any sizes of its constants; and the battery's reports          *)
(* (Battery), for any readings.                                            *)
(***************************************************************************)
EXTENDS BuzzerLock, DoorLink, AccessManager, Battery, FiniteSetTheorems,
        SequenceTheorems, WellFoundedInduction, TLAPS

-----------------------------------------------------------------------------
(* THE RELAY (BuzzerLock) is never left on without a pending switch off, for*)
(* any number of endpoints and commands, however the three threads preempt  *)
(* each other; and where no handler is interrupted the relay keeps the other*)
(* endpoint out and the attributes tell the truth.                          *)

BuzzIInv == BuzzTypeOK /\ RelayHasOff

\* The orders of the two timers in which the relay's delay is one.
WithOff == {<<"off">>, <<"act", "off">>, <<"off", "act">>}

LEMMA OffIsIn ==
  ASSUME NEW a \in Orders
  PROVE  "off" \in {a[i] : i \in 1 .. Len(a)} <=> a \in WithOff
<1>1. CASE a = <<>>
  BY <1>1 DEF WithOff
<1>2. CASE a = <<"act">>
  BY <1>2 DEF WithOff
<1>3. CASE a = <<"off">>
  <2>1. a[1] = "off" /\ 1 \in 1 .. Len(a)
    BY <1>3
  <2> QED BY <1>3, <2>1 DEF WithOff
<1>4. CASE a = <<"act", "off">>
  <2>1. a[2] = "off" /\ 2 \in 1 .. Len(a)
    BY <1>4
  <2> QED BY <1>4, <2>1 DEF WithOff
<1>5. CASE a = <<"off", "act">>
  <2>1. a[1] = "off" /\ 1 \in 1 .. Len(a)
    BY <1>5
  <2> QED BY <1>5, <2>1 DEF WithOff
<1> QED BY <1>1, <1>2, <1>3, <1>4, <1>5 DEF Orders

\* OffPending, in this state and in the next.
LEMMA OffPendingIs ==
  /\ armed \in Orders => (OffPending <=> off_due \/ armed \in WithOff)
  /\ armed' \in Orders => (OffPending' <=> off_due' \/ armed' \in WithOff)
BY OffIsIn DEF OffPending, Running

\* What is left when the first timer expires, and what is added last.
LEMMA OrdersStep ==
  /\ Append(<<>>, "off") = <<"off">>
  /\ Append(<<"act">>, "off") = <<"act", "off">>
  /\ \A t \in {"act", "off"} : Head(<<t>>) = t /\ Tail(<<t>>) = <<>>
  /\ \A t, u \in {"act", "off"} : Head(<<t, u>>) = t /\ Tail(<<t, u>>) = <<u>>
<1>1. Append(<<>>, "off") = <<"off">>
  OBVIOUS
<1>2. Append(<<"act">>, "off") = <<"act", "off">>
  <2> DEFINE s == Append(<<"act">>, "off")
  <2>1. <<"act">> \in Seq({"act", "off"}) /\ Len(<<"act">>) = 1
    OBVIOUS
  <2>2. s \in Seq({"act", "off"}) /\ Len(s) = 2 /\ s[1] = "act" /\ s[2] = "off"
    BY <2>1, AppendProperties
  <2>3. <<"act", "off">> \in Seq({"act", "off"}) /\ Len(<<"act", "off">>) = 2
    OBVIOUS
  <2> HIDE DEF s
  <2>4. \A i \in 1 .. Len(s) : s[i] = <<"act", "off">>[i]
    BY <2>2
  <2>5. s = <<"act", "off">>
    BY <2>2, <2>3, <2>4, SeqEqual
  <2> QED BY <2>5 DEF s
<1>3. \A t \in {"act", "off"} : Head(<<t>>) = t /\ Tail(<<t>>) = <<>>
  OBVIOUS
<1>4. \A t, u \in {"act", "off"} : Head(<<t, u>>) = t /\ Tail(<<t, u>>) = <<u>>
  OBVIOUS
<1> QED BY <1>1, <1>2, <1>3, <1>4

LEMMA BuzzInitInv == BuzzInit => BuzzIInv
<1> SUFFICES ASSUME BuzzInit PROVE BuzzIInv OBVIOUS
<1>1. posted \in Seq(Endpoint \X State)
  BY DEF BuzzInit
<1>2. lock_state \in [Endpoint -> {"Locked", "Unlocked", "NotFullyLocked"}]
  BY DEF BuzzInit
<1>3. commands \in 0 .. MaxCommands
  BY MaxCommandsIsNatural DEF BuzzInit
<1> QED BY <1>1, <1>2, <1>3
        DEF BuzzInit, BuzzIInv, BuzzTypeOK, State, Orders, RelayHasOff

\* k_timer_start leaves the relay's delay as it was.
LEMMA StartKeepsOff ==
  ASSUME armed \in Orders, ActStarted
  PROVE  armed' \in Orders /\ (armed' \in WithOff <=> armed \in WithOff)
<1>1. Running("off") <=> armed \in WithOff
  BY OffIsIn DEF Running
<1> QED BY <1>1 DEF ActStarted, Orders, WithOff

\* k_work_schedule leaves the relay's switching off pending.
LEMMA ScheduleSetsOff ==
  ASSUME armed \in Orders, OffScheduled
  PROVE  armed' \in Orders /\ (off_due \/ armed' \in WithOff)
<1>1. Running("off") <=> armed \in WithOff
  BY OffIsIn DEF Running
<1>2. CASE off_due \/ armed \in WithOff
  BY <1>1, <1>2 DEF OffScheduled
<1>3. CASE ~off_due /\ armed \notin WithOff
  <2>1. armed \in {<<>>, <<"act">>}
    BY <1>3 DEF Orders, WithOff
  <2>2. armed' = Append(armed, "off")
    BY <1>1, <1>3 DEF OffScheduled
  <2>3. armed' \in {<<"off">>, <<"act", "off">>}
    BY <2>1, <2>2, OrdersStep
  <2> QED BY <2>3 DEF Orders, WithOff
<1> QED BY <1>2, <1>3

\* A post is a copy of a StateData.
LEMMA PostIsTyped ==
  ASSUME BuzzTypeOK, NEW e \in Endpoint, NEW state \in State, Post(e, state)
  PROVE  posted' \in Seq(Endpoint \X State)
BY DEF Post, BuzzTypeOK

\* The relay is switched on only with its switching off pending.
LEMMA SwitchKeepsInv ==
  ASSUME BuzzIInv, SwitchRelay, UNCHANGED off_due
  PROVE  /\ relay' \in BOOLEAN /\ armed' \in Orders /\ owed' \in BOOLEAN
         /\ relay' => off_due' \/ armed' \in WithOff
<1>1. CASE mState = "unlocked"
  BY <1>1, ScheduleSetsOff DEF SwitchRelay, BuzzIInv, BuzzTypeOK
<1>2. CASE mState # "unlocked"
  BY <1>2, OffPendingIs DEF SwitchRelay, BuzzIInv, BuzzTypeOK, RelayHasOff
<1> QED BY <1>1, <1>2

LEMMA MatterKeepsInv ==
  ASSUME BuzzIInv,
         \/ \E e \in Endpoint : UnlockCommand(e) \/ LockCommand(e)
         \/ MatterThread
  PROVE  BuzzIInv'
<1> USE DEF stateData, relayVars, attrVars, cmdVars
<1>1. BuzzTypeOK /\ (relay => off_due \/ armed \in WithOff)
  BY OffPendingIs DEF BuzzIInv, BuzzTypeOK, RelayHasOff
<1>2. SUFFICES BuzzTypeOK' /\ (relay' => off_due' \/ armed' \in WithOff)
  BY OffPendingIs DEF BuzzIInv, BuzzTypeOK, RelayHasOff
<1>3. CASE \E e \in Endpoint : UnlockCommand(e) \/ LockCommand(e)
  <2>1. commands < MaxCommands /\ commands' = commands + 1
    BY <1>3 DEF UnlockCommand, LockCommand
  <2>2. commands' \in 0 .. MaxCommands
    BY <1>1, <2>1, MaxCommandsIsNatural DEF BuzzTypeOK
  <2>3. mState' \in State /\ mEndpoint' \in Endpoint /\ owed' \in BOOLEAN
    BY <1>1, <1>3 DEF UnlockCommand, LockCommand, BuzzTypeOK, State
  <2>4. /\ UNCHANGED <<relay, armed, off_due, tasks, posted, lock_state, app,
                     preempted>>
        /\ chip' = "assigned"
    BY <1>3 DEF UnlockCommand, LockCommand
  <2> QED BY <1>1, <2>2, <2>3, <2>4 DEF BuzzTypeOK
<1>4. CASE CommandSwitch
  <2>1. /\ relay' \in BOOLEAN /\ armed' \in Orders /\ owed' \in BOOLEAN
        /\ relay' => off_due' \/ armed' \in WithOff
    BY <1>4, SwitchKeepsInv DEF CommandSwitch
  <2> QED BY <1>1, <1>4, <2>1 DEF CommandSwitch, BuzzTypeOK
<1>5. CASE CommandEnd
  <2>1. posted' \in Seq(Endpoint \X State)
    BY <1>1, <1>5, PostIsTyped DEF CommandEnd, BuzzTypeOK
  <2>2. armed' \in Orders /\ (armed' \in WithOff <=> armed \in WithOff)
    BY <1>1, <1>5, StartKeepsOff DEF CommandEnd, BuzzTypeOK
  <2> QED BY <1>1, <1>5, <2>1, <2>2 DEF CommandEnd, BuzzTypeOK
<1>6. CASE UpdateClusterStateHandler
  <2>1. posted \in Seq(Endpoint \X State) /\ posted # <<>>
    BY <1>1, <1>6 DEF UpdateClusterStateHandler, BuzzTypeOK
  <2>2. posted' \in Seq(Endpoint \X State)
    BY <1>6, <2>1 DEF UpdateClusterStateHandler
  <2>3. LockStateOf(Head(posted)[2]) \in {"Locked", "Unlocked", "NotFullyLocked"}
    BY DEF LockStateOf
  <2>4. lock_state' \in [Endpoint -> {"Locked", "Unlocked", "NotFullyLocked"}]
    BY <1>1, <1>6, <2>3 DEF UpdateClusterStateHandler, BuzzTypeOK
  <2> QED BY <1>1, <1>6, <2>2, <2>4 DEF UpdateClusterStateHandler, BuzzTypeOK
<1> QED BY <1>3, <1>4, <1>5, <1>6 DEF MatterThread

LEMMA MainKeepsInv ==
  ASSUME BuzzIInv, MainThread
  PROVE  BuzzIInv'
<1> USE DEF stateData, relayVars, attrVars, cmdVars
<1>1. BuzzTypeOK /\ (relay => off_due \/ armed \in WithOff)
  BY OffPendingIs DEF BuzzIInv, BuzzTypeOK, RelayHasOff
<1>2. SUFFICES BuzzTypeOK' /\ (relay' => off_due' \/ armed' \in WithOff)
  BY OffPendingIs DEF BuzzIInv, BuzzTypeOK, RelayHasOff
<1>3. CASE ActuatorTask
  BY <1>1, <1>3 DEF ActuatorTask, BuzzTypeOK
<1>4. CASE SetState
  BY <1>1, <1>4 DEF SetState, BuzzTypeOK, State
<1>5. CASE SetStateSwitch
  <2>1. /\ relay' \in BOOLEAN /\ armed' \in Orders /\ owed' \in BOOLEAN
        /\ relay' => off_due' \/ armed' \in WithOff
    BY <1>5, SwitchKeepsInv DEF SetStateSwitch
  <2> QED BY <1>1, <1>5, <2>1 DEF SetStateSwitch, BuzzTypeOK
<1>6. CASE SetStateEnd
  <2>1. posted' \in Seq(Endpoint \X State)
    BY <1>1, <1>6, PostIsTyped DEF SetStateEnd, BuzzTypeOK
  <2> QED BY <1>1, <1>6, <2>1 DEF SetStateEnd, BuzzTypeOK
<1> QED BY <1>3, <1>4, <1>5, <1>6 DEF MainThread

\* The expiry of the relay's delay queues the work, which releases the relay.
LEMMA TimersKeepInv ==
  ASSUME BuzzIInv, ActuatorTimer \/ RelayTimer \/ RelayOffHandler
  PROVE  BuzzIInv'
<1> USE DEF stateData, relayVars, attrVars, cmdVars
<1>1. BuzzTypeOK /\ (relay => off_due \/ armed \in WithOff)
  BY OffPendingIs DEF BuzzIInv, BuzzTypeOK, RelayHasOff
<1>2. SUFFICES BuzzTypeOK' /\ (relay' => off_due' \/ armed' \in WithOff)
  BY OffPendingIs DEF BuzzIInv, BuzzTypeOK, RelayHasOff
<1>3. CASE ActuatorTimer
  <2>1. armed \in {<<"act">>, <<"act", "off">>} /\ armed' = Tail(armed)
    BY <1>1, <1>3, OrdersStep DEF ActuatorTimer, BuzzTypeOK, Orders
  <2>2. CASE armed = <<"act">>
    BY <1>1, <1>3, <2>1, <2>2, OrdersStep
       DEF ActuatorTimer, BuzzTypeOK, Orders, WithOff
  <2>3. CASE armed = <<"act", "off">>
    <3>1. armed' = <<"off">>
      BY <2>1, <2>3, OrdersStep
    <3>2. armed' \in Orders /\ armed' \in WithOff
      BY <3>1 DEF Orders, WithOff
    <3> QED BY <1>1, <1>3, <3>2 DEF ActuatorTimer, BuzzTypeOK
  <2> QED BY <2>1, <2>2, <2>3
<1>4. CASE RelayTimer
  <2>1. armed \in {<<"off">>, <<"off", "act">>} /\ armed' = Tail(armed)
    BY <1>1, <1>4, OrdersStep DEF RelayTimer, BuzzTypeOK, Orders
  <2>2. armed' \in {<<>>, <<"act">>}
    BY <2>1, OrdersStep
  <2>3. armed' \in Orders
    BY <2>2 DEF Orders
  <2>4. /\ off_due' = TRUE
        /\ UNCHANGED <<stateData, relay, tasks, attrVars, chip, app, preempted,
                       cmdVars>>
    BY <1>4 DEF RelayTimer
  <2>5. BuzzTypeOK'
    BY <1>1, <2>3, <2>4 DEF BuzzTypeOK
  <2>6. off_due'
    BY <2>4
  <2> QED BY <2>5, <2>6
<1>5. CASE RelayOffHandler
  <2>1. mState' \in State /\ armed' \in Orders
        /\ posted' \in Seq(Endpoint \X State)
    <3>1. CASE IsLocked
      BY <1>1, <1>5, <3>1 DEF RelayOffHandler, Relock, BuzzTypeOK
    <3>2. CASE ~IsLocked
      BY <1>1, <1>5, <3>2, StartKeepsOff, PostIsTyped
         DEF RelayOffHandler, Relock, BuzzTypeOK, State
    <3> QED BY <3>1, <3>2
  <2> QED BY <1>1, <1>5, <2>1 DEF RelayOffHandler, BuzzTypeOK
<1> QED BY <1>3, <1>4, <1>5

LEMMA BuzzNextInv ==
  ASSUME BuzzIInv, [BuzzNext]_buzzVars
  PROVE  BuzzIInv'
<1>1. CASE BuzzNext
  BY <1>1, MatterKeepsInv, MainKeepsInv, TimersKeepInv DEF BuzzNext
<1>2. CASE UNCHANGED buzzVars
  BY <1>2
     DEF buzzVars, stateData, relayVars, attrVars, cmdVars, BuzzIInv,
         BuzzTypeOK, RelayHasOff, OffPending, Running
<1> QED BY <1>1, <1>2

\* The state shared by the three threads keeps its types; with it, the two
\* timers never run twice over.
THEOREM BuzzTypeCorrect == BuzzSpec => []BuzzTypeOK
<1>1. BuzzIInv /\ [BuzzNext]_buzzVars => BuzzIInv'
  BY BuzzNextInv
<1>2. BuzzIInv => BuzzTypeOK
  BY DEF BuzzIInv
<1> QED BY <1>1, <1>2, BuzzInitInv, PTL DEF BuzzSpec

\* Whatever commands come, and whoever preempts whom, a relay that is on has
\* its switching off scheduled or queued (app_task.cpp:109-114).
THEOREM RelayIsReleased == BuzzSpec => []RelayHasOff
<1>1. BuzzIInv /\ [BuzzNext]_buzzVars => BuzzIInv'
  BY BuzzNextInv
<1>2. BuzzIInv => RelayHasOff
  BY DEF BuzzIInv
<1> QED BY <1>1, <1>2, BuzzInitInv, PTL DEF BuzzSpec

-----------------------------------------------------------------------------
(* Handlers that are not interrupted.                                       *)

\* One handler at a time: a command on the Matter thread, the expiry of the
\* actuator timer and what main does of it, or the release of the relay.
OneAtATime ==
  /\ chip # "idle" => /\ app = "idle" /\ tasks = 0 /\ ~off_due
                      /\ mState \in {"locking", "unlocking"}
  /\ off_due => app = "idle" /\ tasks = 0 /\ armed \in {<<>>, <<"act">>}
  /\ tasks > 0 => app = "idle" /\ tasks = 1
  /\ tasks > 0 \/ app \in {"lock", "unlock", "assigned"} => armed = <<>>
  /\ app = "switched" => armed \in {<<>>, <<"off">>}

\* The relay's delay is the first timer to expire, and is there only with the
\* relay on, when the lock is not locked.
RelayFirst ==
  /\ armed # <<"act", "off">>
  /\ off_due \/ armed \in WithOff <=> relay
  /\ relay => ~IsLocked

HoldInv == ~preempted => OneAtATime /\ RelayFirst

LEMMA HoldInit == BuzzInit => HoldInv
BY DEF BuzzInit, HoldInv, OneAtATime, RelayFirst, WithOff, IsLocked

LEMMA MatterKeepsHold ==
  ASSUME BuzzIInv, HoldInv, ~preempted,
         \/ \E e \in Endpoint : UnlockCommand(e) \/ LockCommand(e)
         \/ MatterThread
  PROVE  OneAtATime' /\ RelayFirst'
<1> USE DEF stateData, relayVars, attrVars, cmdVars
<1>1. OneAtATime /\ RelayFirst /\ armed \in Orders
      /\ (Running("off") <=> armed \in WithOff)
  BY OffIsIn DEF HoldInv, BuzzIInv, BuzzTypeOK, Running
<1>2. CASE \E e \in Endpoint : UnlockCommand(e) \/ LockCommand(e)
  <2>1. /\ UNCHANGED <<relay, armed, off_due, tasks, app>>
        /\ app = "idle" /\ tasks = 0 /\ ~off_due
        /\ mState' \in {"locking", "unlocking"}
    BY <1>2 DEF UnlockCommand, LockCommand, MatterMayRun
  <2> QED BY <1>1, <2>1 DEF OneAtATime, RelayFirst, IsLocked
<1>3. CASE CommandSwitch
  <2>1. UNCHANGED <<relay, armed, off_due, tasks, app, mState>>
        /\ chip = "assigned"
    BY <1>1, <1>3 DEF CommandSwitch, SwitchRelay, OneAtATime
  <2> QED BY <1>1, <2>1 DEF OneAtATime, RelayFirst, IsLocked
<1>4. CASE CommandEnd
  <2>1. /\ UNCHANGED <<relay, off_due, tasks, app, mState>>
        /\ chip = "switched" /\ chip' = "idle"
        /\ armed' = IF armed \in WithOff THEN <<"off", "act">> ELSE <<"act">>
    BY <1>1, <1>4 DEF CommandEnd, ActStarted
  <2>2. armed' # <<"act", "off">> /\ (armed' \in WithOff <=> armed \in WithOff)
    BY <2>1 DEF WithOff
  <2> QED BY <1>1, <2>1, <2>2 DEF OneAtATime, RelayFirst, IsLocked
<1>5. CASE UpdateClusterStateHandler
  <2>1. UNCHANGED <<relay, armed, off_due, tasks, app, mState, chip>>
    BY <1>5 DEF UpdateClusterStateHandler
  <2> QED BY <1>1, <2>1 DEF OneAtATime, RelayFirst, IsLocked
<1> QED BY <1>2, <1>3, <1>4, <1>5 DEF MatterThread

LEMMA MainKeepsHold ==
  ASSUME BuzzIInv, HoldInv, ~preempted, MainThread
  PROVE  OneAtATime' /\ RelayFirst'
<1> USE DEF stateData, relayVars, attrVars, cmdVars
<1>1. OneAtATime /\ RelayFirst /\ armed \in Orders /\ tasks \in Nat
      /\ (Running("off") <=> armed \in WithOff)
  BY OffIsIn DEF HoldInv, BuzzIInv, BuzzTypeOK, Running
<1>2. CASE ActuatorTask
  <2>1. /\ UNCHANGED <<relay, armed, off_due, chip, mState>>
        /\ tasks > 0 /\ tasks' = tasks - 1 /\ chip = "idle"
        /\ app' \in {"lock", "unlock", "idle"}
    BY <1>2 DEF ActuatorTask, MainMayRun
  <2>2. tasks = 1 /\ tasks' = 0 /\ armed = <<>>
    BY <1>1, <2>1 DEF OneAtATime
  <2> QED BY <1>1, <2>1, <2>2 DEF OneAtATime, RelayFirst, IsLocked
<1>3. CASE SetState
  <2>1. /\ UNCHANGED <<relay, armed, off_due, chip, tasks>>
        /\ app \in {"lock", "unlock"} /\ app' = "assigned" /\ chip = "idle"
    BY <1>3 DEF SetState, MainMayRun
  <2>2. armed = <<>> /\ ~off_due
    BY <1>1, <2>1 DEF OneAtATime
  <2>3. ~relay
    BY <1>1, <2>2 DEF RelayFirst, WithOff
  <2> QED BY <1>1, <2>1, <2>2, <2>3 DEF OneAtATime, RelayFirst
<1>4. CASE SetStateSwitch
  <2>1. /\ UNCHANGED <<off_due, chip, tasks, mState>>
        /\ app = "assigned" /\ app' = "switched" /\ chip = "idle"
        /\ SwitchRelay
    BY <1>4 DEF SetStateSwitch, MainMayRun
  <2>2. armed = <<>> /\ ~off_due /\ armed \notin WithOff /\ tasks = 0
    BY <1>1, <2>1 DEF OneAtATime, WithOff
  <2>3. CASE mState = "unlocked"
    <3>1. relay' /\ armed' = <<"off">>
      BY <1>1, <2>1, <2>2, <2>3, OrdersStep DEF SwitchRelay, OffScheduled
    <3> QED BY <1>1, <2>1, <2>2, <2>3, <3>1
            DEF OneAtATime, RelayFirst, WithOff, IsLocked
  <2>4. CASE mState # "unlocked"
    <3>1. UNCHANGED <<relay, armed>>
      BY <2>1, <2>4 DEF SwitchRelay
    <3> QED BY <1>1, <2>1, <2>2, <3>1 DEF OneAtATime, RelayFirst, IsLocked
  <2> QED BY <2>3, <2>4
<1>5. CASE SetStateEnd
  <2>1. /\ UNCHANGED <<relay, armed, off_due, chip, tasks, mState>>
        /\ app' = "idle" /\ app = "switched"
    BY <1>5 DEF SetStateEnd
  <2> QED BY <1>1, <2>1 DEF OneAtATime, RelayFirst, IsLocked
<1> QED BY <1>2, <1>3, <1>4, <1>5 DEF MainThread

LEMMA TimersKeepHold ==
  ASSUME BuzzIInv, HoldInv, ~preempted,
         ActuatorTimer \/ RelayTimer \/ RelayOffHandler
  PROVE  OneAtATime' /\ RelayFirst'
<1> USE DEF stateData, relayVars, attrVars, cmdVars
<1>1. OneAtATime /\ RelayFirst /\ armed \in Orders
      /\ (Running("off") <=> armed \in WithOff)
  BY OffIsIn DEF HoldInv, BuzzIInv, BuzzTypeOK, Running
<1>2. CASE ActuatorTimer
  <2>1. /\ UNCHANGED <<relay, off_due, chip, app, mState>>
        /\ chip = "idle" /\ app = "idle" /\ tasks = 0 /\ ~off_due
        /\ tasks' = 1 /\ Head(armed) = "act" /\ armed # <<>>
        /\ armed' = Tail(armed)
    BY <1>2 DEF ActuatorTimer, TimersMayExpire, MatterMayRun, MainMayRun
  <2>2. armed = <<"act">>
    BY <1>1, <2>1, OrdersStep DEF Orders, RelayFirst
  <2>3. armed' = <<>>
    BY <2>1, <2>2, OrdersStep
  <2> QED BY <1>1, <2>1, <2>2, <2>3
          DEF OneAtATime, RelayFirst, WithOff, IsLocked
<1>3. CASE RelayTimer
  <2>1. /\ UNCHANGED <<relay, tasks, chip, app, mState>>
        /\ chip = "idle" /\ app = "idle" /\ tasks = 0
        /\ off_due' /\ Head(armed) = "off" /\ armed # <<>>
        /\ armed' = Tail(armed)
    BY <1>3 DEF RelayTimer, TimersMayExpire, MatterMayRun, MainMayRun
  <2>2. armed \in {<<"off">>, <<"off", "act">>}
    BY <1>1, <2>1, OrdersStep DEF Orders, RelayFirst
  <2>3. armed' \in {<<>>, <<"act">>}
    BY <2>1, <2>2, OrdersStep
  <2>4. armed \in WithOff
    BY <2>2 DEF WithOff
  <2> QED BY <1>1, <2>1, <2>3, <2>4 DEF OneAtATime, RelayFirst, IsLocked
<1>4. CASE RelayOffHandler
  <2>1. /\ UNCHANGED <<tasks, chip, app>> /\ off_due
        /\ ~off_due' /\ ~relay' /\ Relock
    BY <1>4 DEF RelayOffHandler
  <2>2. /\ app = "idle" /\ tasks = 0 /\ chip = "idle"
        /\ armed \in {<<>>, <<"act">>}
    BY <1>1, <2>1 DEF OneAtATime
  <2>3. armed' \in {<<>>, <<"act">>}
    <3>1. ~Running("off")
      BY <1>1, <2>2 DEF WithOff
    <3>2. armed' = armed \/ armed' = <<"act">>
      BY <2>1, <3>1 DEF Relock, ActStarted
    <3> QED BY <2>2, <3>2
  <2> QED BY <2>1, <2>2, <2>3 DEF OneAtATime, RelayFirst, WithOff
<1> QED BY <1>2, <1>3, <1>4

LEMMA NeverChanges == BuzzNext => preempted' = preempted
BY DEF BuzzNext, MatterThread, MainThread, UnlockCommand, LockCommand,
       CommandSwitch, CommandEnd, UpdateClusterStateHandler, ActuatorTask,
       SetState, SetStateSwitch, SetStateEnd, ActuatorTimer, RelayTimer,
       RelayOffHandler

LEMMA HoldNext ==
  ASSUME BuzzIInv, HoldInv, [BuzzNext]_buzzVars
  PROVE  HoldInv'
<1>1. CASE BuzzNext
  <2>1. preempted' = preempted
    BY <1>1, NeverChanges
  <2> QED BY <1>1, <2>1, MatterKeepsHold, MainKeepsHold, TimersKeepHold
          DEF BuzzNext, HoldInv
<1>2. CASE UNCHANGED buzzVars
  BY <1>2 DEF buzzVars, stateData, relayVars, attrVars, cmdVars, HoldInv,
              OneAtATime, RelayFirst, IsLocked
<1> QED BY <1>1, <1>2

\* Without preemption the lock is not locked, and so open to the other
\* endpoint, before the relay is about to be released.
THEOREM RelayAlwaysHolds == BuzzSpec => []RelayHolds
<1>1. BuzzInit => BuzzIInv /\ HoldInv
  BY BuzzInitInv, HoldInit
<1>2. BuzzIInv /\ HoldInv /\ [BuzzNext]_buzzVars => BuzzIInv' /\ HoldInv'
  BY BuzzNextInv, HoldNext
<1>3. HoldInv => RelayHolds
  BY DEF HoldInv, RelayFirst, RelayHolds
<1> QED BY <1>1, <1>2, <1>3, PTL DEF BuzzSpec

-----------------------------------------------------------------------------
(* The attributes and the posts that are to change them.                    *)

\* What LockState of e will be when everything posted has been handled.
WillBe(e, value) ==
  \/ /\ \A k \in 1 .. Len(posted) : posted[k][1] # e
     /\ lock_state[e] = value
  \/ \E k \in 1 .. Len(posted) :
       /\ posted[k][1] = e
       /\ LockStateOf(posted[k][2]) = value
       /\ \A j \in k + 1 .. Len(posted) : posted[j][1] # e

\* The other endpoints will be locked; the lock's own will tell its state,
\* unless a handler has changed it and not yet posted that.
PostsAgree ==
  /\ \A e \in Endpoint : e # mEndpoint => WillBe(e, "Locked")
  /\ chip = "idle" /\ app \notin {"assigned", "switched"} =>
       WillBe(mEndpoint, LockStateOf(mState))

PostInv == ~preempted => PostsAgree

LEMMA PostInit == BuzzInit => PostInv
<1> SUFFICES ASSUME BuzzInit PROVE PostInv
  OBVIOUS
<1>1. posted = <<>> /\ mEndpoint \in Endpoint /\ mState = "locked"
      /\ \A e \in Endpoint : lock_state[e] = "Locked"
  BY DEF BuzzInit
<1>2. 1 .. Len(posted) = {}
  BY <1>1
<1>3. \A e \in Endpoint : WillBe(e, "Locked")
  BY <1>1, <1>2 DEF WillBe
<1> QED BY <1>1, <1>3 DEF PostInv, PostsAgree, LockStateOf

\* A post decides what its endpoint's attribute will be, and no other's.
LEMMA PostDecides ==
  ASSUME BuzzTypeOK, NEW e \in Endpoint, NEW state \in State, Post(e, state),
         UNCHANGED lock_state
  PROVE  /\ WillBe(e, LockStateOf(state))'
         /\ \A f \in Endpoint : \A value :
              f # e /\ WillBe(f, value) => WillBe(f, value)'
<1>1. /\ posted \in Seq(Endpoint \X State) /\ Len(posted) \in Nat
      /\ <<e, state>> \in Endpoint \X State
  BY LenProperties DEF BuzzTypeOK
<1>2. /\ Len(posted') = Len(posted) + 1
      /\ \A k \in 1 .. Len(posted) : posted'[k] = posted[k]
      /\ posted'[Len(posted) + 1] = <<e, state>>
  BY <1>1, AppendProperties DEF Post
<1>3. WillBe(e, LockStateOf(state))'
  <2>1. /\ Len(posted') \in 1 .. Len(posted')
        /\ posted'[Len(posted')] = <<e, state>>
        /\ Len(posted') + 1 .. Len(posted') = {}
    BY <1>1, <1>2
  <2>2. LockStateOf(posted'[Len(posted')][2]) = LockStateOf(state)
    BY <2>1
  <2> QED BY <2>1, <2>2 DEF WillBe, LockStateOf
<1>4. ASSUME NEW f \in Endpoint, NEW value, f # e, WillBe(f, value)
      PROVE  WillBe(f, value)'
  <2>1. posted'[Len(posted) + 1][1] # f
    BY <1>2, <1>4
  <2>2. CASE /\ \A k \in 1 .. Len(posted) : posted[k][1] # f
             /\ lock_state[f] = value
    <3>1. \A k \in 1 .. Len(posted') : posted'[k][1] # f
      BY <1>1, <1>2, <2>1, <2>2
    <3> QED BY <2>2, <3>1 DEF WillBe
  <2>3. CASE ~(/\ \A k \in 1 .. Len(posted) : posted[k][1] # f
               /\ lock_state[f] = value)
    <3>1. PICK k \in 1 .. Len(posted) :
            /\ posted[k][1] = f
            /\ LockStateOf(posted[k][2]) = value
            /\ \A j \in k + 1 .. Len(posted) : posted[j][1] # f
      BY <1>4, <2>3 DEF WillBe
    <3>2. k \in 1 .. Len(posted') /\ posted'[k] = posted[k]
      BY <1>1, <1>2, <3>1
    <3>3. ASSUME NEW j \in k + 1 .. Len(posted') PROVE posted'[j][1] # f
      <4>1. j = Len(posted) + 1 \/ j \in k + 1 .. Len(posted)
        BY <1>1, <1>2, <3>1, <3>3
      <4>2. CASE j \in k + 1 .. Len(posted)
        <5>1. j \in 1 .. Len(posted)
          BY <1>1, <4>2
        <5> QED BY <1>2, <3>1, <4>2, <5>1
      <4> QED BY <2>1, <4>1, <4>2
    <3> QED BY <3>1, <3>2, <3>3 DEF WillBe, LockStateOf
  <2> QED BY <2>2, <2>3
<1> QED BY <1>3, <1>4

\* To handle a post changes nothing of what an attribute will be.
LEMMA HandlerDecides ==
  ASSUME BuzzTypeOK, UpdateClusterStateHandler, NEW f \in Endpoint, NEW value,
         WillBe(f, value)
  PROVE  WillBe(f, value)'
<1>1. /\ posted \in Seq(Endpoint \X State) /\ posted # <<>>
      /\ posted' = Tail(posted)
      /\ lock_state' = [lock_state EXCEPT ![Head(posted)[1]] =
                          LockStateOf(Head(posted)[2])]
      /\ f \in DOMAIN lock_state
  BY DEF UpdateClusterStateHandler, BuzzTypeOK
<1>2. /\ Len(posted) \in Nat \ {0} /\ Len(posted') = Len(posted) - 1
      /\ Head(posted) = posted[1]
      /\ \A k \in 1 .. Len(posted') : posted'[k] = posted[k + 1]
  BY <1>1, LenProperties, HeadTailProperties, EmptySeq
<1>3. CASE /\ \A k \in 1 .. Len(posted) : posted[k][1] # f
           /\ lock_state[f] = value
  <2>1. \A k \in 1 .. Len(posted') : posted'[k][1] # f
    BY <1>2, <1>3
  <2>2. lock_state'[f] = value
    BY <1>1, <1>2, <1>3
  <2> QED BY <2>1, <2>2 DEF WillBe
<1>4. CASE ~(/\ \A k \in 1 .. Len(posted) : posted[k][1] # f
             /\ lock_state[f] = value)
  <2>1. PICK k \in 1 .. Len(posted) :
          /\ posted[k][1] = f
          /\ LockStateOf(posted[k][2]) = value
          /\ \A j \in k + 1 .. Len(posted) : posted[j][1] # f
    BY <1>4 DEF WillBe
  <2>2. CASE k = 1
    <3>1. \A j \in 1 .. Len(posted') : posted'[j][1] # f
      BY <1>2, <2>1, <2>2
    <3>2. lock_state'[f] = value
      BY <1>1, <1>2, <2>1, <2>2
    <3> QED BY <3>1, <3>2 DEF WillBe
  <2>3. CASE k # 1
    <3>1. /\ k - 1 \in 1 .. Len(posted') /\ posted'[k - 1] = posted[k]
          /\ \A j \in (k - 1) + 1 .. Len(posted') : posted'[j][1] # f
      BY <1>2, <2>1, <2>3
    <3> QED BY <2>1, <3>1 DEF WillBe, LockStateOf
  <2> QED BY <2>2, <2>3
<1> QED BY <1>3, <1>4

\* A step that posts nothing and handles nothing.
LEMMA SamePosts ==
  ASSUME UNCHANGED attrVars, NEW f, NEW value
  PROVE  WillBe(f, value)' <=> WillBe(f, value)
BY DEF attrVars, WillBe, LockStateOf

LEMMA PostNext ==
  ASSUME BuzzIInv, HoldInv, PostInv, ~preempted, BuzzNext
  PROVE  PostsAgree'
<1> USE DEF stateData, relayVars, cmdVars
<1>1. /\ PostsAgree /\ OneAtATime /\ RelayFirst /\ BuzzTypeOK
      /\ mEndpoint \in Endpoint /\ mState \in State
  BY DEF PostInv, HoldInv, BuzzIInv, BuzzTypeOK
<1>2. CASE \E e \in Endpoint : UnlockCommand(e) \/ LockCommand(e)
  <2>1. PICK e \in Endpoint : UnlockCommand(e) \/ LockCommand(e)
    BY <1>2
  <2>2. /\ UNCHANGED attrVars /\ chip = "idle" /\ app = "idle"
        /\ chip' = "assigned"
        /\ mEndpoint' = mEndpoint \/ mEndpoint' = e
        /\ mState = "locked" \/ mEndpoint = e
    BY <1>1, <2>1 DEF UnlockCommand, LockCommand, MatterMayRun, IsLocked,
                      IsBusyOnOtherEndpoint
  <2>3. \A f \in Endpoint : f # mEndpoint' => WillBe(f, "Locked")
    <3>1. CASE mState = "locked"
      BY <1>1, <2>2, <3>1 DEF PostsAgree, LockStateOf
    <3>2. CASE mEndpoint = e
      BY <1>1, <2>2, <3>2 DEF PostsAgree
    <3> QED BY <2>2, <3>1, <3>2
  <2> QED BY <2>2, <2>3, SamePosts DEF PostsAgree
<1>3. CASE CommandSwitch \/ ActuatorTimer \/ RelayTimer \/ ActuatorTask
           \/ SetState \/ SetStateSwitch
  <2>1. /\ UNCHANGED <<attrVars, mEndpoint>>
        /\ chip' # "idle" \/ app' \in {"assigned", "switched"}
           \/ /\ chip = "idle" /\ app \notin {"assigned", "switched"}
              /\ mState' = mState
    BY <1>3 DEF CommandSwitch, ActuatorTimer, RelayTimer, ActuatorTask,
                SetState, SetStateSwitch, MainMayRun, TimersMayExpire
  <2> QED BY <1>1, <2>1, SamePosts DEF PostsAgree
<1>4. CASE CommandEnd \/ SetStateEnd
  <2>1. /\ Post(mEndpoint, mState)
        /\ UNCHANGED <<mEndpoint, mState, lock_state>>
    BY <1>4 DEF CommandEnd, SetStateEnd
  <2> QED BY <1>1, <2>1, PostDecides DEF PostsAgree
<1>5. CASE UpdateClusterStateHandler
  <2>1. UNCHANGED <<mEndpoint, mState, chip, app>>
    BY <1>5 DEF UpdateClusterStateHandler
  <2>2. WillBe(mEndpoint, LockStateOf(mState)) =>
          WillBe(mEndpoint, LockStateOf(mState))'
    BY <1>1, <1>5, <2>1, HandlerDecides
  <2> QED BY <1>1, <1>5, <2>1, <2>2, HandlerDecides DEF PostsAgree
<1>6. CASE RelayOffHandler
  <2>1. /\ UNCHANGED <<mEndpoint, chip, app, lock_state>> /\ Relock
        /\ off_due
    BY <1>6 DEF RelayOffHandler
  <2>2. CASE IsLocked
    <3>1. UNCHANGED attrVars /\ mState' = mState
      BY <2>1, <2>2 DEF Relock, attrVars
    <3> QED BY <1>1, <2>1, <3>1, SamePosts DEF PostsAgree
  <2>3. CASE ~IsLocked
    <3>1. mState' = "locking" /\ Post(mEndpoint, "locking")
          /\ "locking" \in State
      BY <2>1, <2>3 DEF Relock, State
    <3> QED BY <1>1, <2>1, <3>1, PostDecides DEF PostsAgree
  <2> QED BY <2>2, <2>3
<1> QED BY <1>2, <1>3, <1>4, <1>5, <1>6
        DEF BuzzNext, MatterThread, MainThread

\* Without preemption the two LockState attributes tell what the lock does
\* whenever nothing is under way, for any number of endpoints and commands.
THEOREM AttributesAlwaysAgree == BuzzSpec => []AttributesAgree
<1>1. BuzzInit => BuzzIInv /\ HoldInv /\ PostInv
  BY BuzzInitInv, HoldInit, PostInit
<1>2. ASSUME BuzzIInv, HoldInv, PostInv, [BuzzNext]_buzzVars
      PROVE  BuzzIInv' /\ HoldInv' /\ PostInv'
  <2>1. CASE BuzzNext
    <3>1. preempted' = preempted
      BY <2>1, NeverChanges
    <3> QED BY <1>2, <2>1, <3>1, BuzzNextInv, HoldNext, PostNext DEF PostInv
  <2>2. CASE UNCHANGED buzzVars
    <3>1. UNCHANGED <<attrVars, mEndpoint, mState, chip, app, preempted>>
      BY <2>2 DEF buzzVars, stateData
    <3>2. PostInv'
      BY <1>2, <3>1, SamePosts DEF PostInv, PostsAgree
    <3> QED BY <1>2, <3>2, BuzzNextInv, HoldNext
  <2> QED BY <1>2, <2>1, <2>2
<1>3. BuzzIInv /\ PostInv => AttributesAgree
  <2> SUFFICES ASSUME BuzzIInv, PostInv, ~preempted, Settled,
                      NEW e \in Endpoint
               PROVE  lock_state[e] = IF e = mEndpoint THEN LockStateOf(mState)
                                      ELSE "Locked"
    BY DEF AttributesAgree
  <2>1. PostsAgree /\ 1 .. Len(posted) = {}
        /\ chip = "idle" /\ app = "idle"
    BY DEF PostInv, Settled
  <2> QED BY <2>1 DEF PostsAgree, WillBe
<1> QED BY <1>1, <1>2, <1>3, PTL DEF BuzzSpec

-----------------------------------------------------------------------------
(* THE DOOR LINK (DoorLink): no counter is used twice and no unlock opens the*)
(* deadbolt twice, for any number of commands and resets, as long as the    *)
(* settings can be read whenever the device boots.                          *)

\* What survives a reset lies at or above every counter that was used.
Floor == \A u \in used : u.counter <= saved \/ u.counter <= counter_min

\* So does the counter in RAM, from which the next is made; and what it was
\* made from survives too.
Above == sReady => /\ \A u \in used : u.counter <= sCounter
                   /\ sCounter <= saved \/ sCounter <= counter_min

\* Before it has run Init the device has what its build gives it.
Booting == ~boot => sCounter = counter_min /\ ~sReady

\* SendUnlock works on a counter that is saved, and new until it is signed.
Sending ==
  /\ sender # "idle" => sReady /\ sCounter <= saved
  /\ sender \in {"saved", "put"} => \A u \in used : u.counter < sCounter
  /\ sender \in {"saved", "put"} => \A u \in used : u.command < unlocks
  /\ sender \in {"saved", "put"} => unlocks \in 1 .. MaxUnlocks /\ sCounter > 0

\* No command is yet to come.
Past == \A u \in used : u.command <= unlocks

\* CountersIncrease without its condition.
Increasing == \A u, v \in used : u.command < v.command => u.counter < v.counter

CounterInv == Floor /\ Above /\ Booting /\ Sending /\ Past /\ Increasing

\* A tag is one that was signed for a command.
Signed(tag) == \E u \in used : u.counter = tag

PacketInv ==
  /\ sPacket.tag > 0 => Signed(sPacket.tag)
  /\ sender = "put" => sPacket.counter = sCounter
  /\ \A p \in air : p.tag > 0 => Signed(p.tag)

\* A command has one counter; those opened for were signed, and the deadbolt
\* is past them.
OpenedInv ==
  /\ \A c \in opened : \E u \in used : u.command = c
  /\ \A u, v \in used : u.command = v.command => u.counter = v.counter
  /\ \A u \in used : u.command \in opened => u.counter <= last

CountingInv == CounterInv /\ PacketInv /\ OpenedInv

\* A command is in hand while its packet is made.
TypeInv ==
  /\ DoorTypeOK
  /\ sender \in {"saved", "put"} => unlocks \in 1 .. MaxUnlocks

\* Every load that fails may set the counter back: until then, CountingInv.
DoorIInv == TypeInv /\ (~load_failed => CountingInv)

LEMMA DoorInitInv == DoorInit => DoorIInv
<1> SUFFICES ASSUME DoorInit PROVE DoorIInv OBVIOUS
<1>1. TypeInv
  <2>1. sPacket \in [counter : Nat, tag : Nat]
    BY DEF DoorInit, NoPacket
  <2>2. air \subseteq [counter : Nat, tag : Nat]
    BY DEF DoorInit
  <2>3. used \subseteq [counter : Nat, command : 1 .. MaxUnlocks]
    BY DEF DoorInit
  <2>4. unlocks \in 0 .. MaxUnlocks /\ opened \subseteq 1 .. MaxUnlocks
    BY MaxUnlocksIsNatural DEF DoorInit
  <2>5. /\ saved \in Nat /\ counter_min \in Nat /\ sCounter \in Nat
        /\ last \in Nat /\ sReady \in BOOLEAN /\ repeat \in BOOLEAN
        /\ boot \in BOOLEAN /\ load_failed \in BOOLEAN
        /\ sender = "idle"
    BY DEF DoorInit
  <2> QED BY <2>1, <2>2, <2>3, <2>4, <2>5 DEF TypeInv, DoorTypeOK
<1>2. CounterInv
  BY DEF DoorInit, CounterInv, Floor, Above, Booting, Sending, Past,
         Increasing
<1>3. PacketInv /\ OpenedInv
  BY DEF DoorInit, NoPacket, PacketInv, OpenedInv
<1> QED BY <1>1, <1>2, <1>3 DEF DoorIInv, CountingInv

\* The types, whatever is loaded.
LEMMA TypesKept ==
  ASSUME TypeInv, [DoorNext]_doorVars
  PROVE  TypeInv'
<1> USE DEF TypeInv, DoorTypeOK, flashVars, ramVars, histVars
<1>1. CASE Reset
  BY <1>1 DEF Reset, NoPacket
<1>2. ASSUME NEW min \in 0 .. MaxMin, Reflash(min) PROVE TypeInv'
  BY <1>2, MaxMinIsNatural DEF Reflash
<1>3. ASSUME NEW loaded \in BOOLEAN, NEW opens \in BOOLEAN,
             InitLink(loaded, opens)
      PROVE  TypeInv'
  <2>1. sCounter' \in Nat
    BY <1>3 DEF InitLink, CounterLoaded
  <2> QED BY <1>3, <2>1 DEF InitLink
<1>4. ASSUME NEW ok \in BOOLEAN, SendUnlock(ok) PROVE TypeInv'
  BY <1>4, MaxUnlocksIsNatural DEF SendUnlock, SaveCounter
<1>5. CASE PutCounter
  BY <1>5 DEF PutCounter
<1>6. CASE Sign
  <2>1. [counter |-> sCounter, command |-> unlocks]
          \in [counter : Nat, command : 1 .. MaxUnlocks]
    BY <1>6 DEF Sign
  <2> QED BY <1>6, <2>1 DEF Sign
<1>7. CASE SignFails
  BY <1>7 DEF SignFails
<1>8. ASSUME NEW ok \in BOOLEAN, SendFirst(ok) \/ RepeatHandler(ok)
      PROVE  TypeInv'
  <2>1. air' = air \/ air' = air \union {sPacket}
    BY <1>8 DEF SendFirst, RepeatHandler, Transmit
  <2> QED BY <1>8, <2>1 DEF SendFirst, RepeatHandler
<1>9. ASSUME NEW p \in air, Lose(p) \/ Deliver(p) PROVE TypeInv'
  <2>1. CommandsOf(p.counter) \subseteq 1 .. MaxUnlocks
    BY DEF CommandsOf
  <2> QED BY <1>9, <2>1 DEF Lose, Deliver
<1>10. CASE UNCHANGED doorVars
  BY <1>10 DEF doorVars
<1> QED BY <1>1, <1>2, <1>3, <1>4, <1>5, <1>6, <1>7, <1>8, <1>9, <1>10
        DEF DoorNext

\* Boot, reset and reflash: RAM is lost, and what survives is above the floor.
LEMMA BootKeepsInv ==
  ASSUME DoorTypeOK, CountingInv, ~load_failed',
         \/ Reset
         \/ \E min \in 0 .. MaxMin : Reflash(min)
         \/ \E loaded, opens \in BOOLEAN : InitLink(loaded, opens)
  PROVE  CountingInv'
<1> USE DEF CountingInv, flashVars, ramVars, histVars
<1>1. CASE Reset
  <2>1. CounterInv'
    BY <1>1 DEF Reset, DoorTypeOK, CounterInv, Floor, Above, Booting, Sending,
                Past, Increasing
  <2>2. PacketInv'
    BY <1>1 DEF Reset, NoPacket, PacketInv, Signed
  <2>3. OpenedInv'
    BY <1>1 DEF Reset, OpenedInv
  <2> QED BY <2>1, <2>2, <2>3
<1>2. ASSUME NEW min \in 0 .. MaxMin, Reflash(min)
      PROVE  CountingInv'
  <2>1. CounterInv'
    BY <1>2, MaxMinIsNatural
       DEF Reflash, DoorTypeOK, CounterInv, Floor, Above, Booting, Sending,
           Past, Increasing
  <2>2. PacketInv'
    BY <1>2 DEF Reflash, PacketInv, Signed, CounterInv, Booting, Sending
  <2>3. OpenedInv'
    BY <1>2 DEF Reflash, OpenedInv
  <2> QED BY <2>1, <2>2, <2>3
<1>3. ASSUME NEW loaded \in BOOLEAN, NEW opens \in BOOLEAN,
             InitLink(loaded, opens)
      PROVE  CountingInv'
  <2>1. sCounter' = IF saved > sCounter THEN saved ELSE sCounter
    BY <1>3 DEF InitLink, CounterLoaded
  <2>2. CounterInv'
    BY <1>3, <2>1
       DEF InitLink, DoorTypeOK, CounterInv, Floor, Above, Booting, Sending,
           Past, Increasing
  <2>3. PacketInv' /\ OpenedInv'
    BY <1>3, <2>1
       DEF InitLink, DoorTypeOK, CounterInv, Booting, Sending, PacketInv,
           Signed, OpenedInv
  <2> QED BY <2>2, <2>3
<1> QED BY <1>1, <1>2, <1>3

\* SendUnlock up to the packet: the counter in RAM grows, past every used one.
LEMMA SaveKeepsInv ==
  ASSUME DoorTypeOK, CountingInv,
         \/ \E ok \in BOOLEAN : SendUnlock(ok)
         \/ PutCounter
         \/ SignFails
  PROVE  CountingInv'
<1> USE DEF CountingInv, flashVars, ramVars, histVars
<1>1. ASSUME NEW ok \in BOOLEAN, SendUnlock(ok)
      PROVE  CountingInv'
  <2>1. Floor' /\ Above' /\ Booting' /\ Past' /\ Increasing'
    BY <1>1 DEF SendUnlock, SaveCounter, DoorTypeOK, CounterInv, Floor, Above,
                Booting, Sending, Past, Increasing
  <2>2. Sending'
    BY <1>1, MaxUnlocksIsNatural
       DEF SendUnlock, SaveCounter, DoorTypeOK, CounterInv, Above, Sending, Past
  <2>3. PacketInv' /\ OpenedInv'
    BY <1>1 DEF SendUnlock, SaveCounter, DoorTypeOK, PacketInv, Signed, OpenedInv
  <2> QED BY <2>1, <2>2, <2>3 DEF CounterInv
<1>2. CASE PutCounter
  <2>1. CounterInv'
    BY <1>2 DEF PutCounter, DoorTypeOK, CounterInv, Floor, Above, Booting,
                Sending, Past, Increasing
  <2>2. PacketInv' /\ OpenedInv'
    BY <1>2 DEF PutCounter, DoorTypeOK, PacketInv, Signed, OpenedInv
  <2> QED BY <2>1, <2>2
<1>3. CASE SignFails
  <2>1. CounterInv'
    BY <1>3 DEF SignFails, DoorTypeOK, CounterInv, Floor, Above, Booting,
                Sending, Past, Increasing
  <2>2. PacketInv' /\ OpenedInv'
    BY <1>3 DEF SignFails, DoorTypeOK, PacketInv, Signed, OpenedInv
  <2> QED BY <2>1, <2>2
<1> QED BY <1>1, <1>2, <1>3

\* Signing gives the counter its meaning.
LEMMA SignKeepsInv ==
  ASSUME DoorTypeOK, CountingInv, Sign
  PROVE  CountingInv'
<1> DEFINE new == [counter |-> sCounter, command |-> unlocks]
<1> USE DEF CountingInv, flashVars, ramVars, histVars
<1>1. /\ used' = used \union {new}
      /\ new.counter = sCounter /\ new.command = unlocks
      /\ new \in [counter : Nat, command : 1 .. MaxUnlocks]
  BY DEF Sign, DoorTypeOK, CounterInv, Sending
<1> HIDE DEF new
<1>2. Floor' /\ Above' /\ Booting' /\ Past'
  BY <1>1 DEF Sign, DoorTypeOK, CounterInv, Floor, Above, Booting, Sending, Past
<1>3. Sending' /\ Increasing'
  BY <1>1 DEF Sign, DoorTypeOK, CounterInv, Sending, Past, Increasing
<1>4. PacketInv'
  BY <1>1 DEF Sign, DoorTypeOK, PacketInv, Signed
<1>5. OpenedInv'
  <2>1. \A u \in used : u.command # unlocks
    BY DEF Sign, DoorTypeOK, CounterInv, Sending
  <2>2. unlocks \notin opened
    BY <2>1 DEF OpenedInv
  <2>3. opened' = opened /\ last' = last
    BY DEF Sign
  <2> QED BY <1>1, <2>1, <2>2, <2>3 DEF OpenedInv
<1> QED BY <1>2, <1>3, <1>4, <1>5 DEF CounterInv

\* A transmission puts a packet whose tag was signed on the air.
LEMMA SendKeepsInv ==
  ASSUME DoorTypeOK, CountingInv, NEW ok \in BOOLEAN,
         SendFirst(ok) \/ RepeatHandler(ok)
  PROVE  CountingInv'
<1> USE DEF CountingInv, flashVars, ramVars, histVars
<1>1. /\ UNCHANGED <<saved, counter_min, sCounter, sReady, sPacket, boot, last,
                     unlocks, used, opened>>
      /\ sender' = "idle" \/ sender' = sender
      /\ repeat' \in BOOLEAN
      /\ air' = air \/ air' = air \union {sPacket}
  BY DEF SendFirst, RepeatHandler, Transmit
<1>2. CounterInv'
  BY <1>1 DEF DoorTypeOK, CounterInv, Floor, Above, Booting, Sending, Past,
              Increasing
<1>3. PacketInv'
  BY <1>1 DEF PacketInv, Signed
<1>4. OpenedInv'
  BY <1>1 DEF OpenedInv
<1> QED BY <1>2, <1>3, <1>4

\* What the radio and the deadbolt do changes nothing on the device.
LEMMA AirKeepsInv ==
  ASSUME DoorTypeOK, CountingInv, NEW p \in air, Lose(p) \/ Deliver(p)
  PROVE  CountingInv'
<1> USE DEF CountingInv, flashVars, ramVars, histVars
<1>1. /\ UNCHANGED <<saved, counter_min, sCounter, sReady, sPacket, repeat, boot,
                     sender, unlocks, used>>
      /\ air' \subseteq air
  BY DEF Lose, Deliver
<1>2. CounterInv' /\ PacketInv'
  BY <1>1 DEF CounterInv, Floor, Above, Booting, Sending, Past,
              Increasing, PacketInv, Signed
<1>3. CASE Lose(p)
  BY <1>1, <1>2, <1>3 DEF Lose, DoorTypeOK, OpenedInv
<1>4. CASE Deliver(p)
  <2>1. p \in [counter : Nat, tag : Nat]
    BY DEF DoorTypeOK
  <2>2. last' = p.counter /\ opened' = opened \union CommandsOf(p.counter)
    BY <1>4 DEF Deliver
  <2>3. \A c \in CommandsOf(p.counter) :
          \E v \in used : v.command = c /\ v.counter = p.counter
    BY DEF CommandsOf
  <2>4. OpenedInv'
    <3>1. \A c \in opened' : \E u \in used : u.command = c
      BY <2>2, <2>3 DEF OpenedInv
    <3>2. ASSUME NEW u \in used, u.command \in opened'
          PROVE  u.counter <= last'
      <4>1. CASE u.command \in opened
        BY <1>4, <2>1, <2>2, <4>1 DEF OpenedInv, Deliver, DoorTypeOK
      <4>2. CASE u.command \in CommandsOf(p.counter)
        BY <2>1, <2>2, <2>3, <4>2 DEF OpenedInv
      <4> QED BY <2>2, <3>2, <4>1, <4>2
    <3> QED BY <1>1, <3>1, <3>2 DEF OpenedInv
  <2> QED BY <1>2, <2>4
<1> QED BY <1>3, <1>4

LEMMA DoorNextInv ==
  ASSUME DoorIInv, [DoorNext]_doorVars
  PROVE  DoorIInv'
<1>1. TypeInv'
  BY TypesKept DEF DoorIInv
<1>2. ASSUME ~load_failed' PROVE CountingInv'
  <2>1. ~load_failed
    BY <1>2 DEF DoorNext, doorVars, DoorIInv, TypeInv, DoorTypeOK, Reset, Reflash,
       InitLink, SendUnlock, PutCounter, Sign, SignFails, SendFirst,
       RepeatHandler, Lose, Deliver
  <2>2. DoorTypeOK /\ CountingInv
    BY <2>1 DEF DoorIInv, TypeInv
  <2>3. CASE DoorNext
    BY <1>2, <2>2, <2>3, BootKeepsInv, SaveKeepsInv, SignKeepsInv,
       SendKeepsInv, AirKeepsInv DEF DoorNext
  <2>4. CASE UNCHANGED doorVars
    BY <2>2, <2>4
       DEF doorVars, flashVars, ramVars, histVars, CountingInv, CounterInv,
           Floor, Above, Booting, Sending, Past, Increasing, PacketInv, Signed,
           OpenedInv
  <2> QED BY <2>3, <2>4
<1> QED BY <1>1, <1>2 DEF DoorIInv

\* In every state the packets, the counter and what survives are as DoorIInv
\* says.
LEMMA DoorInvariant == DoorSpec => []DoorIInv
<1>1. DoorIInv /\ [DoorNext]_doorVars => DoorIInv'
  BY DoorNextInv
<1> QED BY <1>1, DoorInitInv, PTL DEF DoorSpec

\* The variables of door_link.cpp keep their types.
THEOREM DoorTypeCorrect == DoorSpec => []DoorTypeOK
<1>1. DoorIInv => DoorTypeOK
  BY DEF DoorIInv, TypeInv
<1> QED BY <1>1, DoorInvariant, PTL

\* Across any number of resets, failed saves and flashed builds each command
\* gets a counter above those of the commands before it, so none goes out twice
\* with different meanings (door_link.cpp:143-152).
THEOREM CountersNeverReused == DoorSpec => []CountersIncrease
<1>1. DoorIInv => CountersIncrease
  BY DEF DoorIInv, CountingInv, CounterInv, Increasing, CountersIncrease
<1> QED BY <1>1, DoorInvariant, PTL

\* The deadbolt opens once for an unlock, however often and in whatever order
\* its packets arrive (the repeat of door_link.cpp:101-104).
THEOREM UnlockOpensOnce == DoorSpec => OpensOnce
<1>1. ASSUME DoorIInv, [DoorNext]_doorVars, ~load_failed, last' # last
      PROVE  opened' # opened
  <2>1. PICK p \in air : Deliver(p)
    BY <1>1 DEF DoorNext, doorVars, flashVars, ramVars, histVars, Reset, Reflash,
                InitLink, SendUnlock, PutCounter, Sign, SignFails, SendFirst,
                RepeatHandler, Lose
  <2>2. p.tag = p.counter /\ p.counter > last /\ p.counter \in Nat /\ last \in Nat
    BY <1>1, <2>1 DEF Deliver, DoorIInv, TypeInv, DoorTypeOK
  <2>3. PICK u \in used : u.counter = p.counter
    BY <1>1, <2>2 DEF DoorIInv, CountingInv, PacketInv, Signed
  <2>4. u.command \notin opened
    BY <1>1, <2>2, <2>3 DEF DoorIInv, CountingInv, OpenedInv
  <2>5. u.command \in CommandsOf(p.counter)
    BY <2>3 DEF CommandsOf
  <2> QED BY <2>1, <2>4, <2>5 DEF Deliver
<1>2. DoorIInv /\ [DoorNext]_doorVars =>
        [~load_failed /\ last' # last => opened' # opened]_doorVars
  BY <1>1
<1> QED BY <1>2, DoorInvariant, PTL DEF DoorSpec, OpensOnce

-----------------------------------------------------------------------------
(* THE ACCESS MANAGER (AccessManager), for any sizes of its tables and any  *)
(* stores that fail: the types, lists of indexes that never refuse one, and *)
(* what was stored whole read back after a restart.                         *)

-----------------------------------------------------------------------------
(* The tables and their entries.                                            *)

LEMMA TableKinds ==
  /\ UserTable \in Tables /\ PinTable \in Tables
  /\ UserTable # PinTable
  /\ Owners \subseteq Tables
  /\ \A t \in Owners : t # UserTable /\ t # PinTable
  /\ \A t \in Tables : t = UserTable \/ t = PinTable \/ t \in Owners
  /\ \A t \in Tables : Capacity(t) \in Nat \ {0}
<1>1. \A t \in Owners : t # UserTable /\ t # PinTable
  BY OwnersHaveAKind DEF UserTable, PinTable
<1>2. UserTable # PinTable
  BY DEF UserTable, PinTable
<1> QED BY <1>1, <1>2, SizesArePositive
        DEF Tables, UserTable, PinTable, Capacity

LEMMA SlotOf ==
  /\ \A t \in Tables : \A i \in Index(t) : <<t, i>> \in Slots
  /\ \A s \in Slots : /\ s[1] \in Tables /\ s[2] \in Index(s[1])
                      /\ s = <<s[1], s[2]>>
BY DEF Slots

LEMMA EntryOf ==
  ASSUME NEW t \in Tables
  PROVE  /\ Entry(t) \subseteq User \cup Pin \cup Schedule
         /\ Initial(t) \in Entry(t)
         /\ None \notin Entry(t)
<1>1. NoUser \in User /\ NoPin \in Pin /\ NoSchedule \in Schedule
  BY SizesArePositive DEF NoUser, User, NoPin, Pin, NoSchedule, Schedule
<1> QED BY <1>1, NoneIsNoEntry DEF Entry, Initial

\* What is stored of an entry is an entry, and storing it again adds nothing.
LEMMA SerializedOf ==
  ASSUME NEW t \in Tables, NEW e \in Entry(t)
  PROVE  /\ Serialized(t, e) \in Entry(t)
         /\ Serialized(t, Serialized(t, e)) = Serialized(t, e)
<1>1. CASE t # UserTable
  BY <1>1 DEF Serialized
<1>2. CASE t = UserTable
  <2>1. e \in User
    BY <1>2 DEF Entry
  <2> DEFINE cut == [k \in 1 .. PinsPerUser |-> IF k <= e.size THEN e.pins[k]
                                                ELSE 0]
  <2>2. SerializedUser(e) = [e EXCEPT !.pins = cut]
    BY <2>1 DEF SerializedUser
  <2>3. /\ cut \in [1 .. PinsPerUser -> Pins \cup {0}]
        /\ cut = [k \in 1 .. PinsPerUser |-> IF k <= e.size THEN cut[k] ELSE 0]
    BY <2>1 DEF User
  <2> HIDE DEF cut
  <2>4. SerializedUser(e) \in User
    BY <2>1, <2>2, <2>3 DEF User
  <2>5. SerializedUser(SerializedUser(e)) = SerializedUser(e)
    BY <2>1, <2>2, <2>3 DEF User, SerializedUser
  <2> QED BY <1>2, <2>4, <2>5 DEF Serialized, Entry
<1> QED BY <1>1, <1>2

-----------------------------------------------------------------------------
(* The lists of indexes.                                                    *)

\* A list of distinct indexes that lacks one is shorter than its table.
LEMMA ListHasRoom ==
  ASSUME NEW t \in Tables, NEW list \in Seq(Nat), ListFits(t, list),
         NEW i \in Index(t), i \notin InList(list)
  PROVE  Len(list) < Capacity(t)
<1>1. /\ Capacity(t) \in Nat /\ Index(t) = 1 .. Capacity(t)
      /\ i \in 1 .. Capacity(t)
  BY TableKinds DEF Index
<1>2. Len(list) \in Nat /\ list \in [1 .. Len(list) -> Nat]
  BY LenProperties
<1>3. list \in Injection(1 .. Len(list), Index(t) \ {i})
  <2>1. \A k \in 1 .. Len(list) : list[k] \in InList(list)
    BY DEF InList
  <2>2. list \in [1 .. Len(list) -> Index(t) \ {i}]
    BY <1>2, <2>1 DEF ListFits
  <2> QED BY <2>2 DEF ListFits, Injection, IsInjective
<1>4. /\ IsFiniteSet(Index(t)) /\ Cardinality(Index(t)) = Capacity(t)
  BY <1>1, FS_Interval
<1>5. /\ IsFiniteSet(Index(t) \ {i})
      /\ Cardinality(Index(t) \ {i}) = Capacity(t) - 1
  BY <1>4, FS_RemoveElement
<1>6. Cardinality(1 .. Len(list)) = Len(list)
  <2> DEFINE n == Len(list)
  <2>1. n \in Nat
    BY <1>2
  <2> HIDE DEF n
  <2>2. Cardinality(1 .. n) = n
    BY <2>1, FS_Interval
  <2> QED BY <2>2 DEF n
<1>7. Len(list) <= Capacity(t) - 1
  BY <1>3, <1>5, <1>6, FS_Injection
<1> QED BY <1>1, <1>2, <1>7

\* AddIndex adds, and keeps a list of distinct indexes.
LEMMA IndexAdded ==
  ASSUME NEW t \in Tables, NEW i \in Index(t),
         indexes \in [Tables -> Seq(Nat)], ListFits(t, indexes[t])
  PROVE  /\ ~Full(t, i)
         /\ AddIndex(t, i) \in Seq(Nat)
         /\ InList(AddIndex(t, i)) = InList(indexes[t]) \cup {i}
         /\ ListFits(t, AddIndex(t, i))
<1> DEFINE list == indexes[t]
<1>1. list \in Seq(Nat) /\ i \in Nat
  BY TableKinds DEF Index
<1>2. ~Full(t, i)
  <2>1. CASE Known(t, i)
    BY <2>1 DEF Full
  <2>2. CASE ~Known(t, i)
    <3>1. Len(list) < Capacity(t)
      BY <1>1, <2>2, ListHasRoom DEF Known
    <3>2. Len(list) \in Nat /\ Capacity(t) \in Nat
      BY <1>1, TableKinds, LenProperties
    <3> QED BY <3>1, <3>2 DEF Full
  <2> QED BY <2>1, <2>2
<1>3. CASE Known(t, i)
  BY <1>1, <1>2, <1>3 DEF AddIndex, Known
<1>4. CASE ~Known(t, i)
  <2>1. AddIndex(t, i) = Append(list, i)
    BY <1>2, <1>4 DEF AddIndex
  <2>2. i \notin InList(list)
    BY <1>4 DEF Known
  <2> HIDE DEF list
  <2>3. /\ Append(list, i) \in Seq(Nat)
        /\ Len(list) \in Nat
        /\ Len(Append(list, i)) = Len(list) + 1
        /\ \A k \in 1 .. Len(list) : Append(list, i)[k] = list[k]
        /\ Append(list, i)[Len(list) + 1] = i
    BY <1>1, AppendProperties, LenProperties
  <2> DEFINE new == Append(list, i)
  <2> HIDE DEF new
  <2>4. /\ new \in Seq(Nat) /\ Len(list) \in Nat /\ Len(new) = Len(list) + 1
        /\ \A k \in 1 .. Len(list) : new[k] = list[k]
        /\ new[Len(list) + 1] = i
    BY <2>3 DEF new
  <2>5. InList(new) = InList(list) \cup {i}
    <3>1. 1 .. Len(new) = (1 .. Len(list)) \cup {Len(list) + 1}
      BY <2>4
    <3>2. InList(new)
            = {new[k] : k \in 1 .. Len(list)} \cup {new[Len(list) + 1]}
      BY <3>1 DEF InList
    <3>3. {new[k] : k \in 1 .. Len(list)} = InList(list)
      BY <2>4 DEF InList
    <3> QED BY <2>4, <3>2, <3>3
  <2>6. ListFits(t, list)
    BY DEF list
  <2>7. InList(new) \subseteq Index(t)
    BY <2>5, <2>6 DEF ListFits
  <2>8. ASSUME NEW j \in 1 .. Len(new), NEW k \in 1 .. Len(new),
               new[j] = new[k]
        PROVE  j = k
    <3>1. \A l \in 1 .. Len(list) : list[l] # i
      BY <2>2 DEF InList
    <3>2. \A l \in 1 .. Len(new) : l \in 1 .. Len(list) \/ l = Len(list) + 1
      BY <2>4
    <3>3. CASE j \in 1 .. Len(list) /\ k \in 1 .. Len(list)
      BY <2>4, <2>6, <2>8, <3>3 DEF ListFits
    <3>4. CASE j = Len(list) + 1 \/ k = Len(list) + 1
      BY <2>4, <2>8, <3>1, <3>2, <3>4
    <3> QED BY <3>2, <3>3, <3>4
  <2> QED BY <1>2, <2>1, <2>3, <2>5, <2>7, <2>8 DEF ListFits, new, list
<1> QED BY <1>3, <1>4

-----------------------------------------------------------------------------
(* What a restart reads.                                                    *)

\* There is a last one of some numbers of which there are finitely many.
LEMMA MaxExists ==
  ASSUME NEW n \in Nat, NEW S \in SUBSET (1 .. n), S # {}
  PROVE  \E k \in S : \A j \in S : j <= k
<1> DEFINE T == {n - k : k \in S}
           Less == {ss \in Nat \X Nat : ss[1] < ss[2]}
<1>1. IsWellFoundedOn(Less, Nat)
  BY NatLessThanWellFounded DEF OpToRel
<1>2. \A k \in S : n - k \in Nat /\ n - k \in T
  OBVIOUS
<1>3. T \subseteq Nat /\ T # {}
  BY <1>2
<1>4. \A x \in T : \E k \in S : x = n - k
  OBVIOUS
<1> HIDE DEF T
<1>5. PICK x \in T : \A y \in T : <<y, x>> \notin Less
  <2> HIDE DEF Less
  <2> QED BY <1>1, <1>3, WFMin
<1>6. \A y \in T : ~(y < x)
  BY <1>3, <1>5
<1>7. PICK k \in S : x = n - k
  BY <1>4
<1>8. \A j \in S : j <= k
  BY <1>2, <1>6, <1>7
<1> QED BY <1>8

StorageOK ==
  /\ nv_entry \in [Slots -> User \cup Pin \cup Schedule \cup {None}]
  /\ \A s \in Slots : nv_entry[s] \in Entry(s[1]) \cup {None}
  /\ nv_indexes \in [Tables -> Seq(Nat)]
  /\ \A t \in Tables : ListFits(t, nv_indexes[t])

\* The buffer has a PIN in it, the one that was found or one found before.
LEMMA BufferIsPin ==
  ASSUME StorageOK, NEW n \in 0 .. Len(nv_indexes[PinTable])
  PROVE  Buffer(n) \in Pin
<1> DEFINE list == nv_indexes[PinTable]
<1>1. CASE Found(n) = {}
  BY <1>1, TableKinds, EntryOf DEF Buffer, Initial, Entry
<1>2. CASE Found(n) # {}
  <2>1. list \in Seq(Nat) /\ Len(list) \in Nat
    BY TableKinds, LenProperties DEF StorageOK
  <2>2. n \in Nat /\ Found(n) \in SUBSET (1 .. n)
    BY <2>1 DEF Found
  <2>3. \E k \in Found(n) : \A j \in Found(n) : j <= k
    BY <1>2, <2>2, MaxExists
  <2>4. LastFound(n) \in Found(n)
    BY <2>3 DEF LastFound
  <2>5. /\ LastFound(n) \in 1 .. Len(list)
        /\ nv_entry[<<PinTable, list[LastFound(n)]>>] # None
    BY <2>1, <2>4 DEF Found
  <2>6. list[LastFound(n)] \in Index(PinTable)
    BY <2>5, TableKinds DEF StorageOK, ListFits, InList
  <2>7. <<PinTable, list[LastFound(n)]>> \in Slots
    BY <2>6, SlotOf, TableKinds
  <2>8. nv_entry[<<PinTable, list[LastFound(n)]>>] \in Entry(PinTable)
    BY <2>5, <2>7 DEF StorageOK
  <2> QED BY <1>2, <2>8, TableKinds DEF Buffer, Entry
<1> QED BY <1>1, <1>2

LEMMA PositionOf ==
  ASSUME StorageOK, NEW i \in InList(nv_indexes[PinTable])
  PROVE  /\ Position(i) \in 1 .. Len(nv_indexes[PinTable])
         /\ nv_indexes[PinTable][Position(i)] = i
BY DEF Position, InList

\* Whatever could not be loaded, each entry has its type.
LEMMA LoadedType ==
  ASSUME StorageOK, NEW s \in Slots
  PROVE  Loaded(s[1], s[2]) \in Entry(s[1])
<1>1. s[1] \in Tables /\ s[2] \in Index(s[1]) /\ s = <<s[1], s[2]>>
  BY SlotOf
<1>2. CASE s[1] # PinTable
  BY <1>1, <1>2, EntryOf DEF Loaded, LoadedEntry, StorageOK
<1>3. CASE s[1] = PinTable
  <2>1. CASE s[2] \in InList(nv_indexes[PinTable])
    <3>1. Position(s[2]) \in 0 .. Len(nv_indexes[PinTable])
      BY <2>1, PositionOf
    <3> QED BY <1>3, <2>1, <3>1, BufferIsPin, TableKinds
            DEF Loaded, LoadedPin, Entry
  <2>2. CASE s[2] \notin InList(nv_indexes[PinTable])
    BY <1>3, <2>2, TableKinds, EntryOf DEF Loaded, LoadedPin, Initial
  <2> QED BY <2>1, <2>2
<1> QED BY <1>2, <1>3

\* An entry that is listed and stored is what is loaded, PINs behind absent
\* ones included.
LEMMA LoadedIsStored ==
  ASSUME StorageOK, NEW s \in Slots,
         s[2] \in InList(nv_indexes[s[1]]), nv_entry[s] # None
  PROVE  Loaded(s[1], s[2]) = nv_entry[s]
<1>1. s[1] \in Tables /\ s = <<s[1], s[2]>>
  BY SlotOf
<1>2. CASE s[1] # PinTable
  BY <1>1, <1>2 DEF Loaded, LoadedEntry
<1>3. CASE s[1] = PinTable
  <2> DEFINE n == Position(s[2])
  <2>1. n \in 1 .. Len(nv_indexes[PinTable]) /\ nv_indexes[PinTable][n] = s[2]
    BY <1>3, PositionOf
  <2>2. nv_indexes[PinTable] \in Seq(Nat) /\ Len(nv_indexes[PinTable]) \in Nat
    BY TableKinds, LenProperties DEF StorageOK
  <2> HIDE DEF n
  <2>3. n \in 1 .. n
    BY <2>1, <2>2
  <2>4. n \in Found(n)
    BY <1>1, <1>3, <2>1, <2>3 DEF Found
  <2>5. \A k \in Found(n) : k \in Nat /\ k <= n
    BY <2>1, <2>2 DEF Found
  <2>6. \A j \in Found(n) : j <= n
    BY <2>5
  <2>7. LastFound(n) \in Found(n) /\ \A j \in Found(n) : j <= LastFound(n)
    BY <2>4, <2>6 DEF LastFound
  <2>8. LastFound(n) = n
    BY <2>1, <2>2, <2>4, <2>5, <2>7
  <2>9. Buffer(n) = nv_entry[s]
    BY <1>1, <1>3, <2>1, <2>4, <2>8 DEF Buffer
  <2> QED BY <1>3, <2>9 DEF Loaded, LoadedPin, n
<1> QED BY <1>2, <1>3

\* An entry whose index is not listed is as new.
LEMMA LoadedUnlisted ==
  ASSUME NEW s \in Slots, s[2] \notin InList(nv_indexes[s[1]])
  PROVE  Loaded(s[1], s[2]) = Initial(s[1])
BY TableKinds DEF Loaded, LoadedPin, LoadedEntry, Initial

-----------------------------------------------------------------------------
(* The invariant.                                                           *)

\* A slot that is kept is listed and stored as it is, or was cleared in both.
KeptStored(s) ==
  \/ s[1] \in Owners /\ entry[s] = NoSchedule /\ nv_entry[s] = None
  \/ /\ s[2] \in InList(nv_indexes[s[1]])
     /\ nv_entry[s] = Serialized(s[1], entry[s])

AccIInv ==
  /\ AccTypeOK
  /\ IndexListsFit
  /\ \A t \in Tables : InList(nv_indexes[t]) \subseteq InList(indexes[t])
  /\ \A s \in Slots : s[2] \notin InList(indexes[s[1]]) =>
                        entry[s] = Initial(s[1])
  /\ \A s \in kept : KeptStored(s)

LEMMA EmptyFits ==
  ASSUME NEW t \in Tables
  PROVE  <<>> \in Seq(Nat) /\ ListFits(t, <<>>) /\ InList(<<>>) = {}
BY DEF ListFits, InList

LEMMA AccInitInv == AccInit => AccIInv
<1> SUFFICES ASSUME AccInit PROVE AccIInv
  OBVIOUS
<1> USE DEF AccInit
<1>1. \A s \in Slots : Initial(s[1]) \in Entry(s[1])
                       /\ Entry(s[1]) \subseteq User \cup Pin \cup Schedule
  BY SlotOf, EntryOf
<1>2. AccTypeOK
  <2>1. /\ entry \in [Slots -> User \cup Pin \cup Schedule]
        /\ nv_entry \in [Slots -> User \cup Pin \cup Schedule \cup {None}]
        /\ \A s \in Slots : /\ entry[s] \in Entry(s[1])
                            /\ nv_entry[s] \in Entry(s[1]) \cup {None}
    BY <1>1
  <2>2. /\ indexes \in [Tables -> Seq(Nat)]
        /\ nv_indexes \in [Tables -> Seq(Nat)]
        /\ kept \subseteq Slots
    BY EmptyFits
  <2>3. require_pin \in BOOLEAN /\ nv_require_pin \in BOOLEAN \cup {None}
    OBVIOUS
  <2>4. sets \in 0 .. Sets /\ failures \in 0 .. Failures
    BY BoundsAreNatural
  <2> QED BY <2>1, <2>2, <2>3, <2>4 DEF AccTypeOK
<1>3. IndexListsFit
  BY EmptyFits DEF IndexListsFit
<1>4. \A t \in Tables : InList(nv_indexes[t]) \subseteq InList(indexes[t])
  BY EmptyFits
<1> QED BY <1>2, <1>3, <1>4 DEF AccIInv

LEMMA InvStorage == AccIInv => StorageOK
BY DEF AccIInv, AccTypeOK, IndexListsFit, StorageOK

\* Every setter but SetRequirePIN and the clearing of a schedule.
LEMMA ChangeEntryStep ==
  ASSUME AccIInv, NEW t \in Tables, NEW i \in Index(t), NEW e \in Entry(t),
         NEW o, ChangeEntry(t, i, e, o)
  PROVE  AccIInv'
<1> DEFINE new == AddIndex(t, i)
           slot == <<t, i>>
<1>1. /\ slot \in Slots /\ slot[1] = t /\ slot[2] = i
      /\ \A s \in Slots : /\ s[1] \in Tables
                          /\ s # slot => s[1] # t \/ s[2] # i
  BY SlotOf
<1>2. /\ ~Full(t, i) /\ new \in Seq(Nat)
      /\ InList(new) = InList(indexes[t]) \cup {i}
      /\ ListFits(t, new)
  BY IndexAdded DEF AccIInv, AccTypeOK, IndexListsFit
<1>3. /\ Serialized(t, e) \in Entry(t)
      /\ Entry(t) \subseteq User \cup Pin \cup Schedule
  BY SerializedOf, EntryOf
<1>4. /\ entry' = [entry EXCEPT ![slot] = e]
      /\ indexes' = [indexes EXCEPT ![t] = new]
      /\ \/ nv_entry' = [nv_entry EXCEPT ![slot] = Serialized(t, e)]
         \/ nv_entry' = nv_entry
      /\ \/ /\ nv_indexes' = [nv_indexes EXCEPT ![t] = new]
            /\ nv_entry' = [nv_entry EXCEPT ![slot] = Serialized(t, e)]
            /\ kept' = kept \cup {slot}
         \/ nv_indexes' = nv_indexes /\ kept' = kept \ {slot}
      /\ require_pin' = require_pin /\ nv_require_pin' = nv_require_pin
  BY <1>2 DEF ChangeEntry
<1>5. sets' \in 0 .. Sets /\ failures' \in 0 .. Failures
  BY BoundsAreNatural DEF ChangeEntry, Called, Outcome, AccIInv, AccTypeOK
<1> HIDE DEF new, slot
<1> USE DEF AccIInv
<1>6. AccTypeOK'
  <2>1. /\ entry' \in [Slots -> User \cup Pin \cup Schedule]
        /\ nv_entry' \in [Slots -> User \cup Pin \cup Schedule \cup {None}]
    BY <1>1, <1>3, <1>4 DEF AccTypeOK
  <2>2. ASSUME NEW s \in Slots
        PROVE  /\ entry'[s] \in Entry(s[1])
               /\ nv_entry'[s] \in Entry(s[1]) \cup {None}
    BY <1>1, <1>3, <1>4 DEF AccTypeOK
  <2>3. /\ indexes' \in [Tables -> Seq(Nat)]
        /\ nv_indexes' \in [Tables -> Seq(Nat)]
        /\ kept' \subseteq Slots
    <3>1. /\ indexes \in [Tables -> Seq(Nat)]
          /\ nv_indexes \in [Tables -> Seq(Nat)] /\ kept \subseteq Slots
      BY DEF AccTypeOK
    <3>2. [indexes EXCEPT ![t] = new] \in [Tables -> Seq(Nat)]
          /\ [nv_indexes EXCEPT ![t] = new] \in [Tables -> Seq(Nat)]
      BY <1>2, <3>1
    <3>3. kept \cup {slot} \subseteq Slots /\ kept \ {slot} \subseteq Slots
      BY <1>1, <3>1
    <3> QED BY <1>4, <3>1, <3>2, <3>3
  <2>4. require_pin' \in BOOLEAN /\ nv_require_pin' \in BOOLEAN \cup {None}
    BY <1>4 DEF AccTypeOK
  <2> QED BY <1>5, <2>1, <2>2, <2>3, <2>4 DEF AccTypeOK
<1>7. IndexListsFit'
  BY <1>2, <1>4 DEF IndexListsFit, AccTypeOK
<1>8. \A r \in Tables : InList(nv_indexes'[r]) \subseteq InList(indexes'[r])
  BY <1>2, <1>4 DEF AccTypeOK
<1>9. \A s \in Slots : s[2] \notin InList(indexes'[s[1]]) =>
                         entry'[s] = Initial(s[1])
  BY <1>1, <1>2, <1>4 DEF AccTypeOK
<1>10. ASSUME NEW s \in kept' PROVE KeptStored(s)'
  <2>1. CASE s = slot
    BY <1>1, <1>2, <1>4, <2>1 DEF AccTypeOK, KeptStored
  <2>2. CASE s # slot
    <3>1. s \in kept /\ s \in Slots
      BY <1>4, <1>10, <2>2 DEF AccTypeOK
    <3>2. entry'[s] = entry[s] /\ nv_entry'[s] = nv_entry[s]
      BY <1>4, <2>2, <3>1 DEF AccTypeOK
    <3>3. InList(nv_indexes[s[1]]) \subseteq InList(nv_indexes'[s[1]])
      BY <1>1, <1>2, <1>4, <3>1 DEF AccTypeOK
    <3> QED BY <3>1, <3>2, <3>3 DEF KeptStored
  <2> QED BY <2>1, <2>2
<1> QED BY <1>6, <1>7, <1>8, <1>9, <1>10

LEMMA ClearScheduleStep ==
  ASSUME AccIInv, NEW t, NEW i \in Index(t), NEW removed \in BOOLEAN,
         ClearSchedule(t, i, removed)
  PROVE  AccIInv'
<1> DEFINE slot == <<t, i>>
<1>1. t \in Owners /\ t \in Tables
  BY TableKinds DEF ClearSchedule
<1>2. slot \in Slots /\ slot[1] = t /\ slot[2] = i
  BY <1>1, SlotOf
<1>3. NoSchedule = Initial(t) /\ NoSchedule \in Entry(t)
      /\ Entry(t) \subseteq User \cup Pin \cup Schedule
  BY <1>1, TableKinds, EntryOf DEF Initial
<1>4. /\ entry' = [entry EXCEPT ![slot] = NoSchedule]
      /\ \/ /\ nv_entry' = [nv_entry EXCEPT ![slot] = None]
            /\ kept' = kept \cup {slot}
         \/ nv_entry' = nv_entry /\ kept' = kept \ {slot}
      /\ indexes' = indexes /\ nv_indexes' = nv_indexes
      /\ require_pin' = require_pin /\ nv_require_pin' = nv_require_pin
  BY DEF ClearSchedule
<1>5. sets' \in 0 .. Sets /\ failures' \in 0 .. Failures
  BY BoundsAreNatural DEF ClearSchedule, Called, Outcome, AccIInv, AccTypeOK
<1> HIDE DEF slot
<1> USE DEF AccIInv
<1>6. AccTypeOK'
  BY <1>2, <1>3, <1>4, <1>5 DEF AccTypeOK
<1>7. IndexListsFit'
  BY <1>4 DEF IndexListsFit
<1>8. \A s \in Slots : s[2] \notin InList(indexes'[s[1]]) =>
                         entry'[s] = Initial(s[1])
  BY <1>2, <1>3, <1>4 DEF AccTypeOK
<1>9. ASSUME NEW s \in kept' PROVE KeptStored(s)'
  <2>1. CASE s = slot
    BY <1>1, <1>2, <1>4, <1>9, <2>1 DEF AccTypeOK, KeptStored
  <2>2. CASE s # slot
    <3>1. s \in kept /\ s \in Slots
      BY <1>4, <1>9, <2>2 DEF AccTypeOK
    <3>2. entry'[s] = entry[s] /\ nv_entry'[s] = nv_entry[s]
      BY <1>4, <2>2, <3>1 DEF AccTypeOK
    <3> QED BY <1>4, <3>1, <3>2 DEF KeptStored
  <2> QED BY <2>1, <2>2
<1> QED BY <1>4, <1>6, <1>7, <1>8, <1>9

\* What each setter makes of an entry is one, so it is a ChangeEntry of it.
LEMMA SetUserStep ==
  ASSUME AccIInv, NEW i \in Users, NEW uid \in UniqueIds \cup {None},
         NEW list \in PinLists, NEW o, SetUser(i, uid, list, o)
  PROVE  AccIInv'
<1> DEFINE user == [status |-> IF uid = None THEN "available" ELSE "occupied",
                    uid |-> uid, size |-> Len(list),
                    pins |-> CopyOver(entry[<<UserTable, i>>].pins, list)]
<1>1. UserTable \in Tables /\ i \in Index(UserTable)
  BY TableKinds DEF Users, Index, Capacity
<1>2. PICK n \in 0 .. PinsPerUser : list \in [1 .. n -> Pins]
  BY DEF PinLists
<1>3. list \in Seq(Pins) /\ Len(list) = n
  <2>1. n \in Nat
    BY SizesArePositive
  <2> QED BY <1>2, <2>1
<1>4. entry[<<UserTable, i>>] \in User
  BY <1>1, SlotOf DEF AccIInv, AccTypeOK, Entry
<1>5. CopyOver(entry[<<UserTable, i>>].pins, list)
        \in [1 .. PinsPerUser -> Pins \cup {0}]
  BY <1>2, <1>3, <1>4, SizesArePositive DEF CopyOver, User
<1>6. user \in Entry(UserTable)
  BY <1>3, <1>5 DEF Entry, User
<1>7. ChangeEntry(UserTable, i, user, o)
  BY DEF SetUser
<1> HIDE DEF user
<1> QED BY <1>1, <1>6, <1>7, ChangeEntryStep

LEMMA SetCredentialStep ==
  ASSUME AccIInv, NEW i \in Pins, NEW secret \in Secrets \cup {None}, NEW o,
         SetCredential(i, secret, o)
  PROVE  AccIInv'
<1> DEFINE pin == [status |-> IF secret = None THEN "available"
                              ELSE "occupied",
                   secret |-> IF secret # None \/ HasUser(i) THEN secret
                              ELSE entry[<<PinTable, i>>].secret]
<1>1. PinTable \in Tables /\ i \in Index(PinTable)
  BY TableKinds DEF Pins, Index, Capacity
<1>2. entry[<<PinTable, i>>] \in Pin
  BY <1>1, SlotOf, TableKinds DEF AccIInv, AccTypeOK, Entry
<1>3. pin \in Entry(PinTable)
  BY <1>2, TableKinds DEF Entry, Pin
<1>4. ChangeEntry(PinTable, i, pin, o)
  BY DEF SetCredential
<1> HIDE DEF pin
<1> QED BY <1>1, <1>3, <1>4, ChangeEntryStep

LEMMA SetScheduleStep ==
  ASSUME AccIInv, NEW t, NEW i \in 1 .. MaxSchedules,
         NEW data \in Times \cup {None}, NEW o, SetSchedule(t, i, data, o)
  PROVE  AccIInv'
<1> DEFINE schedule == [available |-> FALSE, data |-> data]
<1>1. t \in Tables /\ i \in Index(t) /\ schedule \in Entry(t)
  BY TableKinds DEF SetSchedule, Index, Capacity, Entry, Schedule
<1>2. ChangeEntry(t, i, schedule, o)
  BY DEF SetSchedule
<1> HIDE DEF schedule
<1> QED BY <1>1, <1>2, ChangeEntryStep

LEMMA SetRequirePINStep ==
  ASSUME AccIInv, NEW require \in BOOLEAN, NEW o, SetRequirePIN(require, o)
  PROVE  AccIInv'
<1>1. UNCHANGED <<entry, indexes, nv_entry, nv_indexes, kept>>
  BY DEF SetRequirePIN
<1>2. sets' \in 0 .. Sets /\ failures' \in 0 .. Failures
  BY BoundsAreNatural DEF SetRequirePIN, Called, Outcome, AccIInv, AccTypeOK
<1>3. require_pin' \in BOOLEAN /\ nv_require_pin' \in BOOLEAN \cup {None}
  BY DEF SetRequirePIN, AccIInv, AccTypeOK
<1>4. AccTypeOK'
  BY <1>1, <1>2, <1>3 DEF AccIInv, AccTypeOK
<1>5. IndexListsFit'
  BY <1>1 DEF AccIInv, IndexListsFit
<1>6. \A s \in kept' : KeptStored(s)'
  BY <1>1 DEF AccIInv, KeptStored
<1> QED BY <1>1, <1>4, <1>5, <1>6 DEF AccIInv

\* A setter is none of a schedule table's where it has no such slot.
LEMMA SetterStep ==
  ASSUME AccIInv, NEW o, Setter(o)
  PROVE  AccIInv'
<1>1. ASSUME NEW i \in Users, NEW uid \in UniqueIds \cup {None},
             NEW list \in PinLists, SetUser(i, uid, list, o)
      PROVE  AccIInv'
  BY <1>1, SetUserStep
<1>2. ASSUME NEW i \in Pins, NEW secret \in Secrets \cup {None},
             SetCredential(i, secret, o)
      PROVE  AccIInv'
  BY <1>2, SetCredentialStep
<1>3. ASSUME NEW t \in Owners, NEW i \in 1 .. MaxSchedules,
             NEW data \in Times \cup {None},
             \/ SetWeekDaySchedule(t, i, data, o)
             \/ SetYearDaySchedule(t, i, data, o)
             \/ SetHolidaySchedule(t, i, data, o)
      PROVE  AccIInv'
  <2>1. SetSchedule(t, i, data, o)
    BY <1>3 DEF SetWeekDaySchedule, SetYearDaySchedule, SetHolidaySchedule
  <2> QED BY <2>1, SetScheduleStep
<1>4. ASSUME NEW require \in BOOLEAN, SetRequirePIN(require, o)
      PROVE  AccIInv'
  BY <1>4, SetRequirePINStep
<1> QED BY <1>1, <1>2, <1>3, <1>4 DEF Setter

LEMMA ClearerStep ==
  ASSUME AccIInv, NEW removed \in BOOLEAN, Clearer(removed)
  PROVE  AccIInv'
<1>1. PICK t \in Owners, i \in 1 .. MaxSchedules :
        ClearSchedule(t, i, removed)
  BY DEF Clearer, ClearWeekDay, ClearYearDay, ClearHoliday
<1>2. i \in Index(t)
  BY TableKinds DEF Index, Capacity
<1> QED BY <1>1, <1>2, ClearScheduleStep

-----------------------------------------------------------------------------
(* Boot.                                                                    *)

\* A slot that is kept reads back what the RAM had, and is kept thereby.
LEMMA KeptLoaded ==
  ASSUME AccIInv, NEW s \in kept
  PROVE  /\ s \in Slots
         /\ \/ /\ s[1] \in Owners /\ entry[s] = NoSchedule
               /\ nv_entry[s] = None
               /\ Loaded(s[1], s[2]) = NoSchedule
            \/ /\ s[2] \in InList(nv_indexes[s[1]])
               /\ nv_entry[s] = Serialized(s[1], entry[s])
               /\ Loaded(s[1], s[2]) = Serialized(s[1], entry[s])
<1>1. /\ s \in Slots /\ s[1] \in Tables /\ s = <<s[1], s[2]>>
      /\ entry[s] \in Entry(s[1])
  BY SlotOf DEF AccIInv, AccTypeOK
<1>2. CASE s[1] \in Owners /\ entry[s] = NoSchedule /\ nv_entry[s] = None
  <2>1. Loaded(s[1], s[2]) = NoSchedule
    BY <1>1, <1>2, TableKinds DEF Loaded, LoadedEntry, Initial
  <2> QED BY <1>1, <1>2, <2>1
<1>3. CASE /\ s[2] \in InList(nv_indexes[s[1]])
           /\ nv_entry[s] = Serialized(s[1], entry[s])
  <2>1. nv_entry[s] # None
    BY <1>1, <1>3, SerializedOf, EntryOf
  <2>2. Loaded(s[1], s[2]) = nv_entry[s]
    BY <1>1, <1>3, <2>1, InvStorage, LoadedIsStored
  <2> QED BY <1>1, <1>3, <2>2
<1> QED BY <1>2, <1>3 DEF AccIInv, KeptStored

LEMMA RestartStep ==
  ASSUME AccIInv, Restart
  PROVE  AccIInv'
<1>1. /\ entry' = [s \in Slots |-> Loaded(s[1], s[2])]
      /\ UNCHANGED <<nv_entry, nv_indexes, nv_require_pin, kept, sets,
                     failures>>
  BY DEF Restart, nv
<1>2. indexes' = nv_indexes
  BY DEF Restart, LoadedIndexes, AccIInv, AccTypeOK
<1>3. \A s \in Slots : /\ entry'[s] = Loaded(s[1], s[2])
                       /\ entry'[s] \in Entry(s[1])
  BY <1>1, InvStorage, LoadedType
<1>4. AccTypeOK'
  <2>1. entry' \in [Slots -> User \cup Pin \cup Schedule]
    BY <1>1, <1>3, SlotOf, EntryOf
  <2>2. require_pin' \in BOOLEAN
    BY DEF Restart
  <2> QED BY <1>1, <1>2, <1>3, <2>1, <2>2 DEF AccIInv, AccTypeOK
<1>5. IndexListsFit'
  BY <1>1, <1>2 DEF AccIInv, IndexListsFit
<1>6. \A s \in Slots : s[2] \notin InList(indexes'[s[1]]) =>
                         entry'[s] = Initial(s[1])
  BY <1>2, <1>3, LoadedUnlisted
<1>7. ASSUME NEW s \in kept' PROVE KeptStored(s)'
  <2>1. s \in kept
    BY <1>1
  <2>2. /\ s \in Slots /\ s[1] \in Tables /\ entry[s] \in Entry(s[1])
        /\ entry'[s] = Loaded(s[1], s[2])
    BY <1>3, <2>1, SlotOf DEF AccIInv, AccTypeOK
  <2>3. Serialized(s[1], Serialized(s[1], entry[s]))
          = Serialized(s[1], entry[s])
    BY <2>2, SerializedOf
  <2> QED BY <1>1, <2>1, <2>2, <2>3, KeptLoaded DEF KeptStored
<1> QED BY <1>1, <1>2, <1>4, <1>5, <1>6, <1>7 DEF AccIInv

LEMMA FactoryResetStep ==
  ASSUME AccIInv, FactoryReset
  PROVE  AccIInv'
<1>1. /\ nv_entry' = [s \in Slots |-> None]
      /\ nv_indexes' = [t \in Tables |-> <<>>]
      /\ entry' = [s \in Slots |-> Initial(s[1])]
      /\ indexes' = [t \in Tables |-> <<>>]
      /\ kept' = {} /\ sets' = sets /\ failures' = failures
  BY DEF FactoryReset
<1>2. \A s \in Slots : Initial(s[1]) \in Entry(s[1])
                       /\ Entry(s[1]) \subseteq User \cup Pin \cup Schedule
  BY SlotOf, EntryOf
<1>3. AccTypeOK'
  <2>1. /\ entry' \in [Slots -> User \cup Pin \cup Schedule]
        /\ nv_entry' \in [Slots -> User \cup Pin \cup Schedule \cup {None}]
        /\ \A s \in Slots : /\ entry'[s] \in Entry(s[1])
                            /\ nv_entry'[s] \in Entry(s[1]) \cup {None}
    BY <1>1, <1>2
  <2>2. /\ indexes' \in [Tables -> Seq(Nat)]
        /\ nv_indexes' \in [Tables -> Seq(Nat)]
        /\ kept' \subseteq Slots
    BY <1>1, EmptyFits
  <2>3. require_pin' \in BOOLEAN /\ nv_require_pin' \in BOOLEAN \cup {None}
    BY DEF FactoryReset, AccIInv, AccTypeOK
  <2>4. sets' \in 0 .. Sets /\ failures' \in 0 .. Failures
    BY <1>1 DEF AccIInv, AccTypeOK
  <2> QED BY <2>1, <2>2, <2>3, <2>4 DEF AccTypeOK
<1>4. IndexListsFit'
  BY <1>1, EmptyFits DEF IndexListsFit
<1>5. \A t \in Tables : InList(nv_indexes'[t]) \subseteq InList(indexes'[t])
  BY <1>1
<1> QED BY <1>1, <1>3, <1>4, <1>5 DEF AccIInv

LEMMA AccStutter ==
  ASSUME AccIInv, UNCHANGED accVars
  PROVE  AccIInv'
<1>1. /\ UNCHANGED <<entry, indexes, require_pin, nv_entry, nv_indexes>>
      /\ UNCHANGED <<nv_require_pin, kept, sets, failures>>
  BY DEF accVars, ram, nv
<1> QED BY <1>1 DEF AccIInv, AccTypeOK, IndexListsFit, KeptStored

-----------------------------------------------------------------------------
(* The theorems.                                                            *)

\* The strengthened invariant holds in every state.
THEOREM AccInductive == AccSpec => []AccIInv
<1>1. AccInit => AccIInv
  BY AccInitInv
<1>2. AccIInv /\ [AccNext]_accVars => AccIInv'
  <2> SUFFICES ASSUME AccIInv, [AccNext]_accVars PROVE AccIInv'
    OBVIOUS
  <2>1. CASE \E o \in Outcomes : Setter(o)
    BY <2>1, SetterStep
  <2>2. CASE \E removed \in BOOLEAN : Clearer(removed)
    BY <2>2, ClearerStep
  <2>3. CASE Restart
    BY <2>3, RestartStep
  <2>4. CASE FactoryReset
    BY <2>4, FactoryResetStep
  <2>5. CASE UNCHANGED accVars
    BY <2>5, AccStutter
  <2> QED BY <2>1, <2>2, <2>3, <2>4, <2>5 DEF AccNext
<1> QED BY <1>1, <1>2, PTL DEF AccSpec

\* Every entry, stored entry and list has its type, whatever could not be
\* stored or loaded.
THEOREM AccTypeCorrect == AccSpec => []AccTypeOK
<1>1. AccIInv => AccTypeOK
  BY DEF AccIInv
<1> QED BY <1>1, AccInductive, PTL

\* No list of indexes ever has a duplicate or an index of no slot.
THEOREM IndexListsAlwaysFit == AccSpec => []IndexListsFit
<1>1. AccIInv => IndexListsFit
  BY DEF AccIInv
<1> QED BY <1>1, AccInductive, PTL

\* So AddIndex never refuses an index, and no setter gives up half-way.
NeverFull == \A t \in Tables : \A i \in Index(t) : ~Full(t, i)
COROLLARY ListsNeverRefuse == AccSpec => []NeverFull
<1>1. AccIInv => NeverFull
  BY IndexAdded DEF AccIInv, AccTypeOK, IndexListsFit, NeverFull
<1> QED BY <1>1, AccInductive, PTL

\* What a setter stored whole is what a restart would read, at any time.
THEOREM KeptIsRead == AccSpec => []KeptIsDurable
<1>1. AccIInv => KeptIsDurable
  <2> SUFFICES ASSUME AccIInv, NEW s \in kept
               PROVE  ReadBack(s[1], Loaded(s[1], s[2]))
                        = ReadBack(s[1], entry[s])
    BY DEF KeptIsDurable
  <2>1. s \in Slots /\ s[1] \in Tables /\ entry[s] \in Entry(s[1])
    BY KeptLoaded, SlotOf DEF AccIInv, AccTypeOK
  <2>2. CASE entry[s] = NoSchedule /\ Loaded(s[1], s[2]) = NoSchedule
    BY <2>2
  <2>3. CASE Loaded(s[1], s[2]) = Serialized(s[1], entry[s])
    <3>1. CASE s[1] \in Owners
      BY <2>3, <3>1, TableKinds DEF Serialized
    <3>2. CASE s[1] \notin Owners
      BY <2>1, <2>3, <3>2, SerializedOf DEF ReadBack
    <3> QED BY <3>1, <3>2
  <2> QED BY <2>2, <2>3, KeptLoaded
<1> QED BY <1>1, AccInductive, PTL

\* A restart that finds every listed entry stored whole, and no user's list of
\* credentials with a tail, changes no entry.
LEMMA RestartChangesNothing ==
  ASSUME AccIInv, AllKept, NoTail, Restart
  PROVE  entry' = entry
<1>1. entry' = [s \in Slots |-> Loaded(s[1], s[2])]
  BY DEF Restart
<1>2. ASSUME NEW s \in Slots PROVE Loaded(s[1], s[2]) = entry[s]
  <2>1. /\ s[1] \in Tables /\ s[2] \in Index(s[1]) /\ s = <<s[1], s[2]>>
        /\ entry[s] \in Entry(s[1])
    BY SlotOf DEF AccIInv, AccTypeOK
  <2>2. CASE s[2] \notin InList(indexes[s[1]])
    <3>1. s[2] \notin InList(nv_indexes[s[1]]) /\ entry[s] = Initial(s[1])
      BY <2>1, <2>2 DEF AccIInv
    <3> QED BY <3>1, LoadedUnlisted
  <2>3. CASE s[2] \in InList(indexes[s[1]])
    <3>1. s \in kept
      BY <2>1, <2>3 DEF AllKept
    <3>2. Serialized(s[1], entry[s]) = entry[s]
      <4>1. CASE s[1] # UserTable
        BY <4>1 DEF Serialized
      <4>2. CASE s[1] = UserTable
        <5> DEFINE user == entry[s]
        <5>1. /\ user \in User /\ s[2] \in Users
              /\ user = entry[<<UserTable, s[2]>>]
          BY <2>1, <4>2 DEF Entry, Index, Capacity, Users
        <5>2. \A k \in 1 .. PinsPerUser : k > user.size => user.pins[k] = 0
          BY <5>1 DEF NoTail
        <5> HIDE DEF user
        <5>3. user.pins = [k \in 1 .. PinsPerUser |->
                             IF k <= user.size THEN user.pins[k] ELSE 0]
          <6>1. user.pins \in [1 .. PinsPerUser -> Pins \cup {0}]
            BY <5>1 DEF User
          <6>2. \A k \in 1 .. PinsPerUser :
                  user.pins[k] = IF k <= user.size THEN user.pins[k] ELSE 0
            <7>1. user.size \in Nat
              BY <5>1, SizesArePositive DEF User
            <7> QED BY <5>2, <7>1, SizesArePositive
          <6> QED BY <6>1, <6>2
        <5>4. SerializedUser(user) = user
          BY <5>1, <5>3 DEF SerializedUser, User
        <5> QED BY <4>2, <5>4 DEF Serialized, user
      <4> QED BY <4>1, <4>2
    <3> QED BY <3>1, <3>2, KeptLoaded
  <2> QED BY <2>2, <2>3
<1> QED BY <1>1, <1>2 DEF AccIInv, AccTypeOK

\* Such a restart accepts the same PINs, and reports them to be of the same
\* users.
THEOREM PinsOutliveRestart == AccSpec => RestartKeepsPins
<1> DEFINE Keeps == Restart /\ AllKept /\ NoTail =>
                      \A secret \in Secrets :
                        ValidatePIN(secret)' = ValidatePIN(secret)
<1>1. AccIInv /\ [AccNext]_accVars => [Keeps]_accVars
  <2> SUFFICES ASSUME AccIInv, Restart, AllKept, NoTail,
                      NEW secret \in Secrets
               PROVE  ValidatePIN(secret)' = ValidatePIN(secret)
    OBVIOUS
  <2>1. entry' = entry
    BY RestartChangesNothing
  <2> QED BY <2>1 DEF ValidatePIN, Matching, GetCredentialUserId, UserOf,
                      HasUser, Holders
<1> QED BY <1>1, AccInductive, PTL DEF AccSpec, RestartKeepsPins

-----------------------------------------------------------------------------
(* THE BATTERY (Battery).  The curve, by its segments: the integer division *)
(* makes each a line that falls by less than a percent per millivolt, and   *)
(* that meets the next.                                                     *)

Volt(i) == Curve[i][1]
Rest(i) == Curve[i][2]

LEMMA CurveValues ==
  /\ DOMAIN Curve = 1 .. 12
  /\ Volt(1) = 4200 /\ Rest(1) = 100 /\ Volt(2) = 4100 /\ Rest(2) = 90
  /\ Volt(3) = 4000 /\ Rest(3) = 80 /\ Volt(4) = 3920 /\ Rest(4) = 70
  /\ Volt(5) = 3870 /\ Rest(5) = 60 /\ Volt(6) = 3820 /\ Rest(6) = 50
  /\ Volt(7) = 3790 /\ Rest(7) = 40 /\ Volt(8) = 3770 /\ Rest(8) = 30
  /\ Volt(9) = 3740 /\ Rest(9) = 20 /\ Volt(10) = 3680 /\ Rest(10) = 10
  /\ Volt(11) = 3450 /\ Rest(11) = 5 /\ Volt(12) = 3300 /\ Rest(12) = 0
BY DEF Curve, Volt, Rest

LEMMA CurveFalls == \A i, j \in 1 .. 12 : i < j => Volt(j) < Volt(i)
BY CurveValues

\* Below the curve, above it, and between two of its points.
LEMMA OnTheCurve ==
  ASSUME NEW mv \in Int
  PROVE  /\ mv < 3300 => PercentFromMv(mv) = 0
         /\ mv >= 4200 => PercentFromMv(mv) = 100
         /\ \A i \in 2 .. 12 :
              Volt(i) <= mv /\ mv < Volt(i - 1) =>
                PercentFromMv(mv) =
                  Rest(i) + ((mv - Volt(i)) * (Rest(i - 1) - Rest(i)))
                              \div (Volt(i - 1) - Volt(i))
<1> DEFINE below == {i \in DOMAIN Curve : Curve[i][1] <= mv}
           lo == CHOOSE i \in below : \A j \in below : i <= j
<1>1. below = {i \in 1 .. 12 : Volt(i) <= mv}
  BY CurveValues DEF Volt
<1>2. CASE mv < 3300
  <2>1. \A i \in 1 .. 12 : Volt(i) >= 3300
    BY CurveValues
  <2>2. \A i \in 1 .. 12 : Volt(i) \in Int
    BY CurveValues
  <2>3. below = {}
    BY <1>1, <1>2, <2>1, <2>2
  <2>4. PercentFromMv(mv) = 0
    BY <2>3 DEF PercentFromMv
  <2> QED BY <1>2, <2>1, <2>2, <2>4
<1>3. ASSUME NEW i \in 1 .. 12, Volt(i) <= mv, i = 1 \/ mv < Volt(i - 1)
      PROVE  lo = i /\ below # {}
  <2>1. \A j \in 1 .. 12 : Volt(j) \in Int
    BY CurveValues
  <2>2. \A j \in 1 .. 12 : j < i => mv < Volt(j)
    BY <1>3, <2>1, CurveFalls
  <2>3. i \in below /\ \A j \in below : i <= j
    BY <1>1, <1>3, <2>1, <2>2
  <2>4. \A k \in below : (\A j \in below : k <= j) => k = i
    BY <1>1, <2>3
  <2> HIDE DEF below
  <2> QED BY <2>3, <2>4
<1>4. CASE mv >= 4200
  <2>1. lo = 1 /\ below # {}
    BY <1>3, <1>4, CurveValues
  <2>2. PercentFromMv(mv) = 100
    BY <2>1 DEF PercentFromMv
  <2> QED BY <1>4, <2>2, CurveValues
<1>5. ASSUME NEW i \in 2 .. 12, Volt(i) <= mv, mv < Volt(i - 1)
      PROVE  PercentFromMv(mv) =
               Rest(i) + ((mv - Volt(i)) * (Rest(i - 1) - Rest(i)))
                           \div (Volt(i - 1) - Volt(i))
  <2>1. lo = i /\ below # {} /\ i # 1
    BY <1>3, <1>5
  <2>2. PercentFromMv(mv) =
          Curve[lo][2] + ((mv - Curve[lo][1]) * (Curve[lo - 1][2] - Curve[lo][2]))
                            \div (Curve[lo - 1][1] - Curve[lo][1])
    BY <2>1, Zenon DEF PercentFromMv
  <2> HIDE DEF lo
  <2> QED BY <2>1, <2>2 DEF Volt, Rest
<1>6. mv < 3300 => PercentFromMv(mv) = 0
  BY <1>2
<1>7. mv >= 4200 => PercentFromMv(mv) = 100
  BY <1>4
<1> QED BY <1>5, <1>6, <1>7

\* A line that falls by d over w, d < w: it stays within its ends, takes steps
\* of at most 1, and meets the point above.
Slope == {<<100, 10>>, <<80, 10>>, <<50, 10>>, <<30, 10>>, <<20, 10>>, <<60, 10>>, <<230, 5>>, <<150, 5>>}

LEMMA Straight ==
  ASSUME NEW w \in Int, NEW d \in Int, <<w, d>> \in Slope, NEW x \in 0 .. w - 1
  PROVE  /\ (x * d) \div w \in 0 .. d - 1
         /\ ((x + 1) * d) \div w - (x * d) \div w \in 0 .. 1
         /\ (w * d) \div w = d
<1>1. CASE w = 100 /\ d = 10
  BY <1>1
<1>2. CASE w = 80 /\ d = 10
  BY <1>2
<1>3. CASE w = 50 /\ d = 10
  BY <1>3
<1>4. CASE w = 30 /\ d = 10
  BY <1>4
<1>5. CASE w = 20 /\ d = 10
  BY <1>5
<1>6. CASE w = 60 /\ d = 10
  BY <1>6
<1>7. CASE w = 230 /\ d = 5
  BY <1>7
<1>8. CASE w = 150 /\ d = 5
  BY <1>8
<1> QED BY <1>1, <1>2, <1>3, <1>4, <1>5, <1>6, <1>7, <1>8 DEF Slope

LEMMA Segments ==
  ASSUME NEW i \in 2 .. 12
  PROVE  /\ Volt(i) \in Int /\ Volt(i - 1) \in Int
         /\ Rest(i) \in Int /\ Rest(i - 1) \in Int
         /\ 0 <= Rest(i) /\ Rest(i - 1) <= 100
         /\ <<Volt(i - 1) - Volt(i), Rest(i - 1) - Rest(i)>> \in Slope
BY CurveValues DEF Slope

LEMMA EveryVoltage ==
  ASSUME NEW mv \in Int, 3300 <= mv, mv < 4200
  PROVE  \E i \in 2 .. 12 : Volt(i) <= mv /\ mv < Volt(i - 1)
<1>1. \A i \in 1 .. 12 : Volt(i) \in Int
  BY CurveValues
<1> QED
  BY CurveValues, Z3

\* Each segment ends at the point above it.
LEMMA CurveMeets == \A j \in 1 .. 11 : PercentFromMv(Volt(j)) = Rest(j)
<1> SUFFICES ASSUME NEW j \in 1 .. 11 PROVE PercentFromMv(Volt(j)) = Rest(j)
  OBVIOUS
<1>1. CASE j = 1
  BY <1>1, OnTheCurve, CurveValues
<1>2. CASE j \in 2 .. 11
  <2> DEFINE w == Volt(j - 1) - Volt(j)
             d == Rest(j - 1) - Rest(j)
  <2>1. /\ Volt(j) \in Int /\ Volt(j - 1) \in Int /\ Volt(j) < Volt(j - 1)
        /\ Rest(j) \in Int /\ <<w, d>> \in Slope
    BY <1>2, Segments, CurveFalls
  <2>2. PercentFromMv(Volt(j)) = Rest(j) + ((Volt(j) - Volt(j)) * d) \div w
    BY <1>2, <2>1, OnTheCurve
  <2> HIDE DEF w, d
  <2>3. (Volt(j) - Volt(j)) * d = 0 /\ 0 \div w = 0
    BY <2>1 DEF Slope
  <2> QED BY <2>1, <2>2, <2>3
<1> QED BY <1>1, <1>2

LEMMA OneMore ==
  ASSUME NEW mv \in Int, NEW up \in Int, up = mv + 1,
         NEW i \in 2 .. 12, Volt(i) <= mv, mv < Volt(i - 1)
  PROVE  /\ PercentFromMv(mv) \in 0 .. 100
         /\ PercentFromMv(up) - PercentFromMv(mv) \in 0 .. 1
<1> DEFINE w == Volt(i - 1) - Volt(i)
           d == Rest(i - 1) - Rest(i)
           x == mv - Volt(i)
           q(n) == (n * d) \div w
<1>1. Volt(i) \in Int /\ Volt(i - 1) \in Int /\ <<w, d>> \in Slope
  BY Segments
<1>2. /\ Rest(i) \in Int /\ Rest(i - 1) \in Int
      /\ 0 <= Rest(i) /\ Rest(i - 1) <= 100
  BY Segments
<1>3. /\ w \in Int /\ d \in Int /\ x \in 0 .. w - 1
      /\ up - Volt(i) = x + 1
  BY <1>1, <1>2
<1>4. PercentFromMv(mv) = Rest(i) + q(x)
  BY OnTheCurve
<1>5. up < Volt(i - 1) => PercentFromMv(up) = Rest(i) + q(up - Volt(i))
  BY <1>1, OnTheCurve
<1>6. up = Volt(i - 1) => x + 1 = w /\ PercentFromMv(up) = Rest(i - 1)
  BY <1>1, CurveMeets
<1>7. Rest(i - 1) = Rest(i) + d
  BY <1>2
<1> HIDE DEF w, d, x
<1>8. /\ q(x) \in 0 .. d - 1 /\ q(x + 1) - q(x) \in 0 .. 1 /\ q(w) = d
      /\ q(x + 1) \in Int
  BY <1>1, <1>3, Straight
<1>9. PercentFromMv(up) = Rest(i) + q(x + 1)
  <2>1. CASE up < Volt(i - 1)
    BY <1>3, <1>5, <2>1
  <2>2. CASE up = Volt(i - 1)
    BY <1>6, <1>7, <1>8, <2>2
  <2> QED BY <1>1, <2>1, <2>2
<1> QED
  <2>1. PICK k \in 0 .. d - 1, l \in Int : k = q(x) /\ l = q(x + 1)
    BY <1>8
  <2> HIDE DEF q
  <2>2. l - k \in 0 .. 1
    BY <1>8, <2>1
  <2>3. PercentFromMv(mv) = Rest(i) + k /\ PercentFromMv(up) = Rest(i) + l
    BY <1>4, <1>9, <2>1
  <2> QED BY <1>2, <1>3, <1>7, <2>2, <2>3

\* For every voltage: the percentage is one, and a reading that is 1 mV higher
\* is the same or one more.
THEOREM BatteryCurve == \A low, high \in Int : CurveIsSound(low, high)
<1> SUFFICES ASSUME NEW mv \in Int
             PROVE  /\ PercentFromMv(mv) \in 0 .. 100
                    /\ PercentFromMv(mv + 1) - PercentFromMv(mv) \in 0 .. 1
  BY DEF CurveIsSound
<1>1. CASE mv < 3300
  <2>1. mv + 1 < 3300 => PercentFromMv(mv + 1) = 0
    BY OnTheCurve
  <2>2. PercentFromMv(3300) = 0
    BY OnTheCurve, CurveValues
  <2> QED BY <1>1, <2>1, <2>2, OnTheCurve
<1>2. CASE mv >= 4200
  BY <1>2, OnTheCurve
<1>3. CASE 3300 <= mv /\ mv < 4200
  <2>1. PICK i \in 2 .. 12 : Volt(i) <= mv /\ mv < Volt(i - 1)
    BY <1>3, EveryVoltage
  <2> QED BY <2>1, OneMore
<1> QED BY <1>1, <1>2, <1>3

-----------------------------------------------------------------------------
(* The reports, in the course of time.                                      *)

VARIABLES published,  \* what Publish left in the attributes, if anything
          latest      \* history: the last reading

reportVars == <<published, latest>>

ReportInit == published = NothingPublished /\ latest = NothingPublished

\* Update, with any voltage at the pin.
Report == \E pin \in Nat, charging \in BOOLEAN :
            /\ latest' = <<Reading(pin, charging)>>
            /\ published' = Publish(published, Reading(pin, charging))

ReportSpec == ReportInit /\ [][Report]_reportVars

Readings == [percent2x : Int, mv : Int, level : {"critical", "warning", "ok"},
             charging : BOOLEAN]

LEMMA ReadingType ==
  ASSUME NEW pin \in Nat, NEW charging \in BOOLEAN
  PROVE  Reading(pin, charging) \in Readings
<1>1. ReadMv(pin) \in Int
  BY DEF ReadMv
<1>2. PercentFromMv(ReadMv(pin)) \in Int
  BY <1>1, BatteryCurve DEF CurveIsSound
<1>3. Level(PercentFromMv(ReadMv(pin))) \in {"critical", "warning", "ok"}
  BY DEF Level
<1> HIDE DEF Readings
<1> QED BY <1>1, <1>2, <1>3 DEF Reading, Readings

\* What is published is less than a step away from the last reading.
ReportsClose ==
  published # NothingPublished =>
    /\ Distance(published[1].percent2x, latest[1].percent2x) < 4
    /\ Distance(published[1].mv, latest[1].mv) < 50
    /\ published[1].level = latest[1].level

ReportIInv ==
  \/ published = NothingPublished
  \/ /\ \E p \in Readings, r \in Readings : published = <<p>> /\ latest = <<r>>
     /\ ReportsClose

\* ReportsAreClose for any readings, however many and however slow the drift:
\* what is published is within a step of the last reading, its level exact.
THEOREM BatteryReportsClose == ReportSpec => []ReportsClose
<1>1. ReportInit => ReportIInv
  BY DEF ReportInit, ReportIInv
<1>2. ReportIInv /\ [Report]_reportVars => ReportIInv'
  <2>1. ASSUME ReportIInv, NEW r \in Readings,
               latest' = <<r>>, published' = Publish(published, r)
        PROVE  ReportIInv'
    <3>1. /\ r.percent2x \in Int /\ r.mv \in Int
          /\ r.level \in {"critical", "warning", "ok"} /\ r.charging \in BOOLEAN
      BY DEF Readings
    <3>2. CASE published = NothingPublished
      <4>1. published' = <<r>>
        BY <2>1, <3>2 DEF Publish
      <4>2. /\ Distance(r.percent2x, r.percent2x) < 4
            /\ Distance(r.mv, r.mv) < 50
        BY <3>1 DEF Distance
      <4>3. <<r>>[1] = r
        OBVIOUS
      <4> QED BY <2>1, <4>1, <4>2, <4>3 DEF ReportIInv, ReportsClose
    <3>3. CASE published # NothingPublished
      <4>1. PICK p \in Readings : published = <<p>>
        BY <2>1, <3>3 DEF ReportIInv
      <4>2. p.percent2x \in Int /\ p.mv \in Int
        BY DEF Readings
      <4> DEFINE q == [percent2x |-> IF Distance(r.percent2x, p.percent2x) >= 4
                                       THEN r.percent2x ELSE p.percent2x,
                       mv |-> IF Distance(r.mv, p.mv) >= 50 THEN r.mv ELSE p.mv,
                       level |-> r.level, charging |-> r.charging]
      <4>3. published' = <<q>>
        BY <2>1, <3>3, <4>1 DEF Publish
      <4>4. q \in Readings
        BY <3>1, <4>2 DEF Readings
      <4>5. /\ Distance(q.percent2x, r.percent2x) < 4
            /\ Distance(q.mv, r.mv) < 50 /\ q.level = r.level
        <5>1. /\ q.percent2x = (IF Distance(r.percent2x, p.percent2x) >= 4
                                 THEN r.percent2x ELSE p.percent2x)
              /\ q.mv = (IF Distance(r.mv, p.mv) >= 50 THEN r.mv ELSE p.mv)
              /\ q.level = r.level
          OBVIOUS
        <5> HIDE DEF q
        <5> QED BY <3>1, <4>2, <5>1 DEF Distance
      <4> HIDE DEF q
      <4> QED BY <2>1, <4>3, <4>4, <4>5 DEF ReportIInv, ReportsClose
    <3> QED BY <3>2, <3>3
  <2>2. ASSUME ReportIInv, Report PROVE ReportIInv'
    <3>1. PICK pin \in Nat, charging \in BOOLEAN :
            /\ latest' = <<Reading(pin, charging)>>
            /\ published' = Publish(published, Reading(pin, charging))
      BY <2>2 DEF Report
    <3>2. Reading(pin, charging) \in Readings
      BY ReadingType
    <3> QED BY <2>1, <2>2, <3>1, <3>2
  <2>3. CASE UNCHANGED reportVars
    BY <2>3 DEF reportVars, ReportIInv, ReportsClose
  <2> QED BY <2>2, <2>3
<1>3. ReportIInv => ReportsClose
  BY DEF ReportIInv, ReportsClose
<1> QED BY <1>1, <1>2, <1>3, PTL DEF ReportSpec
=============================================================================
