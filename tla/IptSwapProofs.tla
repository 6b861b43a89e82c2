----------------------------- MODULE IptSwapProofs -----------------------------
(***************************************************************************)
(* The turns of ipt_swap exclude each other, for any number of initiators, *)
(* slots and procedures, provided both messages and the burst fit in the   *)
(* time the hub waits (PromptDelivery) and the controller accepts every    *)
(* disable.  The argument is TurnInv: by the hub's clock, each part of a   *)
(* turn is over before the hub gives up waiting for it.                    *)
(***************************************************************************)
EXTENDS IptSwap, HubPeripheralProofs

\* The types of the messages and the clocks.
ClocksOK ==
  /\ go \in [Device -> SUBSET (0 .. GoBound)]
  /\ done_msg \in [Device -> SUBSET (0 .. DoneBound)]
  /\ hub_wait \in 0 .. HubTimeout
  /\ burst_wait \in [Device -> 0 .. BurstTimeout]

SwapIInv == HubIInv /\ PerIInv /\ ClocksOK

-----------------------------------------------------------------------------
(* Each action is a step of its components, or leaves them alone.           *)

LEMMA ComponentSteps ==
  ASSUME NEW d \in Device, DeviceStep(d)
  PROVE  [HubNext]_hubVars /\ (PerStep(d) \/ UNCHANGED perVars)
<1> USE DEF PerStep, HubNext
<1>1. CASE LinkUp(d) \/ HubHearsLoss(d) \/ DoneArrives(d)
  BY <1>1 DEF LinkUp, HubHearsLoss, DoneArrives
<1>2. CASE LinkLost(d) \/ PerHearsLoss(d) \/ GoArrives(d) \/ GoUnheard(d)
  BY <1>2 DEF LinkLost, PerHearsLoss, GoArrives, GoUnheard
<1>3. CASE BeginTurn(d) \/ NoTurn(d) \/ EndBurst(d) \/ SendDone(d)
  BY <1>3 DEF BeginTurn, NoTurn, EndBurst, SendDone, TurnThread, YieldAny
<1>4. CASE PerElse(d)
  BY <1>4 DEF PerElse
<1> QED BY <1>1, <1>2, <1>3, <1>4 DEF DeviceStep

LEMMA HubStepInv ==
  ASSUME HubIInv, [HubNext]_hubVars
  PROVE  HubIInv'
<1>1. CASE \E d \in Device : ConnectedCb(d) \/ DisconnectedCb(d) \/ TurnNotify(d)
  BY <1>1, LinkCbInv
<1>2. CASE HubMain
  BY <1>2, SetupInv, LoopInv DEF HubMain
<1>3. CASE HubRadio \/ HubStageCb
  BY <1>3, RadioInv
<1> QED BY <1>1, <1>2, <1>3, HubStutter DEF HubNext

LEMMA ClocksStep ==
  ASSUME SwapIInv, NEW d \in Device, DeviceStep(d)
  PROVE  ClocksOK'
<1> USE TimesAreNaturals DEF ClocksOK, SwapIInv, mediumVars, timeVars
<1>1. CASE LinkUp(d) \/ HubHearsLoss(d) \/ PerHearsLoss(d) \/ NoTurn(d)
           \/ EndBurst(d) \/ PerElse(d)
  BY <1>1 DEF LinkUp, HubHearsLoss, PerHearsLoss, NoTurn, EndBurst, PerElse
<1>2. CASE LinkLost(d)
  BY <1>2 DEF LinkLost
<1>3. CASE GoArrives(d)
  BY <1>3 DEF GoArrives
<1>4. CASE GoUnheard(d)
  BY <1>4 DEF GoUnheard
<1>5. CASE BeginTurn(d)
  BY <1>5 DEF BeginTurn
<1>6. CASE SendDone(d)
  BY <1>6 DEF SendDone
<1>7. CASE DoneArrives(d)
  BY <1>7 DEF DoneArrives
<1> QED BY <1>1, <1>2, <1>3, <1>4, <1>5, <1>6, <1>7 DEF DeviceStep

LEMMA OlderStaysInTime ==
  ASSUME NEW bound \in Nat, NEW ages \in SUBSET (0 .. bound),
         \A age \in ages : age < bound
  PROVE  Older(ages) \in SUBSET (0 .. bound)
BY DEF Older

LEMMA TickClocks ==
  ASSUME SwapIInv, Tick
  PROVE  ClocksOK'
<1> USE TimesAreNaturals DEF ClocksOK, SwapIInv, Tick
<1>1. go' \in [Device -> SUBSET (0 .. GoBound)]
  BY OlderStaysInTime DEF InTime
<1>2. done_msg' \in [Device -> SUBSET (0 .. DoneBound)]
  BY OlderStaysInTime DEF InTime
<1>3. hub_wait' \in 0 .. HubTimeout
  BY DEF HubWaits
<1>4. burst_wait' \in [Device -> 0 .. BurstTimeout]
  BY DEF PerWaits
<1> QED BY <1>1, <1>2, <1>3, <1>4

LEMMA SwapInitInv == SwapInit => SwapIInv
BY HubInitInv, PerInitInv, TimesAreNaturals DEF SwapInit, SwapIInv, ClocksOK

LEMMA SwapStepInv ==
  ASSUME SwapIInv, [SwapNext]_swapVars
  PROVE  SwapIInv'
<1>1. ASSUME NEW d \in Device, DeviceStep(d) PROVE SwapIInv'
  <2>1. HubIInv'
    BY <1>1, ComponentSteps, HubStepInv DEF SwapIInv
  <2>2. PerIInv'
    BY <1>1, ComponentSteps, PerStepInv, PerStutter DEF SwapIInv
  <2> QED BY <1>1, <2>1, <2>2, ClocksStep DEF SwapIInv
<1>2. CASE SendGo
  <2>1. HubIInv' /\ PerIInv'
    BY <1>2, LoopInv, PerStutter DEF SendGo, SwapIInv
  <2>2. go' \in [Device -> SUBSET (0 .. GoBound)]
    <3>1. \/ go' = go
          \/ go' = [go EXCEPT ![cur'] = @ \union {0}]
      BY <1>2 DEF SendGo
    <3> QED BY <3>1, TimesAreNaturals DEF SwapIInv, ClocksOK
  <2>3. ClocksOK'
    BY <1>2, <2>2, TimesAreNaturals DEF SendGo, SwapIInv, ClocksOK
  <2> QED BY <2>1, <2>3 DEF SwapIInv
<1>3. CASE EndTurn
  <2>1. HubIInv' /\ PerIInv'
    BY <1>3, LoopInv, PerStutter DEF EndTurn, SwapIInv
  <2>2. ClocksOK'
    BY <1>3, TimesAreNaturals DEF EndTurn, SwapIInv, ClocksOK, mediumVars
  <2> QED BY <2>1, <2>2 DEF SwapIInv
<1>4. CASE HubElse
  <2>1. HubIInv' /\ PerIInv'
    BY <1>4, RadioInv, SetupInv, LoopInv, PerStutter DEF HubElse, SwapIInv
  <2> QED BY <1>4, <2>1 DEF HubElse, SwapIInv, ClocksOK, mediumVars, timeVars
<1>5. CASE Tick
  <2>1. HubIInv' /\ PerIInv'
    BY <1>5, HubStutter, PerStutter DEF Tick, SwapIInv
  <2> QED BY <1>5, <2>1, TickClocks DEF SwapIInv
<1>6. CASE UNCHANGED swapVars
  <2>1. HubIInv' /\ PerIInv'
    BY <1>6, HubStutter, PerStutter DEF swapVars, SwapIInv
  <2> QED BY <1>6, <2>1 DEF swapVars, mediumVars, timeVars, SwapIInv, ClocksOK
<1> QED BY <1>1, <1>2, <1>3, <1>4, <1>5, <1>6 DEF SwapNext

\* Every variable of the two programs, the messages' ages and both clocks keep
\* their types, whatever the bounds and the options.
THEOREM SwapTypeCorrect == SwapSpec => []SwapTypeOK
<1>1. SwapIInv => SwapTypeOK
  BY DEF SwapIInv, HubIInv, PerIInv, ClocksOK, SwapTypeOK
<1> QED BY SwapInitInv, SwapStepInv, <1>1, PTL DEF SwapSpec

-----------------------------------------------------------------------------
(* The turn.                                                                *)

\* Actions that are no part of a turn leave the turn as it was: which device
\* the hub waits for, whether it has its DONE, and the peripherals' side.
LEMMA HubElseFrame ==
  ASSUME HubElse
  PROVE  /\ hub' = "await" <=> hub = "await"
         /\ hub = "await" => UNCHANGED <<cur, sem_turn_done>>
<1> USE DEF mainVars
<1>1. CASE HubRadio \/ HubStageCb
  BY <1>1 DEF HubRadio, Match, MatchCreate, MatchError, ConnectFailed,
              HubStageCb, StageCb
<1>2. CASE SetupScan \/ SetupTimeout \/ SetupConnected
  BY <1>2 DEF SetupScan, SetupTimeout, SetupConnected, BeginRoundRobin,
              LookUpLast
<1>3. CASE Ask \/ AskFails \/ StageTaken \/ StageTimeout
  BY <1>3 DEF Ask, AskFails, StageTaken, StageTimeout, LinkDone, NoLink
<1>4. CASE Subscribe \/ SubscribeFails \/ Settle
  BY <1>4 DEF Subscribe, SubscribeFails, Settle, LinkDone, NoLink
<1>5. CASE HubLoop
  BY <1>5 DEF HubLoop, GrantFails, SkipNotReady, Rescan, RescanTimeout,
              RescanConnected, LookUpLast, AtSlot
<1> QED BY <1>1, <1>2, <1>3, <1>4, <1>5 DEF HubElse, HubSetup

\* The part of the state that TurnInv is about.
turnVars == <<go, done_msg, sem_turn_go, turn, burst_wait, hub_wait>>

LEMMA TurnFrame ==
  ASSUME SwapIInv, TurnInv, UNCHANGED turnVars,
         hub' = "await" <=> hub = "await",
         hub = "await" => UNCHANGED <<cur, sem_turn_done>>
  PROVE  TurnInv'
<1>1. Holder' = Holder
  BY DEF Holder
<1>2. \A d \in Device : Quiet(d)' = Quiet(d)
  BY DEF Quiet, turnVars
<1>3. hub = "await" => OnTime(cur)' /\ OnePlace(cur)'
  BY DEF TurnInv, OnTime, OnePlace, turnVars
<1>4. hub = "await" => cur \in Device
  BY DEF SwapIInv, HubIInv, LinkInHand
<1> QED BY <1>1, <1>2, <1>3, <1>4 DEF TurnInv

\* Whoever has something of a turn is the device the hub waits for.
LEMMA BusyHolds ==
  ASSUME TurnInv, NEW d \in Device, ~Quiet(d)
  PROVE  hub = "await" /\ cur = d /\ sem_turn_done # 1
BY NoDeviceIsNone DEF TurnInv, Holder

\* A step of the turn of the device the hub waits for preserves TurnInv if it
\* keeps that turn on time and in one place, and is not over-reported.
LEMMA TurnStepOf ==
  ASSUME SwapIInv, TurnInv, NEW d \in Device, hub = "await", cur = d,
         UNCHANGED <<hub, cur>>,
         \A e \in Device : e # d => (Quiet(e) => Quiet(e)'),
         OnTime(d)', OnePlace(d)', sem_turn_done' = 1 => Quiet(d)'
  PROVE  TurnInv'
BY DEF TurnInv, Holder

\* A step of one peripheral leaves the turns of the others as they were.
LEMMA OthersStayQuiet ==
  ASSUME SwapIInv, NEW d \in Device, PerStep(d), NEW e \in Device, e # d,
         go'[e] = go[e], done_msg'[e] = done_msg[e], Quiet(e)
  PROVE  Quiet(e)'
BY OthersUntouched DEF SwapIInv, PerIInv, Quiet

LEMMA LinkLostTurn ==
  ASSUME SwapIInv, TurnInv, NEW d \in Device, LinkLost(d)
  PROVE  TurnInv'
<1> USE DEF LinkLost, LinkLostPer, SwapIInv, PerIInv, PerTypeOK, ClocksOK, Sem,
            hubVars, timeVars, mainVars, goVars
<1>1. \A e \in Device : Quiet(e) => Quiet(e)'
  BY DEF Quiet
<1>2. \A e \in Device : OnTime(e) => OnTime(e)'
  BY DEF OnTime
<1>3. \A e \in Device : OnePlace(e) => OnePlace(e)'
  BY DEF OnePlace
<1>4. hub = "await" => cur \in Device
  BY DEF HubIInv, LinkInHand
<1>5. UNCHANGED <<hub, cur, sem_turn_done>>
  OBVIOUS
<1> QED BY <1>1, <1>2, <1>3, <1>4, <1>5 DEF TurnInv, Holder

\* GO arrives in time, and alone.
LEMMA GoArrivesTurn ==
  ASSUME SwapIInv, TurnInv, NEW d \in Device, GoArrives(d)
  PROVE  TurnInv'
<1>1. PICK age \in go[d] : go' = [go EXCEPT ![d] = @ \ {age}]
  BY DEF GoArrives
<1>2. hub = "await" /\ cur = d /\ sem_turn_done # 1
  BY <1>1, BusyHolds DEF Quiet
<1>3. OnTime(d) /\ OnePlace(d)
  BY <1>2 DEF TurnInv
<1>4. /\ go'[d] = {} /\ done_msg'[d] = {} /\ turn'[d] = "idle"
      /\ sem_turn_done' # 1 /\ UNCHANGED <<hub, cur, hub_wait, burst_wait>>
  BY <1>1, <1>2, <1>3 DEF GoArrives, TurnWrite, OnTime, OnePlace, hubVars,
     timeVars, mainVars, SwapIInv, ClocksOK
<1>5. hub_wait' <= GoBound
  BY <1>1, <1>3, <1>4 DEF OnTime, SwapIInv, ClocksOK
<1>6. ASSUME NEW e \in Device, e # d, Quiet(e) PROVE Quiet(e)'
  <2>1. go'[e] = go[e] /\ done_msg'[e] = done_msg[e] /\ PerStep(d)
    BY <1>1, <1>6 DEF GoArrives, PerStep, SwapIInv, ClocksOK
  <2> QED BY <1>6, <2>1, OthersStayQuiet
<1>7. OnTime(d)' /\ OnePlace(d)'
  BY <1>4, <1>5 DEF OnTime, OnePlace
<1> QED BY <1>2, <1>4, <1>6, <1>7, TurnStepOf

\* A GO that nobody hears leaves the turn to time out.
LEMMA GoUnheardTurn ==
  ASSUME SwapIInv, TurnInv, NEW d \in Device, GoUnheard(d)
  PROVE  TurnInv'
<1>1. hub = "await" /\ cur = d /\ sem_turn_done # 1
  BY BusyHolds DEF GoUnheard, Quiet
<1>2. OnTime(d) /\ OnePlace(d)
  BY <1>1 DEF TurnInv
<1>3. /\ go' = [go EXCEPT ![d] = {}]
      /\ UNCHANGED <<hub, cur, sem_turn_done, hub_wait, burst_wait, done_msg,
                     sem_turn_go, turn>>
  BY DEF GoUnheard, hubVars, perVars, timeVars, mainVars, goVars
<1>4. OnTime(d)' /\ OnePlace(d)'
  BY <1>2, <1>3 DEF OnTime, OnePlace, SwapIInv, ClocksOK
<1>5. \A e \in Device : e # d => (Quiet(e) => Quiet(e)')
  BY <1>3 DEF Quiet, SwapIInv, ClocksOK
<1> QED BY <1>1, <1>3, <1>4, <1>5, TurnStepOf

\* The turn thread takes the GO: it begins a burst, or nothing is left of it.
LEMMA GoTakenTurn ==
  ASSUME SwapIInv, TurnInv, NEW d \in Device, BeginTurn(d) \/ NoTurn(d)
  PROVE  TurnInv'
<1>1. /\ sem_turn_go[d] = 1 /\ sem_turn_go' = [sem_turn_go EXCEPT ![d] = 0]
      /\ UNCHANGED <<hub, cur, sem_turn_done, hub_wait, go, done_msg>>
      /\ PerStep(d)
  BY DEF BeginTurn, NoTurn, TurnStart, TurnEnableFails, TurnNoConnection,
         GoTaken, PerStep, TurnThread, hubVars, mediumVars, timeVars, mainVars
<1>2. hub = "await" /\ cur = d /\ sem_turn_done # 1
  BY <1>1, BusyHolds DEF Quiet
<1>3. OnTime(d) /\ OnePlace(d)
  BY <1>2 DEF TurnInv
<1>4. go'[d] = {} /\ done_msg'[d] = {} /\ sem_turn_go'[d] = 0
  BY <1>1, <1>3 DEF OnePlace, SwapIInv, PerIInv, PerTypeOK, Sem
<1>5. turn'[d] # "idle" => burst_wait'[d] = 0
  <2>1. CASE BeginTurn(d)
    BY <2>1 DEF BeginTurn, SwapIInv, ClocksOK
  <2>2. CASE NoTurn(d)
    BY <2>2 DEF NoTurn, TurnEnableFails, TurnNoConnection, GoTaken
  <2> QED BY <2>1, <2>2
<1>6. hub_wait' <= GoBound /\ GoBound \in Nat
  BY <1>1, <1>3, TimesAreNaturals DEF OnTime
<1>7. OnTime(d)' /\ OnePlace(d)'
  BY <1>4, <1>5, <1>6 DEF OnTime, OnePlace
<1>8. ASSUME NEW e \in Device, e # d, Quiet(e) PROVE Quiet(e)'
  BY <1>1, <1>8, OthersStayQuiet
<1> QED BY <1>1, <1>2, <1>7, <1>8, TurnStepOf

\* The burst ends; only SendDone ends the turn.
LEMMA EndBurstTurn ==
  ASSUME SwapIInv, TurnInv, NEW d \in Device, EndBurst(d)
  PROVE  TurnInv'
<1>1. /\ turn[d] = "burst" /\ turn'[d] # "idle"
      /\ UNCHANGED <<hub, cur, sem_turn_done, hub_wait, burst_wait, go,
                     done_msg, sem_turn_go>>
      /\ PerStep(d)
  BY DEF EndBurst, BurstTaken, BurstTimesOut, PerStep, TurnThread, hubVars,
         mediumVars, timeVars, mainVars, goVars, SwapIInv, PerIInv, PerTypeOK
<1>2. hub = "await" /\ cur = d /\ sem_turn_done # 1
  BY <1>1, BusyHolds DEF Quiet
<1>3. OnTime(d) /\ OnePlace(d)
  BY <1>2 DEF TurnInv
<1>4. OnTime(d)' /\ OnePlace(d)'
  BY <1>1, <1>3 DEF OnTime, OnePlace
<1>5. ASSUME NEW e \in Device, e # d, Quiet(e) PROVE Quiet(e)'
  BY <1>1, <1>5, OthersStayQuiet
<1> QED BY <1>1, <1>2, <1>4, <1>5, TurnStepOf

\* DONE leaves in time.
LEMMA SendDoneTurn ==
  ASSUME SwapIInv, TurnInv, NEW d \in Device, SendDone(d)
  PROVE  TurnInv'
<1>1. PICK disabled \in BOOLEAN, notified \in BOOLEAN :
        /\ Yield(d, disabled, notified)
        /\ done_msg' = IF notified
             THEN [done_msg EXCEPT ![d] = @ \union {0}] ELSE done_msg
  BY DEF SendDone
<1>2. /\ turn[d] # "idle" /\ turn'[d] = "idle"
      /\ UNCHANGED <<hub, cur, sem_turn_done, hub_wait, burst_wait, go,
                     sem_turn_go>>
      /\ PerStep(d)
  BY <1>1 DEF SendDone, Yield, PerStep, TurnThread, YieldAny, hubVars, timeVars,
         mainVars, goVars, SwapIInv, PerIInv, PerTypeOK
<1>3. hub = "await" /\ cur = d /\ sem_turn_done # 1
  BY <1>2, BusyHolds DEF Quiet
<1>4. OnTime(d) /\ OnePlace(d)
  BY <1>3 DEF TurnInv
<1>5. go'[d] = {} /\ sem_turn_go'[d] = 0
  BY <1>2, <1>4 DEF OnePlace, SwapIInv, PerIInv, PerTypeOK, Sem
<1>6. done_msg'[d] \subseteq {0}
  BY <1>1, <1>2, <1>4 DEF OnePlace, SwapIInv, ClocksOK
<1>7. hub_wait' <= GoBound + BurstTimeout
  BY <1>2, <1>4, TimesAreNaturals DEF OnTime, SwapIInv, ClocksOK
<1>8. OnTime(d)' /\ OnePlace(d)'
  BY <1>2, <1>5, <1>6, <1>7, TimesAreNaturals DEF OnTime, OnePlace
<1>9. ASSUME NEW e \in Device, e # d, Quiet(e) PROVE Quiet(e)'
  <2>1. go'[e] = go[e] /\ done_msg'[e] = done_msg[e]
    BY <1>1, <1>2, <1>9 DEF SwapIInv, ClocksOK
  <2> QED BY <1>2, <1>9, <2>1, OthersStayQuiet
<1> QED BY <1>2, <1>3, <1>8, <1>9, TurnStepOf

\* The DONE that arrives is the only thing left of the turn.
LEMMA DoneArrivesTurn ==
  ASSUME SwapIInv, TurnInv, NEW d \in Device, DoneArrives(d)
  PROVE  TurnInv'
<1>1. PICK age \in done_msg[d] : done_msg' = [done_msg EXCEPT ![d] = @ \ {age}]
  BY DEF DoneArrives
<1>2. hub = "await" /\ cur = d
  BY <1>1, BusyHolds DEF Quiet
<1>3. OnTime(d) /\ OnePlace(d)
  BY <1>2 DEF TurnInv
<1>4. UNCHANGED <<hub, cur, hub_wait, burst_wait, go, sem_turn_go, turn>>
  BY DEF DoneArrives, TurnNotify, perVars, timeVars, mainVars, goVars
<1>5. Quiet(d)'
  <2>1. done_msg'[d] = {}
    BY <1>1, <1>3 DEF OnePlace, SwapIInv, ClocksOK
  <2>2. go[d] = {} /\ sem_turn_go[d] # 1 /\ turn[d] = "idle"
    BY <1>1, <1>3 DEF OnePlace
  <2> QED BY <1>4, <2>1, <2>2 DEF Quiet, SwapIInv, PerIInv, PerTypeOK, Sem
<1>6. OnTime(d)' /\ OnePlace(d)'
  BY <1>5 DEF Quiet, OnTime, OnePlace
<1>7. \A e \in Device : e # d => (Quiet(e) => Quiet(e)')
  BY <1>1, <1>4 DEF Quiet, SwapIInv, ClocksOK
<1> QED BY <1>2, <1>4, <1>5, <1>6, <1>7, TurnStepOf

LEMMA DeviceStepTurn ==
  ASSUME SwapIInv, TurnInv, NEW d \in Device, DeviceStep(d)
  PROVE  TurnInv'
<1>1. CASE LinkUp(d) \/ HubHearsLoss(d) \/ PerHearsLoss(d)
  <2>1. UNCHANGED turnVars /\ UNCHANGED <<hub, cur, sem_turn_done>>
    BY <1>1 DEF LinkUp, HubHearsLoss, PerHearsLoss, ConnectedCb, ConnectedPer,
       DisconnectedCb, DisconnectedPer, turnVars, hubVars, perVars, mediumVars,
       timeVars, mainVars, goVars
  <2> QED BY <2>1, TurnFrame
<1>2. CASE PerElse(d)
  <2>1. UNCHANGED <<go, done_msg, hub_wait, burst_wait, hub, cur, sem_turn_done>>
    BY <1>2 DEF PerElse, hubVars, mediumVars, timeVars, mainVars
  <2>2. UNCHANGED <<sem_turn_go, turn>>
    BY <1>2 DEF PerElse, Procedures, Subevent, SubeventBlocks, SubeventAborted,
       RxResume, Settings, SettingsSet, SettingsFail, Estimate, EstimateBegins,
       EstimateEnds, goVars
  <2> QED BY <2>1, <2>2, TurnFrame DEF turnVars
<1> QED BY <1>1, <1>2, LinkLostTurn, GoArrivesTurn, GoUnheardTurn, GoTakenTurn,
           EndBurstTurn, SendDoneTurn, DoneArrivesTurn DEF DeviceStep

\* Between turns everybody is quiet, so a GO begins its turn alone.
LEMMA SendGoTurn ==
  ASSUME SwapIInv, TurnInv, SendGo
  PROVE  TurnInv'
<1>1. /\ hub = "loop" /\ hub' = "await" /\ cur' \in Device
      /\ sem_turn_done' = 0 /\ hub_wait' = 0
      /\ UNCHANGED <<done_msg, sem_turn_go, turn, burst_wait>>
  BY DEF SendGo, Grant, AtSlot, perVars, goVars, SwapIInv, HubIInv, HubTypeOK
<1>2. \A d \in Device : Quiet(d)
  BY <1>1, NoDeviceIsNone DEF TurnInv, Holder
<1>3. \A d \in Device : go'[d] # {} => d = cur' /\ go'[d] \subseteq {0}
  BY <1>1, <1>2 DEF SendGo, Quiet, SwapIInv, ClocksOK
<1>4. \A d \in Device : d # cur' => Quiet(d)'
  BY <1>1, <1>2, <1>3 DEF Quiet
<1>5. OnTime(cur)' /\ OnePlace(cur)'
  BY <1>1, <1>2, <1>3 DEF Quiet, OnTime, OnePlace
<1> QED BY <1>1, <1>4, <1>5 DEF TurnInv, Holder

\* When the hub stops waiting the turn is over: by its DONE, or by the clock.
LEMMA EndTurnQuiet ==
  ASSUME PromptDelivery, SwapIInv, TurnInv, EndTurn
  PROVE  hub = "await" /\ \A d \in Device : Quiet(d)
<1>1. hub = "await" /\ cur \in Device
  BY DEF EndTurn, TurnDone, TurnTimeout, SwapIInv, HubIInv, LinkInHand
<1>2. CASE TurnDone
  BY <1>1, <1>2 DEF TurnDone, TurnInv, Holder
<1>3. CASE TurnTimeout /\ hub_wait = HubTimeout
  <2> DEFINE d == cur
  <2>1. OnTime(d)
    BY <1>1 DEF TurnInv
  <2>2. go[d] = {}
    BY <1>1, <1>3, <2>1, TimesAreNaturals
       DEF OnTime, PromptDelivery, SwapIInv, ClocksOK
  <2>3. done_msg[d] = {}
    <3>1. ASSUME NEW age \in done_msg[d] PROVE FALSE
      <4>1. age \in Nat /\ age <= DoneBound
        BY <1>1, <3>1, TimesAreNaturals DEF SwapIInv, ClocksOK
      <4>2. HubTimeout <= GoBound + BurstTimeout + age
        BY <1>3, <2>1, <3>1 DEF OnTime
      <4> QED BY <4>1, <4>2, TimesAreNaturals DEF PromptDelivery
    <3> QED BY <3>1
  <2>4. sem_turn_go[d] = 0
    BY <1>1, <1>3, <2>1, TimesAreNaturals
       DEF OnTime, PromptDelivery, SwapIInv, PerIInv, PerTypeOK, Sem
  <2>5. turn[d] = "idle"
    BY <1>1, <1>3, <2>1, TimesAreNaturals
       DEF OnTime, PromptDelivery, SwapIInv, ClocksOK
  <2>6. Quiet(cur)
    BY <2>2, <2>3, <2>4, <2>5 DEF Quiet
  <2> QED BY <1>1, <2>6 DEF TurnInv, Holder
<1> QED BY <1>2, <1>3 DEF EndTurn

LEMMA EndTurnTurn ==
  ASSUME PromptDelivery, SwapIInv, TurnInv, EndTurn
  PROVE  TurnInv'
<1>1. hub' = "loop" /\ UNCHANGED <<go, done_msg, sem_turn_go, turn>>
  BY DEF EndTurn, TurnDone, TurnTimeout, TurnOver, perVars, mediumVars, goVars
<1>2. \A d \in Device : Quiet(d)'
  BY <1>1, EndTurnQuiet DEF Quiet
<1> QED BY <1>1, <1>2 DEF TurnInv

\* Time ages the turn and the hub's wait alike.
LEMMA TickTurn ==
  ASSUME SwapIInv, TurnInv, Tick
  PROVE  TurnInv'
<1>1. UNCHANGED <<hub, cur, sem_turn_done, sem_turn_go, turn>>
  BY DEF Tick, hubVars, perVars, mainVars, goVars
<1>2. ASSUME NEW d \in Device
      PROVE  /\ go'[d] = Older(go[d]) /\ done_msg'[d] = Older(done_msg[d])
             /\ turn[d] # "idle" => burst_wait'[d] = burst_wait[d] + 1
  BY DEF Tick, PerWaits, SwapIInv, PerIInv, PerTypeOK
<1>3. ASSUME NEW d \in Device, Quiet(d) PROVE Quiet(d)'
  BY <1>1, <1>2, <1>3 DEF Quiet, Older
<1>4. ASSUME hub = "await" PROVE OnTime(cur)' /\ OnePlace(cur)'
  <2> DEFINE d == cur
  <2>1. d \in Device /\ hub_wait' = hub_wait + 1
    BY <1>4 DEF SwapIInv, HubIInv, LinkInHand, Tick
  <2>2. OnTime(d) /\ OnePlace(d)
    BY <1>4 DEF TurnInv
  <2>3. sem_turn_go[d] # 1
    BY <2>1, <2>2 DEF OnePlace, Tick, PerWaits
  <2>4. /\ go[d] \subseteq Nat /\ done_msg[d] \subseteq Nat /\ hub_wait \in Nat
        /\ burst_wait[d] \in Nat
    BY <2>1, TimesAreNaturals DEF SwapIInv, ClocksOK
  <2>5. go'[d] = Older(go[d]) /\ done_msg'[d] = Older(done_msg[d])
    BY <1>2, <2>1
  <2>6. \A age \in go'[d] : age = hub_wait'
    BY <2>1, <2>2, <2>4, <2>5 DEF OnTime, Older
  <2>7. \A age \in done_msg'[d] : hub_wait' <= GoBound + BurstTimeout + age
    BY <2>1, <2>2, <2>4, <2>5, TimesAreNaturals DEF OnTime, Older
  <2>8. turn'[d] # "idle" => hub_wait' <= GoBound + burst_wait'[d]
    BY <1>1, <1>2, <2>1, <2>2, <2>4, TimesAreNaturals DEF OnTime
  <2>9. OnTime(cur)'
    BY <1>1, <2>3, <2>6, <2>7, <2>8 DEF OnTime
  <2>10. OnePlace(cur)'
    BY <1>1, <2>2, <2>4, <2>5 DEF OnePlace, Older
  <2> QED BY <2>9, <2>10
<1>5. hub = "await" => cur \in Device
  BY DEF SwapIInv, HubIInv, LinkInHand
<1> QED BY <1>1, <1>3, <1>4, <1>5 DEF TurnInv, Holder

LEMMA SwapInitTurn == SwapInit => TurnInv
BY DEF SwapInit, HubInit, PerInit, TurnInv, Quiet

LEMMA SwapNextTurn ==
  ASSUME PromptDelivery, SwapIInv, TurnInv, [SwapNext]_swapVars
  PROVE  TurnInv'
<1>1. CASE HubElse
  <2>1. UNCHANGED turnVars
    BY <1>1 DEF HubElse, turnVars, perVars, mediumVars, timeVars, goVars
  <2> QED BY <1>1, <2>1, HubElseFrame, TurnFrame
<1>2. CASE UNCHANGED swapVars
  <2>1. UNCHANGED turnVars /\ UNCHANGED <<hub, cur, sem_turn_done>>
    BY <1>2 DEF swapVars, turnVars, hubVars, perVars, mediumVars, timeVars,
       mainVars, goVars
  <2> QED BY <2>1, TurnFrame
<1> QED BY <1>1, <1>2, DeviceStepTurn, SendGoTurn, EndTurnTurn, TickTurn
        DEF SwapNext

LEMMA SwapInductive ==
  ASSUME PromptDelivery
  PROVE  SwapSpec => [](SwapIInv /\ TurnInv)
<1>1. SwapInit => SwapIInv /\ TurnInv
  BY SwapInitInv, SwapInitTurn
<1>2. SwapIInv /\ TurnInv /\ [SwapNext]_swapVars => (SwapIInv /\ TurnInv)'
  BY SwapStepInv, SwapNextTurn
<1> QED BY <1>1, <1>2, PTL DEF SwapSpec

-----------------------------------------------------------------------------
\* "Only one link ranges at a time" (ipt_swap/README.md:46): if GO, burst and
\* DONE together take less than the hub's 2000 ms and disables do not fail,
\* procedures are enabled on no link but the one whose turn it is.
THEOREM SwapExclusive ==
  ASSUME PromptDelivery
  PROVE  SwapSpec => []Exclusive
<1>1. SwapIInv /\ TurnInv => Exclusive
  BY DEF SwapIInv, PerIInv, CsOnlyInTurn, TurnInv, Quiet, Exclusive, Ranging
<1> QED BY <1>1, SwapInductive, PTL

\* "so this turn waits for its OWN completion" (main.c:462): the DONE that ends
\* a turn was sent by the initiator of that turn, which has finished.
THEOREM SwapOwnDone ==
  ASSUME PromptDelivery
  PROVE  SwapSpec => []OwnDone
<1>1. TurnInv => OwnDone
  BY DEF TurnInv, OwnDone
<1> QED BY <1>1, SwapInductive, PTL

-----------------------------------------------------------------------------
(* The two programs implement the turn token.                               *)

LEMMA RangingStep ==
  ASSUME SwapIInv, TurnInv, ~HciErrors, NEW d \in Device, DeviceStep(d)
  PROVE  [Token!TokenNext]_<<Holder, Ranging>>
<1>1. hub' = hub /\ cur' = cur
  BY DEF DeviceStep, LinkUp, ConnectedCb, LinkLost, HubHearsLoss, DisconnectedCb,
     PerHearsLoss, GoArrives, GoUnheard, BeginTurn, NoTurn, EndBurst, SendDone,
     DoneArrives, TurnNotify, PerElse, hubVars, mainVars
<1>2. Holder' = Holder
  BY <1>1 DEF Holder
<1>3. CASE BeginTurn(d)
  <2>1. ~Quiet(d)
    BY <1>3 DEF BeginTurn, TurnStart, GoTaken, Quiet
  <2>2. Holder = d
    BY <2>1, BusyHolds DEF Holder
  <2>3. Ranging' = Ranging \union {d}
    BY <1>3 DEF BeginTurn, TurnStart, Ranging, SwapIInv, PerIInv, PerTypeOK
  <2> QED BY <1>2, <2>2, <2>3 DEF Token!TokenNext, Token!Start
<1>4. CASE LinkLost(d) \/ SendDone(d)
  <2>1. cs' = [cs EXCEPT ![d] = "off"]
    BY <1>4 DEF LinkLost, LinkLostPer, SendDone, Yield, Disable
  <2>2. Ranging' = Ranging \ {d}
    BY <2>1 DEF Ranging, SwapIInv, PerIInv, PerTypeOK
  <2> QED BY <1>2, <2>2 DEF Token!TokenNext, Token!Stop
<1>5. CASE PerElse(d)
  <2>1. \A e \in Device : cs'[e] # "off" <=> cs[e] # "off"
    BY <1>5 DEF PerElse, Procedures, Subevent, SubeventBlocks, SubeventAborted,
       RxResume, Parsed, Settings, SettingsSet, SettingsFail, Estimate,
       EstimateBegins, EstimateEnds, SwapIInv, PerIInv, PerTypeOK
  <2> QED BY <1>2, <2>1 DEF Ranging
<1>6. CASE LinkUp(d) \/ HubHearsLoss(d) \/ PerHearsLoss(d) \/ GoArrives(d)
           \/ GoUnheard(d) \/ NoTurn(d) \/ EndBurst(d) \/ DoneArrives(d)
  <2>1. cs' = cs
    BY <1>6 DEF LinkUp, ConnectedPer, HubHearsLoss, PerHearsLoss,
       DisconnectedPer, GoArrives, TurnWrite, GoUnheard, NoTurn,
       TurnEnableFails, TurnNoConnection, EndBurst, BurstTaken, BurstTimesOut,
       DoneArrives, perVars
  <2> QED BY <1>2, <2>1 DEF Ranging
<1> QED BY <1>3, <1>4, <1>5, <1>6 DEF DeviceStep

LEMMA TokenStep ==
  ASSUME PromptDelivery, ~HciErrors, SwapIInv, TurnInv, [SwapNext]_swapVars
  PROVE  [Token!TokenNext]_<<Holder, Ranging>>
<1>1. CASE SendGo
  <2>1. /\ Holder = NoDevice /\ Holder' \in Device /\ cs' = cs
    BY <1>1 DEF SendGo, Grant, AtSlot, Holder, perVars, SwapIInv, HubIInv,
       HubTypeOK
  <2> QED BY <2>1 DEF Token!TokenNext, Token!Hand, Ranging
<1>2. CASE EndTurn
  <2>1. Holder \in Device /\ Holder' = NoDevice /\ cs' = cs
    BY <1>2 DEF EndTurn, TurnDone, TurnTimeout, TurnOver, Holder, perVars,
       SwapIInv, HubIInv, LinkInHand
  <2>2. Ranging = {}
    BY <1>2, EndTurnQuiet DEF Ranging, Quiet, SwapIInv, PerIInv, CsOnlyInTurn
  <2> QED BY <2>1, <2>2, NoDeviceIsNone DEF Token!TokenNext, Token!Return, Ranging
<1>3. CASE HubElse \/ Tick \/ UNCHANGED swapVars
  <2>1. cs' = cs
    BY <1>3 DEF HubElse, Tick, swapVars, perVars
  <2>2. Holder' = Holder
    <3>1. CASE HubElse
      BY <3>1, HubElseFrame DEF Holder
    <3>2. CASE Tick \/ UNCHANGED swapVars
      BY <3>2 DEF Tick, swapVars, hubVars, mainVars, Holder
    <3> QED BY <1>3, <3>1, <3>2
  <2> QED BY <2>1, <2>2 DEF Ranging
<1> QED BY <1>1, <1>2, <1>3, RangingStep DEF SwapNext

\* Under the same assumptions the hub and the peripherals hand round one turn:
\* every step is a step of TurnToken or changes nothing of it.
THEOREM SwapImplementsToken ==
  ASSUME PromptDelivery, "hci_errors" \notin Faults
  PROVE  SwapSpec => TokenImplemented
<1>1. SwapInit => Token!TokenInit
  BY DEF SwapInit, HubInit, PerInit, Token!TokenInit, Holder, Ranging
<1>2. SwapIInv /\ TurnInv /\ [SwapNext]_swapVars
        => [Token!TokenNext]_<<Holder, Ranging>>
  <2>1. SwapIInv => ~HciErrors
    BY DEF SwapIInv, PerIInv, PerTypeOK, HciErrors
  <2> QED BY <2>1, TokenStep
<1> QED BY <1>1, <1>2, SwapInductive, PTL
        DEF SwapSpec, TokenImplemented, Token!TokenSpec, Token!tokenVars
=============================================================================
