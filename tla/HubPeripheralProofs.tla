------------------------ MODULE HubPeripheralProofs ---------------------------
(***************************************************************************)
(* The two programs of ipt_swap, each by itself, for any number of devices.*)
(***************************************************************************)
EXTENDS FreeCentral, FreePeripheral, FiniteSetTheorems, SequenceTheorems, TLAPS

-----------------------------------------------------------------------------
(* THE HUB (ReflCentral), for any number of initiators, slots and set-up    *)
(* stages: types, with events late or not; and, if none is late, a radio    *)
(* that is quiet in a turn, a slot table that is a set of links, and ready  *)
(* links that are set up.                                                   *)

\* A request is made for a device only because `cur` is one: LinkInHand.
HubIInv == HubTypeOK /\ LinkInHand

USE DEF Slot, Stage

LEMMA SlotFacts == /\ 0 \in Slot /\ 1 \in Stage
                   /\ \A s \in Slot : (s + 1) % MaxConn \in Slot
BY MaxConnIsPositive, NumStagesIsPositive

LEMMA HubInitInv == HubInit => HubIInv
<1> SUFFICES ASSUME HubInit PROVE HubIInv
  OBVIOUS
<1>1. conns \in [Slot -> Device \union {NoDevice}]
  BY DEF HubInit
<1>2. /\ link_ready \in [Slot -> BOOLEAN]
      /\ sem_stage \in [Stage -> {0, 1}]
      /\ done \in [Device -> SUBSET Stage]
  BY DEF HubInit
<1>3. /\ conn_count \in Int /\ established \in Nat
      /\ slot \in Slot /\ cur_slot \in Slot /\ stage \in Stage
  BY SlotFacts, MaxConnIsPositive DEF HubInit
<1>4. /\ last_connected \in Device \union {NoDevice}
      /\ cur \in Device \union {NoDevice}
      /\ sem_connected \in {0, 1} /\ sem_turn_done \in {0, 1}
      /\ radio \in {"off", "scan", "match", "create"}
      /\ hub \in HubPc /\ round_robin \in BOOLEAN
  BY DEF HubInit, HubPc
<1>5. pending \subseteq Device \X Stage
  BY DEF HubInit
<1>6. faults \subseteq Faults /\ LinkInHand
  BY DEF HubInit, LinkInHand
<1> QED BY <1>1, <1>2, <1>3, <1>4, <1>5, <1>6 DEF HubIInv, HubTypeOK

\* What the callbacks do keeps the types.
LEMMA RadioInv ==
  ASSUME HubIInv, HubRadio \/ HubStageCb
  PROVE  HubIInv'
<1> USE DEF HubIInv, HubTypeOK, LinkInHand, HubPc,
            callbackVars, setupVars, mainVars
<1>1. CASE HubRadio
  BY <1>1 DEF HubRadio, Match, MatchCreate, MatchError, ConnectFailed
<1>2. CASE HubStageCb
  BY <1>2 DEF HubStageCb, StageCb, GiveStage
<1> QED BY <1>1, <1>2

LEMMA LinkCbInv ==
  ASSUME HubIInv, NEW d \in Device,
         ConnectedCb(d) \/ DisconnectedCb(d) \/ TurnNotify(d)
  PROVE  HubIInv'
<1> USE DEF HubIInv, HubTypeOK, LinkInHand, HubPc,
            callbackVars, setupVars, mainVars
<1>1. CASE ConnectedCb(d)
  BY <1>1 DEF ConnectedCb, TakeSlot
<1>2. CASE DisconnectedCb(d)
  BY <1>2 DEF DisconnectedCb
<1>3. CASE TurnNotify(d)
  BY <1>3 DEF TurnNotify
<1> QED BY <1>1, <1>2, <1>3

\* last_connected is looked up only where it is found.
LEMMA LookUpSlot ==
  ASSUME HubTypeOK, Connected(last_connected)
  PROVE  (CHOOSE s \in Slot : conns[s] = last_connected) \in Slot
BY DEF Connected

\* Leaving setup_link, with a slot still to establish if in the set-up phase.
LEMMA LinkDoneTypes ==
  ASSUME HubIInv, NEW ok \in BOOLEAN, LinkDone(ok), hub # "setup_top"
  PROVE  /\ hub' \in HubPc
         /\ round_robin' \in BOOLEAN
         /\ established' \in Nat
         /\ slot' \in Slot
         /\ cur' \in Device \union {NoDevice}
         /\ cur_slot' \in Slot
         /\ stage' \in Stage
         /\ hub' \in {"loop", "setup_top"}
<1>1. /\ round_robin' \in BOOLEAN /\ stage' \in Stage
      /\ cur' \in Device \union {NoDevice} /\ cur_slot' \in Slot
  BY SlotFacts DEF HubIInv, HubTypeOK, LinkDone, NoLink
<1>2. /\ hub' \in {"loop", "setup_top"}
      /\ slot' \in Slot
  BY SlotFacts DEF HubIInv, HubTypeOK, LinkDone, Advance
<1>3. established' \in Nat
  BY DEF HubIInv, HubTypeOK, LinkDone
<1> QED BY <1>1, <1>2, <1>3 DEF HubPc

LEMMA SetupInv ==
  ASSUME HubIInv, HubSetup
  PROVE  HubIInv'
<1> USE DEF HubIInv, HubTypeOK, LinkInHand, HubPc,
            callbackVars, setupVars, mainVars
<1>1. CASE SetupScan
  BY <1>1 DEF SetupScan, ScanStarted, BeginRoundRobin, ScanStopped
<1>2. CASE SetupTimeout
  BY <1>2 DEF SetupTimeout, BeginRoundRobin, ScanStopped
<1>3. CASE SetupConnected
  BY <1>3, LookUpSlot, SlotFacts DEF SetupConnected, LookUpLast
<1>4. CASE Ask
  BY <1>4 DEF Ask
<1>5. CASE AskFails
  BY <1>5, LinkDoneTypes DEF AskFails
<1>6. CASE StageTaken
  BY <1>6, NumStagesIsPositive DEF StageTaken
<1>7. CASE StageTimeout
  BY <1>7, LinkDoneTypes DEF StageTimeout
<1>8. CASE Subscribe
  BY <1>8 DEF Subscribe
<1>9. CASE SubscribeFails
  BY <1>9, LinkDoneTypes DEF SubscribeFails
<1>10. CASE Settle
  BY <1>10, LinkDoneTypes DEF Settle
<1> QED BY <1>1, <1>2, <1>3, <1>4, <1>5, <1>6, <1>7, <1>8, <1>9, <1>10
        DEF HubSetup

LEMMA LoopInv ==
  ASSUME HubIInv, HubLoop \/ Grant \/ TurnDone \/ TurnTimeout
  PROVE  HubIInv'
<1> USE SlotFacts
    DEF HubIInv, HubTypeOK, LinkInHand, HubPc, callbackVars,
        setupVars, mainVars, Advance, AtSlot
<1>1. CASE GrantFails
  BY <1>1 DEF GrantFails
<1>2. CASE SkipNotReady
  BY <1>2 DEF SkipNotReady
<1>3. CASE Rescan
  BY <1>3 DEF Rescan, ScanStarted
<1>4. CASE RescanTimeout
  BY <1>4 DEF RescanTimeout, ScanStopped
<1>5. CASE RescanConnected
  BY <1>5, LookUpSlot DEF RescanConnected, LookUpLast, ScanStopped
<1>6. CASE Grant
  BY <1>6 DEF Grant
<1>7. CASE TurnDone
  BY <1>7 DEF TurnDone, TurnOver, NoLink
<1>8. CASE TurnTimeout
  BY <1>8 DEF TurnTimeout, TurnOver, NoLink
<1> QED BY <1>1, <1>2, <1>3, <1>4, <1>5, <1>6, <1>7, <1>8 DEF HubLoop

LEMMA HubStutter == HubIInv /\ UNCHANGED hubVars => HubIInv'
BY DEF HubIInv, HubTypeOK, LinkInHand, hubVars, callbackVars,
       setupVars,
       mainVars

LEMMA HubNextInv ==
  ASSUME HubIInv, [HubNext]_hubVars
  PROVE  HubIInv'
<1>1. CASE HubRadio \/ HubStageCb
  BY <1>1, RadioInv
<1>2. CASE HubMain
  BY <1>2, SetupInv, LoopInv DEF HubMain
<1>3. ASSUME NEW d \in Device,
             ConnectedCb(d) \/ DisconnectedCb(d) \/ TurnNotify(d)
      PROVE  HubIInv'
  BY <1>3, LinkCbInv
<1>4. CASE UNCHANGED hubVars
  BY <1>4, HubStutter
<1> QED BY <1>1, <1>2, <1>3, <1>4 DEF HubNext

\* `established` stays within its bound because the set-up phase tests it
\* before each wait (line 407).
LEMMA EstablishedStep ==
  ASSUME HubIInv, EstablishedBound, [HubNext]_hubVars
  PROVE  EstablishedBound'
<1> USE MaxConnIsPositive DEF EstablishedBound, mainVars
<1>1. CASE HubRadio \/ HubStageCb
  BY <1>1 DEF HubRadio, Match, MatchCreate, MatchError, ConnectFailed,
              HubStageCb, StageCb
<1>2. ASSUME NEW d \in Device,
             ConnectedCb(d) \/ DisconnectedCb(d) \/ TurnNotify(d)
      PROVE  EstablishedBound'
  BY <1>2 DEF ConnectedCb, DisconnectedCb, TurnNotify
<1>3. CASE SetupScan \/ SetupTimeout \/ SetupConnected
  BY <1>3 DEF SetupScan, SetupTimeout, SetupConnected, BeginRoundRobin,
              LookUpLast
<1>4. CASE Ask \/ StageTaken \/ Subscribe
  BY <1>4 DEF Ask, StageTaken, Subscribe
<1>5. CASE AskFails \/ StageTimeout \/ SubscribeFails \/ Settle
  BY <1>5 DEF AskFails, StageTimeout, SubscribeFails, Settle, LinkDone,
              HubIInv, HubTypeOK
<1>6. CASE HubLoop
  BY <1>6 DEF HubLoop, GrantFails, SkipNotReady, Rescan, RescanTimeout,
              RescanConnected, LookUpLast, AtSlot
<1>7. CASE Grant \/ TurnDone \/ TurnTimeout
  BY <1>7 DEF Grant, TurnDone, TurnTimeout, TurnOver, AtSlot
<1>8. CASE UNCHANGED hubVars
  BY <1>8 DEF hubVars
<1> QED BY <1>1, <1>2, <1>3, <1>4, <1>5, <1>6, <1>7, <1>8
        DEF HubNext, HubMain, HubSetup

\* The hub's variables keep their types: its semaphores stay binary, the slot
\* and the stage in their ranges, the count of established links within
\* CONFIG_BT_MAX_CONN (lines 405-503).
THEOREM HubTypeCorrect == HubSpec => [](HubTypeOK /\ EstablishedBound)
<1>1. HubIInv /\ EstablishedBound /\ [HubNext]_hubVars
      => HubIInv' /\ EstablishedBound'
  BY HubNextInv, EstablishedStep
<1>2. HubInit => EstablishedBound
  BY MaxConnIsPositive DEF HubInit, EstablishedBound
<1>3. HubIInv => HubTypeOK
  BY DEF HubIInv
<1> QED BY <1>1, <1>2, <1>3, HubInitInv, PTL DEF HubSpec

-----------------------------------------------------------------------------
(* The radio.                                                               *)

\* Without late events a connection is under way only in a wait for it, and
\* its semaphore is given only there; outside the waits of the round-robin
\* phase, and of the set-up phase after a connection, the radio is off.
RadioInWaits ==
  ~LateEvents =>
    /\ hub \notin {"setup_top", "setup_wait", "rescan_wait"} => radio = "off"
    /\ hub = "setup_top" => radio \in {"off", "scan"}
    /\ sem_connected = 1 => /\ hub \in {"setup_wait", "rescan_wait"}
                            /\ radio = "off"

LEMMA RadioInitially == HubInit => RadioInWaits
BY DEF HubInit, RadioInWaits

LEMMA RadioStep ==
  ASSUME HubTypeOK, RadioInWaits, [HubNext]_hubVars
  PROVE  RadioInWaits'
<1> USE DEF RadioInWaits, LateEvents, callbackVars, setupVars, mainVars
<1>1. CASE HubRadio
  BY <1>1 DEF HubRadio, Match, MatchCreate, MatchError, ConnectFailed,
              LateEvents
<1>2. CASE HubStageCb
  BY <1>2 DEF HubStageCb, StageCb
<1>3. ASSUME NEW d \in Device, ConnectedCb(d) PROVE RadioInWaits'
  BY <1>3 DEF ConnectedCb, HubTypeOK, HubPc
<1>4. ASSUME NEW d \in Device, DisconnectedCb(d) \/ TurnNotify(d)
      PROVE  RadioInWaits'
  BY <1>4 DEF DisconnectedCb, TurnNotify
<1>5. CASE SetupScan
  BY <1>5 DEF SetupScan, ScanStarted, BeginRoundRobin, ScanStopped
<1>6. CASE SetupTimeout
  BY <1>6 DEF SetupTimeout, BeginRoundRobin, ScanStopped,
              NoConnectionUnderWay, HubTypeOK
<1>7. CASE SetupConnected
  BY <1>7 DEF SetupConnected, LookUpLast
<1>8. CASE Ask \/ StageTaken \/ Subscribe
  BY <1>8 DEF Ask, StageTaken, Subscribe
<1>9. CASE AskFails \/ StageTimeout \/ SubscribeFails \/ Settle
  BY <1>9 DEF AskFails, StageTimeout, SubscribeFails, Settle, LinkDone
<1>10. CASE GrantFails \/ SkipNotReady \/ Grant
  BY <1>10 DEF GrantFails, SkipNotReady, Grant, AtSlot
<1>11. CASE Rescan
  BY <1>11 DEF Rescan, ScanStarted, AtSlot
<1>12. CASE RescanTimeout
  BY <1>12 DEF RescanTimeout, ScanStopped, NoConnectionUnderWay, HubTypeOK
<1>13. CASE RescanConnected
  BY <1>13 DEF RescanConnected, ScanStopped, LookUpLast
<1>14. CASE TurnDone \/ TurnTimeout
  BY <1>14 DEF TurnDone, TurnTimeout, TurnOver
<1>15. CASE UNCHANGED hubVars
  BY <1>15 DEF hubVars
<1> QED BY <1>1, <1>2, <1>3, <1>4, <1>5, <1>6, <1>7, <1>8, <1>9, <1>10, <1>11,
           <1>12, <1>13, <1>14, <1>15
        DEF HubNext, HubMain, HubSetup, HubLoop

\* While a turn is granted the central neither scans nor connects (lines
\* 449-452).
THEOREM TurnHasRadio == HubSpec => []NoRadioInTurn
<1>1. /\ HubIInv /\ RadioInWaits /\ [HubNext]_hubVars
      => HubIInv' /\ RadioInWaits'
  BY HubNextInv, RadioStep DEF HubIInv
<1>2. RadioInWaits => NoRadioInTurn
  BY DEF RadioInWaits, NoRadioInTurn
<1> QED BY <1>1, <1>2, HubInitInv, RadioInitially, PTL DEF HubSpec

-----------------------------------------------------------------------------
(* The slots and the set-up of their links.                                 *)

InSetup == {"ask", "wait", "subscribe", "settle"}

\* What the link in hand has behind it, in the slot it was found in: lost
\* meanwhile, it cannot come back before the main thread waits again.
Behind ==
  /\ hub = "settle" => conns[cur_slot] = cur
  /\ hub \in {"ask", "wait"} /\ conns[cur_slot] = cur =>
       \A i \in Stage : i < stage => i \in done[cur]
  /\ hub \in {"subscribe", "settle"} /\ conns[cur_slot] = cur =>
       done[cur] = Stage

\* One request is out at a time, or its semaphore is given, for the stage the
\* main thread waits for.
OneAnswer ==
  /\ pending # {} => hub = "wait" /\ pending = {<<cur, stage>>}
  /\ \A i \in Stage :
       sem_stage[i] = 1 => /\ hub = "wait" /\ i = stage /\ pending = {}
                           /\ conns[cur_slot] = cur => i \in done[cur]

Links ==
  /\ \A r, s \in Slot : conns[r] = conns[s] /\ conns[r] # NoDevice => r = s
  /\ conn_count = Cardinality(Occupied)

StageInv ==
  ~LateEvents =>
    /\ Behind
    /\ OneAnswer
    /\ \A s \in Slot : link_ready[s] =>
         conns[s] # NoDevice /\ done[conns[s]] = Stage

HubInv == HubIInv /\ RadioInWaits /\ Links /\ StageInv

LEMMA SlotsFinite == IsFiniteSet(Occupied)
<1>1. IsFiniteSet(0 .. MaxConn - 1)
  BY MaxConnIsPositive, FS_Interval
<1> QED BY <1>1, FS_Subset DEF Occupied

LEMMA LinksInit == HubInit => Links /\ StageInv
<1> SUFFICES ASSUME HubInit PROVE Links /\ StageInv
  OBVIOUS
<1>1. Occupied = {}
  BY DEF HubInit, Occupied
<1>2. Links
  BY <1>1, FS_EmptySet DEF HubInit, Links
<1> QED BY <1>2 DEF HubInit, StageInv, Behind, OneAnswer

\* A new link takes one slot, which was free.
LEMMA ConnectedLinks ==
  ASSUME HubInv, NEW d \in Device, ConnectedCb(d)
  PROVE  Links' /\ StageInv'
<1>1. PICK s \in Slot : conns[s] = NoDevice /\ conns' = [conns EXCEPT ![s] = d]
  BY DEF ConnectedCb, TakeSlot
<1>2. /\ \A r \in Slot : conns'[r] = IF r = s THEN d ELSE conns[r]
      /\ d # NoDevice /\ \A r \in Slot : conns[r] # d
  BY <1>1, NoDeviceIsNone
     DEF ConnectedCb, Connected, HubInv, HubIInv, HubTypeOK
<1>3. Occupied' = Occupied \union {s} /\ s \notin Occupied
  BY <1>1, <1>2 DEF Occupied
<1>4. Cardinality(Occupied') = Cardinality(Occupied) + 1
  BY <1>3, SlotsFinite, FS_AddElement
<1>5. Links'
  BY <1>2, <1>4 DEF Links, HubInv, ConnectedCb
<1>6. /\ UNCHANGED <<link_ready, sem_stage, pending, done, hub, cur, cur_slot,
                     stage, faults>>
      /\ ~LateEvents => hub \in {"setup_wait", "rescan_wait"}
  BY DEF ConnectedCb, setupVars, mainVars, HubInv, HubIInv, HubTypeOK,
         RadioInWaits
<1>7. StageInv'
  BY <1>1, <1>2, <1>6
     DEF StageInv, Behind, OneAnswer, LateEvents, HubInv
<1> QED BY <1>5, <1>7

\* The end of a link frees its slot, and what it had set up is gone.
LEMMA DisconnectedLinks ==
  ASSUME HubInv, NEW d \in Device, DisconnectedCb(d)
  PROVE  Links' /\ StageInv'
<1>1. PICK s \in Slot :
        /\ conns[s] = d
        /\ conns' = [conns EXCEPT ![s] = NoDevice]
        /\ link_ready' = [link_ready EXCEPT ![s] = FALSE]
  BY DEF DisconnectedCb
<1>2. /\ \A r \in Slot : conns'[r] = IF r = s THEN NoDevice ELSE conns[r]
      /\ \A r \in Slot : r # s => conns[r] # d
      /\ \A r \in Slot : link_ready'[r] => r # s /\ link_ready[r]
      /\ d # NoDevice
  BY <1>1, NoDeviceIsNone DEF HubInv, HubIInv, HubTypeOK, Links
<1>3. Occupied' = Occupied \ {s} /\ s \in Occupied
  BY <1>1, <1>2 DEF Occupied
<1>4. Cardinality(Occupied') = Cardinality(Occupied) - 1
  BY <1>3, SlotsFinite, FS_RemoveElement
<1>5. Links'
  BY <1>2, <1>4 DEF Links, HubInv, DisconnectedCb
<1>6. /\ UNCHANGED <<sem_stage, hub, cur, cur_slot, stage, faults>>
      /\ pending' = {p \in pending : p[1] # d}
      /\ \A e \in Device : done'[e] = IF e = d THEN {} ELSE done[e]
      /\ ~LateEvents => ~(hub = "settle" /\ d = cur)
      /\ cur_slot \in Slot /\ cur \in Device \union {NoDevice}
  BY DEF DisconnectedCb, mainVars, HubInv, HubIInv, HubTypeOK
<1> USE DEF HubInv
<1>7. /\ hub \in InSetup => cur \in Device
      /\ conns'[cur_slot] = cur /\ cur \in Device =>
           conns[cur_slot] = cur /\ cur # d
  BY <1>2, <1>6, NoDeviceIsNone DEF HubIInv, LinkInHand, InSetup
<1>8. ~LateEvents => Behind'
  <2> SUFFICES ASSUME ~LateEvents PROVE Behind'
    OBVIOUS
  <2>1. Behind
    BY DEF StageInv
  <2>2. hub = "settle" => conns'[cur_slot] = cur
    BY <1>1, <1>2, <1>6, <2>1 DEF Behind
  <2> QED BY <1>6, <1>7, <2>1, <2>2 DEF Behind, InSetup
<1>9. ~LateEvents => OneAnswer'
  <2> SUFFICES ASSUME ~LateEvents PROVE OneAnswer'
    OBVIOUS
  <2>1. OneAnswer
    BY DEF StageInv
  <2>2. pending' # {} => hub = "wait" /\ pending' = {<<cur, stage>>}
    BY <1>6, <2>1 DEF OneAnswer
  <2>3. \A i \in Stage : sem_stage[i] = 1 => pending' = {}
    BY <1>6, <2>1 DEF OneAnswer
  <2> QED BY <1>6, <1>7, <2>1, <2>2, <2>3 DEF OneAnswer, InSetup
<1>10. ~LateEvents => \A r \in Slot : link_ready'[r] =>
         conns'[r] # NoDevice /\ done'[conns'[r]] = Stage
  BY <1>2, <1>6 DEF StageInv, HubIInv, HubTypeOK
<1> QED BY <1>5, <1>6, <1>8, <1>9, <1>10 DEF StageInv, LateEvents

\* An answer that is not late is the link's own.
LEMMA AnswerLinks ==
  ASSUME HubInv, HubStageCb
  PROVE  Links' /\ StageInv'
<1>1. PICK d \in Device, i \in Stage, ok \in BOOLEAN : StageCb(d, i, ok)
  BY DEF HubStageCb
<1>2. /\ UNCHANGED <<conns, link_ready, conn_count, hub, cur, cur_slot, stage,
                     faults>>
      /\ <<d, i>> \in pending /\ pending' = pending \ {<<d, i>>}
      /\ \A e \in Device : done'[e] = IF ok /\ e = d THEN done[e] \union {i}
                                      ELSE done[e]
      /\ \A j \in Stage : sem_stage'[j] = IF ok /\ j = i THEN 1
                                          ELSE sem_stage[j]
      /\ \A e \in Device : done[e] \subseteq Stage
  BY <1>1 DEF StageCb, GiveStage, callbackVars, mainVars, HubInv, HubIInv,
              HubTypeOK
<1>3. Links'
  BY <1>2 DEF Links, HubInv, Occupied
<1> USE DEF HubInv
<1>4. \A e \in Device : done[e] \subseteq done'[e] /\ done'[e] \subseteq Stage
  BY <1>2
<1>5. ~LateEvents => Behind' /\ OneAnswer'
  <2> SUFFICES ASSUME ~LateEvents PROVE Behind' /\ OneAnswer'
    OBVIOUS
  <2>1. /\ Behind /\ OneAnswer /\ hub = "wait"
        /\ pending = {<<cur, stage>>} /\ d = cur /\ i = stage
    BY <1>2 DEF StageInv, OneAnswer
  <2>2. Behind'
    BY <1>2, <1>4, <2>1 DEF Behind
  <2>3. pending' = {}
    BY <1>2, <2>1
  <2> QED BY <1>2, <2>1, <2>2, <2>3 DEF OneAnswer
<1>6. ~LateEvents => \A r \in Slot : link_ready'[r] =>
        conns'[r] # NoDevice /\ done'[conns'[r]] = Stage
  BY <1>2, <1>4 DEF StageInv, HubIInv, HubTypeOK
<1> QED BY <1>2, <1>3, <1>5, <1>6 DEF StageInv, LateEvents

\* Outside setup_link no request is out and no stage's semaphore is given.
LEMMA NoneIsOut ==
  ASSUME HubInv, ~LateEvents, hub # "wait"
  PROVE  pending = {} /\ \A i \in Stage : sem_stage[i] = 0
BY DEF HubInv, HubIInv, HubTypeOK, StageInv, OneAnswer

\* A step that leaves setup_link, or that is not in it.
LEMMA LeaveLinks ==
  ASSUME HubInv, hub' \notin InSetup,
         UNCHANGED <<conns, conn_count, link_ready, done, sem_stage, faults>>,
         ~LateEvents => pending' = {} /\ \A i \in Stage : sem_stage[i] = 0
  PROVE  Links' /\ StageInv'
<1>1. Links'
  BY DEF HubInv, Links, Occupied
<1> QED BY <1>1 DEF HubInv, StageInv, Behind, OneAnswer, LateEvents, InSetup

\* A step beside setup_link.
LEMMA BesideLinks ==
  ASSUME HubInv,
         UNCHANGED <<conns, conn_count, link_ready, done, sem_stage, pending,
                     faults, hub, cur, cur_slot, stage>>
  PROVE  Links' /\ StageInv'
BY DEF HubInv, Links, Occupied, StageInv, Behind, OneAnswer, LateEvents

\* last_connected is looked up: setup_link begins, or the wait was in vain.
LEMMA LookUpLinks ==
  ASSUME HubInv, SetupConnected \/ RescanConnected
  PROVE  Links' /\ StageInv'
<1>1. /\ UNCHANGED <<conns, conn_count, link_ready, done, sem_stage, pending,
                     faults>>
      /\ hub # "wait"
  BY DEF SetupConnected, RescanConnected, callbackVars, setupVars
<1>2. hub' \notin InSetup \/ (hub' = "ask" /\ stage' = 1)
  BY DEF SetupConnected, RescanConnected, LookUpLast, InSetup
<1>3. CASE hub' \notin InSetup
  BY <1>1, <1>3, NoneIsOut, LeaveLinks
<1>4. CASE hub' = "ask" /\ stage' = 1
  <2>1. Links'
    BY <1>1 DEF HubInv, Links, Occupied
  <2>2. ~LateEvents => Behind' /\ OneAnswer'
    BY <1>1, <1>4, NoneIsOut DEF Behind, OneAnswer
  <2> QED BY <1>1, <2>1, <2>2 DEF HubInv, StageInv, LateEvents
<1> QED BY <1>2, <1>3, <1>4

\* The stages, one after the other.
LEMMA AskLinks ==
  ASSUME HubInv, Ask \/ StageTaken \/ Subscribe
  PROVE  Links' /\ StageInv'
<1>1. UNCHANGED <<conns, conn_count, link_ready, done, cur, cur_slot, faults>>
  BY DEF Ask, StageTaken, Subscribe, callbackVars, setupVars, mainVars
<1>2. Links'
  BY <1>1 DEF HubInv, Links, Occupied
<1> USE DEF HubInv
<1>3. SUFFICES ASSUME ~LateEvents PROVE Behind' /\ OneAnswer'
  BY <1>1, <1>2 DEF StageInv, LateEvents
<1>4. Behind /\ OneAnswer
  BY <1>3 DEF StageInv
<1>5. CASE Ask
  <2>1. /\ hub = "ask" /\ hub' = "wait" /\ UNCHANGED <<stage, sem_stage>>
        /\ pending' = pending \union {<<cur, stage>>}
    BY <1>5 DEF Ask, mainVars
  <2>2. Behind'
    BY <1>1, <1>4, <2>1 DEF Behind
  <2>3. pending' = {<<cur, stage>>} /\ \A i \in Stage : sem_stage[i] = 0
    BY <1>3, <2>1, NoneIsOut
  <2> QED BY <1>1, <2>1, <2>2, <2>3 DEF OneAnswer
<1>6. CASE StageTaken
  <2>1. /\ hub = "wait" /\ sem_stage[stage] = 1 /\ stage \in Stage
        /\ \A i \in Stage : sem_stage'[i] = IF i = stage THEN 0
                                            ELSE sem_stage[i]
        /\ pending' = pending
        /\ \/ stage < NumStages /\ hub' = "ask" /\ stage' = stage + 1
           \/ stage = NumStages /\ hub' = "subscribe" /\ stage' = stage
    BY <1>6, NumStagesIsPositive DEF StageTaken, HubIInv, HubTypeOK
  <2>2. /\ pending' = {} /\ \A i \in Stage : sem_stage'[i] = 0
        /\ conns[cur_slot] = cur => stage \in done[cur]
    BY <1>4, <2>1 DEF OneAnswer, HubIInv, HubTypeOK
  <2>3. conns[cur_slot] = cur =>
          \A i \in Stage : i < stage + 1 => i \in done[cur]
    BY <1>4, <2>1, <2>2, NumStagesIsPositive DEF Behind
  <2>4. cur \in Device /\ done[cur] \subseteq Stage
    BY <2>1 DEF HubIInv, HubTypeOK, LinkInHand
  <2>5. Behind'
    <3>1. CASE hub' = "ask" /\ stage' = stage + 1
      BY <1>1, <2>3, <3>1 DEF Behind
    <3>2. CASE stage = NumStages /\ hub' = "subscribe"
      <4>1. \A i \in Stage : i < stage + 1
        BY <3>2, NumStagesIsPositive
      <4> QED BY <1>1, <2>3, <2>4, <3>2, <4>1 DEF Behind
    <3> QED BY <2>1, <3>1, <3>2
  <2> QED BY <2>2, <2>5 DEF OneAnswer
<1>7. CASE Subscribe
  <2>1. /\ hub = "subscribe" /\ hub' = "settle" /\ conns[cur_slot] = cur
        /\ UNCHANGED <<sem_stage, pending, stage>>
    BY <1>7 DEF Subscribe, setupVars, mainVars
  <2>2. pending' = {} /\ \A i \in Stage : sem_stage'[i] = 0
    BY <1>3, <2>1, NoneIsOut
  <2> QED BY <1>1, <1>4, <2>1, <2>2 DEF Behind, OneAnswer
<1> QED BY <1>5, <1>6, <1>7

\* The end of setup_link, well or not.
LEMMA DoneLinks ==
  ASSUME HubInv, AskFails \/ StageTimeout \/ SubscribeFails \/ Settle
  PROVE  Links' /\ StageInv'
<1>1. /\ UNCHANGED <<conns, conn_count, done, sem_stage, faults>>
      /\ hub' \notin InSetup
  BY DEF AskFails, StageTimeout, SubscribeFails, Settle, LinkDone, InSetup,
         callbackVars, setupVars
<1>2. ~LateEvents => pending' = {} /\ \A i \in Stage : sem_stage[i] = 0
  <2>1. CASE StageTimeout
    BY <2>1 DEF StageTimeout, HubInv, HubIInv, HubTypeOK, StageInv, OneAnswer
  <2>2. CASE AskFails \/ SubscribeFails \/ Settle
    BY <2>2, NoneIsOut DEF AskFails, SubscribeFails, Settle, setupVars
  <2> QED BY <2>1, <2>2
<1>3. CASE ~Settle
  <2>1. link_ready' = link_ready
    BY <1>3 DEF AskFails, StageTimeout, SubscribeFails, callbackVars
  <2> QED BY <1>1, <1>2, <2>1, LeaveLinks
<1>4. CASE Settle
  <2>1. /\ hub = "settle"
        /\ \A s \in Slot : link_ready'[s] => link_ready[s] \/ s = cur_slot
    BY <1>4 DEF Settle, HubInv, HubIInv, HubTypeOK
  <2>2. ~LateEvents => conns[cur_slot] # NoDevice
                       /\ done[conns[cur_slot]] = Stage
    BY <2>1, NoDeviceIsNone
       DEF HubInv, HubIInv, LinkInHand, StageInv, Behind
  <2>3. Links'
    BY <1>1 DEF HubInv, Links, Occupied
  <2> QED BY <1>1, <1>2, <2>1, <2>2, <2>3
          DEF HubInv, StageInv, Behind, OneAnswer, LateEvents, InSetup
<1> QED BY <1>3, <1>4

\* The rest of the main thread does not touch the links.
LEMMA WaitLinks ==
  ASSUME HubInv,
         \/ SetupScan \/ SetupTimeout \/ GrantFails \/ SkipNotReady \/ Rescan
         \/ RescanTimeout \/ Grant \/ TurnDone \/ TurnTimeout
  PROVE  Links' /\ StageInv'
<1> USE DEF callbackVars, setupVars, mainVars
<1>1. /\ UNCHANGED <<conns, conn_count, link_ready, done, sem_stage, pending,
                     faults>>
      /\ hub # "wait"
  BY DEF SetupScan, SetupTimeout, GrantFails, SkipNotReady, Rescan,
         RescanTimeout, Grant, TurnDone, TurnTimeout, TurnOver, AtSlot
<1>2. hub' \notin InSetup
  BY DEF SetupScan, SetupTimeout, GrantFails, SkipNotReady, Rescan,
         RescanTimeout, Grant, TurnDone, TurnTimeout, TurnOver, AtSlot,
         BeginRoundRobin, InSetup
<1> QED BY <1>1, <1>2, NoneIsOut, LeaveLinks

LEMMA HubInvNext ==
  ASSUME HubInv, [HubNext]_hubVars
  PROVE  HubInv'
<1>1. HubIInv' /\ RadioInWaits'
  BY HubNextInv, RadioStep DEF HubInv, HubIInv
<1> SUFFICES Links' /\ StageInv'
  BY <1>1 DEF HubInv
<1>2. CASE HubRadio \/ (\E d \in Device : TurnNotify(d)) \/ UNCHANGED hubVars
  <2>1. UNCHANGED <<conns, conn_count, link_ready, done, sem_stage, pending,
                    faults, hub, cur, cur_slot, stage>>
    BY <1>2 DEF HubRadio, Match, MatchCreate, MatchError, ConnectFailed,
                TurnNotify, hubVars, callbackVars, setupVars, mainVars
  <2> QED BY <2>1, BesideLinks
<1>3. CASE HubStageCb
  BY <1>3, AnswerLinks
<1>4. ASSUME NEW d \in Device, ConnectedCb(d) \/ DisconnectedCb(d)
      PROVE  Links' /\ StageInv'
  BY <1>4, ConnectedLinks, DisconnectedLinks
<1>5. CASE HubMain
  BY <1>5, LookUpLinks, AskLinks, DoneLinks, WaitLinks
     DEF HubMain, HubSetup, HubLoop
<1> QED BY <1>2, <1>3, <1>4, <1>5 DEF HubNext

LEMMA HubInvariance == HubSpec => []HubInv
<1>1. HubInit => HubInv
  BY HubInitInv, RadioInitially, LinksInit DEF HubInv
<1> QED BY <1>1, HubInvNext, PTL DEF HubSpec

\* The slot table is a set of links, and the LED's counter their number.
THEOREM SlotsAlwaysConsistent == HubSpec => []SlotsConsistent
<1>1. HubInv => SlotsConsistent
  BY DEF HubInv, Links, StageInv, SlotsConsistent
<1> QED BY <1>1, HubInvariance, PTL

\* A link marked ready has completed every stage, though the semaphores of
\* setup_link are shared by all links (line 60), if no answer is late.
THEOREM ReadyLinksAreSetUp == HubSpec => []ReadyIsSetUp
<1>1. HubInv => ReadyIsSetUp
  BY DEF HubInv, StageInv, ReadyIsSetUp
<1> QED BY <1>1, HubInvariance, PTL

-----------------------------------------------------------------------------
(* THE HUB OF EITHER FIRMWARE (FreeCentral): the invariant holds of the hub *)
(* that fills its table, assigns cadences and supervises, whose setup_link  *)
(* and callbacks are those of the turns; and cadences are distinct.         *)

\* Links are counted as established in the filling only.
FillBound ==
  /\ established <= MaxConn
  /\ ~supervising /\ ~round_robin /\ hub \notin {"setup_top", "assign"} =>
       established < MaxConn

\* A request that is out is the link's in hand; and with its last answer here
\* a link is not lost before it is marked, since this firmware does not
\* subscribe to it between.
MarkedInHand ==
  ~LateEvents /\ (pending # {} \/ AsMarked(cur)) => conns[cur_slot] = cur

\* A cadence is that of the slot in which its link is.
CadenceIsOfSlot ==
  \A d \in Device : cadence[d] # 0 =>
    \E s \in Slot : conns[s] = d /\ cadence[d] = CadenceOf(s)

HubsIInv ==
  /\ HubsTypeOK /\ HubInv /\ FillBound /\ CadenceIsOfSlot
  /\ hub_free => MarkedInHand /\ hub # "settle" /\ ~round_robin
  /\ ~hub_free => ~supervising /\ cadence = [d \in Device |-> 0]

LEMMA HubsInitInv == HubsInit => HubsIInv
<1> SUFFICES ASSUME HubsInit PROVE HubsIInv
  OBVIOUS
<1>1. HubInv
  BY HubInitInv, RadioInitially, LinksInit DEF HubsInit, HubInv
<1>2. HubsTypeOK
  BY <1>1 DEF HubsInit, HubsTypeOK, HubInv, HubIInv
<1>3. FillBound /\ CadenceIsOfSlot
  BY MaxConnIsPositive DEF HubsInit, HubInit, FillBound, CadenceIsOfSlot
<1>4. MarkedInHand /\ hub # "settle" /\ ~round_robin
  BY DEF HubsInit, HubInit, MarkedInHand, AsMarked
<1> QED BY <1>1, <1>2, <1>3, <1>4 DEF HubsInit, HubsIInv

\* The firmware with turns is ReflCentral, and has no cadences.
LEMMA TurnsStep ==
  ASSUME HubsIInv, ~hub_free, HubNext, UNCHANGED freeVars
  PROVE  HubsIInv'
<1>1. HubInv'
  BY HubInvNext DEF HubsIInv
<1>2. HubsTypeOK'
  BY <1>1 DEF HubsIInv, HubsTypeOK, HubInv, HubIInv, freeVars
<1>3. FillBound'
  BY EstablishedStep
     DEF HubsIInv, HubInv, FillBound, EstablishedBound, freeVars
<1> QED BY <1>1, <1>2, <1>3
        DEF HubsIInv, CadenceIsOfSlot, freeVars

\* What the firmwares share is a step of ReflCentral that establishes nothing.
LEMMA SharedHubStep ==
  ASSUME HubsIInv, hub_free, HubNext,
         UNCHANGED <<hub_free, supervising, established, round_robin>>,
         hub' # hub => hub \in InSetup \cup {"setup_wait"} /\ hub' # "settle",
         MarkedInHand', CadenceIsOfSlot', cadence' \in [Device -> Nat]
  PROVE  HubsIInv'
<1>1. HubInv'
  BY HubInvNext DEF HubsIInv
<1>2. HubsTypeOK'
  BY <1>1 DEF HubsIInv, HubsTypeOK, HubInv, HubIInv
<1>3. FillBound'
  BY DEF HubsIInv, FillBound, InSetup
<1> QED BY <1>1, <1>2, <1>3 DEF HubsIInv

LEMMA FreeRadioStep ==
  ASSUME HubsIInv, hub_free, FreeScan \/ FreeStageCb
  PROVE  HubsIInv'
<1> USE DEF callbackVars, setupVars, mainVars, freeVars
<1>1. /\ HubNext
      /\ UNCHANGED <<conns, hub, cur, cur_slot, established, round_robin,
                     faults, freeVars>>
      /\ \/ UNCHANGED <<pending, sem_stage>>
         \/ /\ pending # {}
            /\ UNCHANGED hub
  BY DEF FreeScan, FreeStageCb, HubNext, HubRadio, Match, MatchCreate,
         MatchError, ConnectFailed, HubStageCb, StageCb
<1>2. MarkedInHand'
  <2>1. CASE UNCHANGED <<pending, sem_stage>>
    BY <1>1, <2>1 DEF HubsIInv, MarkedInHand, AsMarked, LateEvents
  <2>2. CASE pending # {}
    BY <1>1, <2>2 DEF HubsIInv, MarkedInHand, LateEvents
  <2> QED BY <1>1, <2>1, <2>2
<1>3. CadenceIsOfSlot'
  BY <1>1 DEF HubsIInv, CadenceIsOfSlot
<1> QED BY <1>1, <1>2, <1>3, SharedHubStep DEF HubsIInv, HubsTypeOK

\* A link that comes takes a slot that is free, so that none loses its own.
LEMMA FreeConnectedStep ==
  ASSUME HubsIInv, hub_free, NEW d \in Device, FreeConnected(d)
  PROVE  HubsIInv'
<1>1. PICK s \in Slot : conns[s] = NoDevice /\ conns' = [conns EXCEPT ![s] = d]
  BY DEF FreeConnected, ConnectedCb, TakeSlot
<1>2. /\ \A r \in Slot : conns'[r] = IF r = s THEN d ELSE conns[r]
      /\ cur \in Device \union {NoDevice} /\ cur_slot \in Slot
      /\ \A r \in Slot : conns[r] # d
  BY <1>1 DEF FreeConnected, ConnectedCb, Connected, HubsIInv, HubInv, HubIInv,
              HubTypeOK
<1>3. /\ HubNext
      /\ UNCHANGED <<hub, cur, cur_slot, established, round_robin, pending,
                     sem_stage, faults, hub_free, supervising, cadence>>
  BY DEF FreeConnected, ConnectedCb, HubNext, setupVars, mainVars, freeVars
<1>4. hub \in InSetup => cur \in Device
  BY DEF InSetup, HubsIInv, HubInv, HubIInv, LinkInHand
<1>5. ~LateEvents /\ (pending # {} \/ AsMarked(cur)) => hub \in InSetup
  BY DEF AsMarked, InSetup, HubsIInv, HubInv, StageInv, OneAnswer
<1>6. MarkedInHand'
  <2>1. ~LateEvents /\ (pending # {} \/ AsMarked(cur)) => cur_slot # s
    BY <1>1, <1>4, <1>5, NoDeviceIsNone DEF HubsIInv, MarkedInHand
  <2> QED BY <1>2, <1>3, <2>1 DEF HubsIInv, MarkedInHand, AsMarked, LateEvents
<1>7. CadenceIsOfSlot'
  <2>1. \A e \in Device, r \in Slot : conns[r] = e => conns'[r] = e
    BY <1>1, <1>2, NoDeviceIsNone
  <2> QED BY <1>3, <2>1 DEF HubsIInv, CadenceIsOfSlot, CadenceOf
<1> QED BY <1>3, <1>6, <1>7, SharedHubStep DEF HubsIInv, HubsTypeOK

\* A link that is lost loses its cadence with its slot.
LEMMA FreeDisconnectedStep ==
  ASSUME HubsIInv, hub_free, NEW d \in Device, FreeDisconnected(d)
  PROVE  HubsIInv'
<1>1. PICK s \in Slot :
        conns[s] = d /\ conns' = [conns EXCEPT ![s] = NoDevice]
  BY DEF FreeDisconnected, DisconnectedCb
<1>2. /\ \A r \in Slot : conns'[r] = IF r = s THEN NoDevice ELSE conns[r]
      /\ cadence \in [Device -> Nat]
      /\ \A e \in Device : cadence'[e] = IF e = d THEN 0 ELSE cadence[e]
      /\ cadence' \in [Device -> Nat]
  BY <1>1 DEF FreeDisconnected, HubsIInv, HubsTypeOK, HubInv, HubIInv,
              HubTypeOK
<1>3. /\ HubNext
      /\ UNCHANGED <<hub, cur, cur_slot, established, round_robin, sem_stage,
                     faults, hub_free, supervising>>
      /\ pending' = {p \in pending : p[1] # d}
      /\ ~LateEvents => ~AsMarked(d)
  BY DEF FreeDisconnected, DisconnectedCb, HubNext, mainVars
<1>4. MarkedInHand'
  <2> SUFFICES ASSUME ~LateEvents, pending' # {} \/ AsMarked(cur)
               PROVE  conns'[cur_slot] = cur
    BY <1>3 DEF MarkedInHand, AsMarked, LateEvents
  <2>1. pending = {} \/ pending = {<<cur, stage>>}
    BY DEF HubsIInv, HubInv, StageInv, OneAnswer
  <2>2. d # cur
    BY <1>3, <2>1
  <2>3. conns[cur_slot] = cur
    BY <1>3 DEF HubsIInv, MarkedInHand
  <2> QED BY <1>1, <1>2, <2>2, <2>3 DEF HubsIInv, HubInv, HubIInv, HubTypeOK
<1>5. CadenceIsOfSlot'
  <2> SUFFICES ASSUME NEW e \in Device, cadence'[e] # 0
               PROVE  \E r \in Slot : conns'[r] = e /\ cadence'[e] = CadenceOf(r)
    BY DEF CadenceIsOfSlot, CadenceOf
  <2>1. e # d /\ cadence[e] = cadence'[e]
    BY <1>2
  <2>2. PICK r \in Slot : conns[r] = e /\ cadence[e] = CadenceOf(r)
    BY <2>1 DEF HubsIInv, CadenceIsOfSlot
  <2> QED BY <1>1, <1>2, <2>1, <2>2
<1> QED BY <1>2, <1>3, <1>4, <1>5, SharedHubStep

\* setup_link, from the connection to the last answer.
LEMMA FreeSetUpStep ==
  ASSUME HubsIInv, hub_free, FreeConnection \/ FreeSetUp
  PROVE  HubsIInv'
<1> USE DEF callbackVars, setupVars, mainVars, freeVars
<1>1. /\ HubNext
      /\ UNCHANGED <<conns, established, round_robin, faults, freeVars>>
      /\ hub \in InSetup \cup {"setup_wait"} /\ hub' # "settle"
  BY DEF FreeConnection, FreeSetUp, SetupConnected, LookUpLast, Ask, AskFails,
         StageTaken, StageTimeout, LinkDone, HubNext, HubMain, HubSetup,
         InSetup, HubsIInv
<1>2. CadenceIsOfSlot' /\ cadence' \in [Device -> Nat]
  BY <1>1 DEF HubsIInv, CadenceIsOfSlot, HubsTypeOK
<1>3. ASSUME ~LateEvents PROVE MarkedInHand'
  <2>1. CASE Ask
    BY <2>1 DEF Ask, MarkedInHand
  <2>2. CASE StageTaken
    <3>1. /\ hub = "wait" /\ sem_stage[stage] = 1
          /\ UNCHANGED <<pending, cur, cur_slot, conns>>
          /\ hub' = "ask" \/ (hub' = "subscribe" /\ ~(stage < NumStages))
      BY <2>2 DEF StageTaken
    <3>2. pending' = {} /\ stage \in Stage
      BY <1>3, <3>1 DEF HubsIInv, HubInv, HubIInv, HubTypeOK, StageInv,
                        OneAnswer
    <3>3. hub' = "subscribe" => AsMarked(cur)
      BY <3>1, <3>2, NumStagesIsPositive DEF AsMarked
    <3> QED BY <1>3, <3>1, <3>2, <3>3
            DEF HubsIInv, MarkedInHand, AsMarked
  <2>3. CASE FreeConnection \/ AskFails \/ StageTimeout
    <3>1. hub' \notin {"wait", "subscribe"}
      BY <2>3 DEF FreeConnection, SetupConnected, LookUpLast, AskFails,
                  StageTimeout, LinkDone
    <3>2. pending' = {}
      <4>1. CASE StageTimeout
        BY <1>3, <4>1 DEF StageTimeout, HubsIInv, HubInv, StageInv, OneAnswer
      <4>2. CASE FreeConnection \/ AskFails
        BY <1>3, <4>2, NoneIsOut
           DEF FreeConnection, SetupConnected, AskFails, HubsIInv
      <4> QED BY <2>3, <4>1, <4>2
    <3> QED BY <3>1, <3>2 DEF MarkedInHand, AsMarked
  <2> QED BY <2>1, <2>2, <2>3 DEF FreeSetUp
<1>4. MarkedInHand'
  BY <1>1, <1>3 DEF MarkedInHand, LateEvents
<1> QED BY <1>1, <1>2, <1>4, SharedHubStep

\* A cadence is written to the link of a slot that is its own.
LEMMA CadenceWritten ==
  ASSUME HubsIInv, NEW s \in Slot, NEW ready, AssignCadence(s, ready),
         UNCHANGED conns
  PROVE  CadenceIsOfSlot' /\ cadence' \in [Device -> Nat]
<1>1. cadence \in [Device -> Nat] /\ CadenceOf(s) \in Nat
  BY MaxConnIsPositive DEF HubsIInv, HubsTypeOK, CadenceOf
<1>2. CASE cadence' = cadence
  BY <1>1, <1>2 DEF HubsIInv, CadenceIsOfSlot
<1>3. CASE /\ conns[s] # NoDevice
           /\ cadence' = [cadence EXCEPT ![conns[s]] = CadenceOf(s)]
  <2>1. \A d \in Device :
          cadence'[d] = IF d = conns[s] THEN CadenceOf(s) ELSE cadence[d]
    BY <1>1, <1>3
  <2> QED BY <1>1, <1>3, <2>1 DEF HubsIInv, CadenceIsOfSlot
<1> QED BY <1>2, <1>3 DEF AssignCadence

\* The steps of this firmware only leave setup_link or are beside it.
LEMMA OutsideLinks ==
  ASSUME HubsIInv, hub_free,
         FillScan \/ FillTimeout \/ Assign \/ Supervise \/ SuperviseTimeout
  PROVE  HubInv'
<1> USE DEF callbackVars, setupVars
<1>1. /\ UNCHANGED <<callbackVars, setupVars, sem_connected, sem_turn_done,
                     round_robin, established, cur, cur_slot, stage, faults>>
      /\ hub \in {"setup_top", "setup_wait", "assign"}
      /\ hub' \in {"setup_top", "setup_wait", "assign"}
  BY DEF FillScan, FillTimeout, Assign, Supervise, SuperviseTimeout, MainFrame,
         BeginAssigning
<1>2. HubInv /\ LateEvents' = LateEvents
  BY <1>1 DEF HubsIInv, LateEvents
<1>3. slot' \in Slot /\ radio' \in {"off", "scan", "match", "create"}
  BY <1>2, SlotFacts
     DEF FillScan, FillTimeout, Assign, Supervise, SuperviseTimeout,
         BeginAssigning, ScanStarted, ScanStopped, Advance, HubInv, HubIInv,
         HubTypeOK
<1>4. HubIInv'
  BY <1>1, <1>2, <1>3 DEF HubInv, HubIInv, HubTypeOK, LinkInHand, HubPc
<1>5. RadioInWaits'
  <2> SUFFICES ASSUME ~LateEvents PROVE RadioInWaits'
    BY <1>2 DEF RadioInWaits
  <2>1. hub \in {"setup_top", "assign"} => sem_connected = 0
    BY <1>2 DEF HubInv, HubIInv, HubTypeOK, RadioInWaits
  <2>2. CASE FillScan \/ Supervise
    BY <1>2, <2>1, <2>2
       DEF FillScan, Supervise, ScanStarted, ScanStopped, BeginAssigning,
           RadioInWaits, HubInv
  <2>3. CASE FillTimeout \/ SuperviseTimeout
    BY <1>2, <1>3, <2>3
       DEF FillTimeout, SuperviseTimeout, ScanStopped, BeginAssigning,
           NoConnectionUnderWay, RadioInWaits, HubInv, HubIInv, HubTypeOK
  <2>4. CASE Assign
    BY <1>2, <2>1, <2>4 DEF Assign, RadioInWaits, HubInv
  <2> QED BY <2>2, <2>3, <2>4
<1>6. Links' /\ StageInv'
  <2>1. ~LateEvents => pending = {} /\ \A i \in Stage : sem_stage[i] = 0
    BY <1>1, <1>2, NoneIsOut
  <2> QED BY <1>1, <1>2, <2>1, LeaveLinks DEF InSetup
<1> QED BY <1>4, <1>5, <1>6 DEF HubInv

LEMMA OutsideStep ==
  ASSUME HubsIInv, hub_free,
         FillScan \/ FillTimeout \/ Assign \/ Supervise \/ SuperviseTimeout
  PROVE  HubsIInv'
<1>1. HubInv'
  BY OutsideLinks
<1>2. /\ UNCHANGED <<conns, pending, faults, hub_free, established, round_robin>>
      /\ hub \in {"setup_top", "setup_wait", "assign"}
      /\ hub' \in {"setup_top", "setup_wait", "assign"}
      /\ supervising' \in BOOLEAN
  BY DEF FillScan, FillTimeout, Assign, Supervise, SuperviseTimeout, MainFrame,
         BeginAssigning, callbackVars, setupVars, HubsIInv, HubsTypeOK
<1>3. CadenceIsOfSlot' /\ cadence' \in [Device -> Nat]
  <2>1. CASE Assign
    BY <1>2, <2>1, CadenceWritten
       DEF Assign, HubsIInv, HubInv, HubIInv, HubTypeOK
  <2>2. CASE FillScan \/ FillTimeout \/ Supervise \/ SuperviseTimeout
    BY <1>2, <2>2
       DEF FillScan, FillTimeout, Supervise, SuperviseTimeout, HubsIInv,
           HubsTypeOK, CadenceIsOfSlot
  <2> QED BY <2>1, <2>2
<1>4. FillBound'
  <2>1. CASE FillScan \/ FillTimeout
    BY <1>2, <2>1
       DEF FillScan, FillTimeout, BeginAssigning, HubsIInv, FillBound
  <2>2. CASE Assign \/ Supervise \/ SuperviseTimeout
    BY <1>2, <2>2
       DEF Assign, Supervise, SuperviseTimeout, HubsIInv, FillBound
  <2> QED BY <2>1, <2>2
<1>5. MarkedInHand'
  <2>1. ~LateEvents => pending = {}
    BY <1>2, NoneIsOut DEF HubsIInv
  <2> QED BY <1>2, <2>1 DEF MarkedInHand, AsMarked, LateEvents
<1> QED BY <1>1, <1>2, <1>3, <1>4, <1>5 DEF HubsIInv, HubsTypeOK, HubInv, HubIInv

\* mark_link_ready, on a link that has answered for every stage.
LEMMA MarkReadyStep ==
  ASSUME HubsIInv, hub_free, MarkReady
  PROVE  HubsIInv'
<1> USE DEF setupVars
<1>1. /\ hub = "subscribe" /\ hub' = "setup_top"
      /\ link_ready' = [link_ready EXCEPT ![cur_slot] = TRUE]
      /\ cur' = NoDevice /\ cur_slot' = 0 /\ stage' = 1
      /\ UNCHANGED <<conns, last_connected, conn_count, sem_connected,
                     sem_stage, pending, done, sem_turn_done, radio,
                     round_robin, slot, faults, hub_free, supervising>>
      /\ \/ supervising /\ UNCHANGED established
         \/ ~supervising /\ established' = established + 1
      /\ UNCHANGED cadence \/ AssignCadence(cur_slot, TRUE)
  BY DEF MarkReady, NoLink
<1>2. HubInv /\ LateEvents' = LateEvents
  BY <1>1 DEF HubsIInv, LateEvents
<1>3. HubIInv'
  <2>1. HubTypeOK
    BY <1>2 DEF HubInv, HubIInv
  <2>2. established \in Nat /\ established' \in Nat
    BY <1>1, <2>1 DEF HubTypeOK
  <2>3. cur_slot' \in Slot /\ stage' \in Stage
    BY <1>1, SlotFacts
  <2>4. link_ready' \in [Slot -> BOOLEAN]
    BY <1>1, <2>1 DEF HubTypeOK
  <2>5. HubTypeOK'
    BY <1>1, <2>1, <2>2, <2>3, <2>4 DEF HubTypeOK, HubPc
  <2> QED BY <1>1, <1>2, <2>5 DEF HubInv, HubIInv, LinkInHand
<1>4. RadioInWaits'
  BY <1>1, <1>2 DEF HubInv, HubIInv, HubTypeOK, RadioInWaits
<1>5. Links'
  BY <1>1, <1>2 DEF HubInv, Links, Occupied
<1>6. ~LateEvents => pending = {} /\ \A i \in Stage : sem_stage[i] = 0
  BY <1>1, <1>2, NoneIsOut
<1>7. StageInv'
  <2> SUFFICES ASSUME ~LateEvents PROVE StageInv'
    BY <1>2 DEF StageInv
  <2>1. conns[cur_slot] = cur /\ cur \in Device /\ cur # NoDevice
    BY <1>1, <1>2, NoDeviceIsNone
       DEF HubsIInv, MarkedInHand, AsMarked, HubInv, HubIInv, LinkInHand
  <2>2. done[cur] = Stage
    BY <1>1, <1>2, <2>1 DEF HubInv, StageInv, Behind
  <2>3. \A s \in Slot : link_ready'[s] =>
          conns'[s] # NoDevice /\ done'[conns'[s]] = Stage
    BY <1>1, <1>2, <2>1, <2>2 DEF HubInv, HubIInv, HubTypeOK, StageInv
  <2> QED BY <1>1, <1>6, <2>3 DEF StageInv, Behind, OneAnswer
<1>8. CadenceIsOfSlot' /\ cadence' \in [Device -> Nat]
  <2>1. CASE UNCHANGED cadence
    BY <1>1, <2>1 DEF HubsIInv, HubsTypeOK, CadenceIsOfSlot
  <2>2. CASE AssignCadence(cur_slot, TRUE)
    BY <1>1, <1>2, <2>2, CadenceWritten DEF HubInv, HubIInv, HubTypeOK
  <2> QED BY <1>1, <2>1, <2>2
<1>9. FillBound'
  BY <1>1, <1>2, MaxConnIsPositive
     DEF HubsIInv, FillBound, HubInv, HubIInv, HubTypeOK
<1>10. MarkedInHand'
  BY <1>1, <1>6 DEF MarkedInHand, AsMarked, LateEvents
<1> QED BY <1>1, <1>3, <1>4, <1>5, <1>7, <1>8, <1>9, <1>10
        DEF HubsIInv, HubsTypeOK, HubInv, HubIInv

LEMMA HubsInductive == HubsSpec => []HubsIInv
<1>1. HubsIInv /\ [HubsNext]_hubsVars => HubsIInv'
  <2> SUFFICES ASSUME HubsIInv, [HubsNext]_hubsVars PROVE HubsIInv'
    OBVIOUS
  <2>1. CASE ~hub_free /\ HubNext /\ UNCHANGED freeVars
    BY <2>1, TurnsStep
  <2>2. CASE hub_free /\ (FreeScan \/ FreeStageCb)
    BY <2>2, FreeRadioStep
  <2>3. ASSUME hub_free, NEW d \in Device,
               FreeConnected(d) \/ FreeDisconnected(d)
        PROVE  HubsIInv'
    BY <2>3, FreeConnectedStep, FreeDisconnectedStep
  <2>4. CASE hub_free /\ FreeMain
    BY <2>4, FreeSetUpStep, OutsideStep, MarkReadyStep DEF FreeMain
  <2>5. CASE UNCHANGED hubsVars
    <3>1. UNCHANGED hubVars /\ UNCHANGED freeVars
      BY <2>5 DEF hubsVars
    <3>2. HubInv'
      BY <3>1, HubInvNext DEF HubsIInv
    <3> QED BY <3>1, <3>2
            DEF HubsIInv, HubsTypeOK, HubInv, HubIInv, FillBound,
                CadenceIsOfSlot, MarkedInHand, AsMarked, LateEvents, hubVars,
                freeVars, callbackVars, setupVars, mainVars
  <2> QED BY <2>1, <2>2, <2>3, <2>4, <2>5 DEF HubsNext, FreeNext
<1> QED BY <1>1, HubsInitInv, PTL DEF HubsSpec

\* The variables of both firmwares keep their types, and no more links are
\* counted as established than there are slots, whichever the hub runs.
THEOREM HubsTypeCorrect == HubsSpec => [](HubsTypeOK /\ established <= MaxConn)
<1>1. HubsIInv => HubsTypeOK /\ established <= MaxConn
  BY DEF HubsIInv, FillBound
<1> QED BY <1>1, HubsInductive, PTL

\* The slot table is a set of links under either firmware (connected_cb and
\* disconnected_cb of both programs).
THEOREM SlotsConsistentInBoth == HubsSpec => []SlotsConsistent
<1>1. HubsIInv => SlotsConsistent
  BY DEF HubsIInv, HubInv, Links, StageInv, SlotsConsistent
<1> QED BY <1>1, HubsInductive, PTL

\* mark_link_ready marks only links that have completed every stage, while the
\* table is filled and when a link comes back later.
THEOREM ReadyLinksAreSetUpInBoth == HubsSpec => []ReadyIsSetUp
<1>1. HubsIInv => ReadyIsSetUp
  BY DEF HubsIInv, HubInv, StageInv, ReadyIsSetUp
<1> QED BY <1>1, HubsInductive, PTL

\* The radio has nothing else to do in a turn (lines 449-452).
THEOREM TurnHasRadioInBoth == HubsSpec => []NoRadioInTurn
<1>1. HubsIInv => NoRadioInTurn
  BY DEF HubsIInv, HubInv, RadioInWaits, NoRadioInTurn
<1> QED BY <1>1, HubsInductive, PTL

\* assign_cadence gives each link a procedure interval of its own, however
\* links are lost, come back into other slots and are assigned again, and
\* whatever writes fail.
THEOREM CadencesAreDistinct == HubsSpec => []CadencesDistinct
<1>1. HubsIInv => CadencesDistinct
  <2> SUFFICES ASSUME HubsIInv, NEW d \in Device, NEW e \in Device,
                      cadence[d] = cadence[e], cadence[d] # 0
               PROVE  d = e
    BY DEF CadencesDistinct
  <2>1. PICK r \in Slot : conns[r] = d /\ cadence[d] = CadenceOf(r)
    BY DEF HubsIInv, CadenceIsOfSlot
  <2>2. PICK s \in Slot : conns[s] = e /\ cadence[e] = CadenceOf(s)
    BY DEF HubsIInv, CadenceIsOfSlot
  <2>3. 3 + r = 3 + s
    BY <2>1, <2>2 DEF CadenceOf
  <2>4. r \in Int /\ s \in Int
    BY MaxConnIsPositive
  <2>5. r = s
    BY <2>3, <2>4
  <2> QED BY <2>1, <2>2, <2>5
<1> QED BY <1>1, HubsInductive, PTL

-----------------------------------------------------------------------------
(* THE PERIPHERALS (InitPeripheral, FreePeripheral), for any burst length:  *)
(* the types, the exclusive use of the tone buffer and, where the faults of *)
(* the behaviour allow it, the discipline of the turn; and what of it holds *)
(* of the peripherals of free_running.                                      *)

\* The count stays below the burst while the burst is on (line 310).
Counting(d) == turn_active[d] => turn_proc_count[d] < Burst

\* The tone buffer is one token: free, being filled, handed over or read.
ToneToken(d) ==
  /\ sem_estimate[d] = 1 =>
       sem_parsed[d] = 0 /\ main[d] # "estimate" /\ cs[d] # "seen"
  /\ sem_parsed[d] = 1 => main[d] # "estimate" /\ cs[d] # "seen"
  /\ main[d] = "estimate" => cs[d] # "seen"

\* A burst's completion is signalled during the burst and nowhere else.
BurstToken(d) ==
  /\ sem_burst_complete[d] = 1 => turn[d] = "burst" /\ ~turn_active[d]
  /\ turn_active[d] => turn[d] \in {"burst", "late"}

PerIInv ==
  /\ PerTypeOK
  /\ \A d \in Device : Counting(d) /\ ToneToken(d)
  /\ CsOnlyInTurn
  /\ ~Preempted => \A d \in Device : BurstToken(d)

\* The same for one device, which is all that a step of its own can change.
DeviceIInv(d) ==
  /\ Counting(d) /\ ToneToken(d)
  /\ ~HciErrors => (cs[d] # "off" => turn[d] # "idle")
  /\ ~Preempted => BurstToken(d)

\* A step of the peripheral d, whichever part of the module takes it.
PerStep(d) ==
  \/ ConnectedPer(d) \/ LinkLostPer(d) \/ DisconnectedPer(d)
  \/ TurnWrite(d)
  \/ TurnThread(d)
  \/ RxMayRun(d) /\ (Procedures(d) \/ RxResume(d))
  \/ Settings(d) \/ Estimate(d)

LEMMA IInvByDevice ==
  PerIInv <=> PerTypeOK /\ \A d \in Device : DeviceIInv(d)
BY DEF PerIInv, DeviceIInv, CsOnlyInTurn

LEMMA PerInitInv == PerInit => PerIInv
BY BurstIsPositive
   DEF PerInit, PerIInv, PerTypeOK, Sem, Counting, ToneToken, BurstToken,
       CsOnlyInTurn

\* The other devices do not notice.
LEMMA OthersUntouched ==
  ASSUME PerTypeOK, NEW d \in Device, PerStep(d), NEW e \in Device, e # d
  PROVE  /\ turn_active'[e] = turn_active[e]
         /\ turn_proc_count'[e] = turn_proc_count[e]
         /\ sem_estimate'[e] = sem_estimate[e]
         /\ sem_parsed'[e] = sem_parsed[e]
         /\ sem_burst_complete'[e] = sem_burst_complete[e]
         /\ sem_turn_go'[e] = sem_turn_go[e]
         /\ turn'[e] = turn[e]
         /\ cs'[e] = cs[e]
         /\ main'[e] = main[e]
         /\ faults' = faults
<1> USE DEF PerTypeOK, Sem, linkVars, goVars, burstVars, iqVars
<1>1. CASE ConnectedPer(d) \/ LinkLostPer(d) \/ DisconnectedPer(d) \/ TurnWrite(d)
  BY <1>1 DEF ConnectedPer, LinkLostPer, DisconnectedPer, TurnWrite
<1>2. CASE TurnThread(d)
  <2>1. CASE TurnStart(d) \/ TurnEnableFails(d) \/ TurnNoConnection(d)
    BY <2>1 DEF TurnStart, TurnEnableFails, TurnNoConnection, GoTaken
  <2>2. CASE BurstTaken(d) \/ BurstTimesOut(d)
    BY <2>2 DEF BurstTaken, BurstTimesOut
  <2>3. CASE YieldAny(d)
    <3>1. PICK disabled \in BOOLEAN, notified \in BOOLEAN :
                 Yield(d, disabled, notified)
      BY <2>3 DEF YieldAny
    <3> QED BY <3>1 DEF Yield, ClearActive, Disable
  <2> QED BY <1>2, <2>1, <2>2, <2>3 DEF TurnThread
<1>3. CASE Procedures(d)
  BY <1>3 DEF Procedures, Subevent, SubeventBlocks, SubeventAborted, Parsed,
              Completed, BurstFull
<1>4. CASE RxResume(d)
  BY <1>4 DEF RxResume, Parsed, Completed, BurstFull
<1>5. CASE Settings(d) \/ Estimate(d)
  BY <1>5 DEF Settings, SettingsSet, SettingsFail, Estimate, EstimateBegins,
              EstimateEnds
<1> QED BY <1>1, <1>2, <1>3, <1>4, <1>5 DEF PerStep

-----------------------------------------------------------------------------
(* What each part does to the types and to its own device.                  *)

LEMMA LinkStep ==
  ASSUME PerIInv, NEW d \in Device,
         \/ ConnectedPer(d) \/ LinkLostPer(d) \/ DisconnectedPer(d)
         \/ TurnWrite(d)
  PROVE  PerTypeOK' /\ DeviceIInv(d)'
<1> USE BurstIsPositive
        DEF PerIInv, PerTypeOK, Sem, linkVars, goVars, burstVars, iqVars,
            DeviceIInv, Counting, ToneToken, BurstToken, CsOnlyInTurn,
            Preempted, HciErrors
<1>1. CASE ConnectedPer(d)
  BY <1>1 DEF ConnectedPer
<1>2. CASE LinkLostPer(d)
  BY <1>2 DEF LinkLostPer
<1>3. CASE DisconnectedPer(d)
  BY <1>3 DEF DisconnectedPer
<1>4. CASE TurnWrite(d)
  BY <1>4 DEF TurnWrite
<1> QED BY <1>1, <1>2, <1>3, <1>4

LEMMA TurnStep ==
  ASSUME PerIInv, NEW d \in Device, TurnThread(d)
  PROVE  PerTypeOK' /\ DeviceIInv(d)'
<1> USE BurstIsPositive
        DEF PerIInv, PerTypeOK, Sem, linkVars, goVars, burstVars, iqVars,
            DeviceIInv, Counting, ToneToken, BurstToken, CsOnlyInTurn,
            Preempted, HciErrors
<1>1. CASE TurnStart(d)
  BY <1>1 DEF TurnStart, GoTaken
<1>2. CASE TurnEnableFails(d)
  BY <1>2 DEF TurnEnableFails, GoTaken
<1>3. CASE TurnNoConnection(d)
  BY <1>3 DEF TurnNoConnection, GoTaken
<1>4. CASE BurstTaken(d)
  BY <1>4 DEF BurstTaken
<1>5. CASE BurstTimesOut(d)
  BY <1>5 DEF BurstTimesOut
<1>6. ASSUME NEW disabled \in BOOLEAN, NEW notified \in BOOLEAN,
             Yield(d, disabled, notified)
      PROVE  PerTypeOK' /\ DeviceIInv(d)'
  BY <1>6 DEF Yield, ClearActive, Disable
<1> QED BY <1>1, <1>2, <1>3, <1>4, <1>5, <1>6 DEF TurnThread, YieldAny

\* Parsing the results of a subevent that holds the tone buffer.
LEMMA ParsedStep ==
  ASSUME PerIInv, NEW d \in Device, NEW kind \in {"partial", "complete"},
         RxMayRun(d), Parsed(d, kind),
         sem_estimate' = [sem_estimate EXCEPT ![d] = 0],
         sem_parsed[d] = 0, main[d] # "estimate",
         UNCHANGED <<linkVars, goVars, turn, main, faults>>,
         rx' \in [Device -> {"ready", "partial", "complete"}]
  PROVE  PerTypeOK' /\ DeviceIInv(d)'
<1> USE BurstIsPositive
        DEF PerIInv, PerTypeOK, Sem, linkVars, goVars, burstVars, iqVars,
            DeviceIInv, Counting, ToneToken, BurstToken, CsOnlyInTurn,
            Preempted, HciErrors
<1>1. CASE kind = "partial"
  <2>1. UNCHANGED <<sem_parsed, sem_burst_complete, turn_active, turn_proc_count>>
    BY <1>1 DEF Parsed
  <2>2. /\ cs' \in [Device -> {"off", "fresh", "seen"}]
        /\ cs'[d] # "off" <=> cs[d] # "off"
    BY <1>1 DEF Parsed
  <2>3. PerTypeOK'
    BY <2>1, <2>2
  <2>4. Counting(d)' /\ ToneToken(d)'
    BY <2>1, <2>2
  <2>5. ~HciErrors => (cs'[d] # "off" => turn'[d] # "idle")
    BY <2>2
  <2>6. ~Preempted => BurstToken(d)'
    BY <2>1
  <2> QED BY <2>3, <2>4, <2>5, <2>6
<1>2. CASE kind = "complete"
  <2>1. /\ sem_parsed' = [sem_parsed EXCEPT ![d] = 1]
        /\ cs' \in [Device -> {"off", "fresh", "seen"}]
        /\ cs'[d] # "seen"
        /\ cs'[d] # "off" <=> cs[d] # "off"
    BY <1>2 DEF Parsed, Completed, BurstFull
  <2>2. CASE ~turn_active[d]
    <3>1. /\ turn_active' = turn_active
          /\ turn_proc_count' = turn_proc_count
          /\ sem_burst_complete' = sem_burst_complete
      BY <1>2, <2>2 DEF Parsed, Completed, BurstFull
    <3> QED BY <2>1, <2>2, <3>1
  <2>3. CASE turn_active[d] /\ turn_proc_count[d] + 1 < Burst
    <3>1. /\ turn_active' = turn_active
          /\ turn_proc_count' =
               [turn_proc_count EXCEPT ![d] = turn_proc_count[d] + 1]
          /\ sem_burst_complete' = sem_burst_complete
      BY <1>2, <2>3 DEF Parsed, Completed, BurstFull
    <3> QED BY <2>1, <2>3, <3>1
  <2>4. CASE turn_active[d] /\ turn_proc_count[d] + 1 >= Burst
    <3>1. /\ turn_active' = [turn_active EXCEPT ![d] = FALSE]
          /\ turn_proc_count' =
               [turn_proc_count EXCEPT ![d] = turn_proc_count[d] + 1]
          /\ sem_burst_complete' = [sem_burst_complete EXCEPT ![d] = 1]
      BY <1>2, <2>4 DEF Parsed, Completed, BurstFull
    <3>2. PerTypeOK'
      BY <2>1, <2>4, <3>1
    <3>3. Counting(d)' /\ ToneToken(d)'
      BY <2>1, <3>1
    <3>4. ~HciErrors => (cs'[d] # "off" => turn'[d] # "idle")
      BY <2>1
    <3>5. ~Preempted => BurstToken(d)'
      BY <2>4, <3>1 DEF RxMayRun
    <3>6. DeviceIInv(d)'
      BY <3>3, <3>4, <3>5
    <3> QED BY <3>2, <3>6
  <2>5. turn_proc_count[d] + 1 < Burst \/ turn_proc_count[d] + 1 >= Burst
    OBVIOUS
  <2> QED BY <2>2, <2>3, <2>4, <2>5
<1> QED BY <1>1, <1>2

LEMMA ProceduresStep ==
  ASSUME PerIInv, NEW d \in Device, RxMayRun(d), Procedures(d) \/ RxResume(d)
  PROVE  PerTypeOK' /\ DeviceIInv(d)'
<1>1. ASSUME NEW kind \in {"partial", "complete"}, Subevent(d, kind)
      PROVE  PerTypeOK' /\ DeviceIInv(d)'
  <2>1. /\ sem_estimate' = [sem_estimate EXCEPT ![d] = 0]
        /\ sem_parsed[d] = 0 /\ main[d] # "estimate"
    BY <1>1 DEF Subevent, PerIInv, PerTypeOK, Sem, ToneToken
  <2>2. /\ Parsed(d, kind)
        /\ UNCHANGED <<linkVars, goVars, turn, main, faults>>
    BY <1>1 DEF Subevent
  <2>3. rx' \in [Device -> {"ready", "partial", "complete"}]
    BY <1>1 DEF Subevent, PerIInv, PerTypeOK
  <2> QED BY <2>1, <2>2, <2>3, ParsedStep
<1>2. ASSUME NEW kind \in {"partial", "complete"}, SubeventBlocks(d, kind)
      PROVE  PerTypeOK' /\ DeviceIInv(d)'
  BY <1>2 DEF SubeventBlocks, PerIInv, PerTypeOK, Sem, linkVars, goVars,
              burstVars, iqVars, DeviceIInv, Counting, ToneToken, BurstToken,
              CsOnlyInTurn, Preempted, HciErrors
<1>3. CASE SubeventAborted(d)
  BY <1>3 DEF SubeventAborted, PerIInv, PerTypeOK, Sem, linkVars, goVars,
              burstVars, iqVars, DeviceIInv, Counting, ToneToken, BurstToken,
              CsOnlyInTurn, Preempted, HciErrors
<1>4. CASE RxResume(d)
  <2>1. /\ sem_estimate' = [sem_estimate EXCEPT ![d] = 0]
        /\ sem_parsed[d] = 0 /\ main[d] # "estimate"
        /\ rx[d] \in {"partial", "complete"}
        /\ rx' \in [Device -> {"ready", "partial", "complete"}]
    BY <1>4 DEF RxResume, PerIInv, PerTypeOK, Sem, ToneToken
  <2> QED BY <1>4, <2>1, ParsedStep DEF RxResume
<1> QED BY <1>1, <1>2, <1>3, <1>4 DEF Procedures

LEMMA MainStep ==
  ASSUME PerIInv, NEW d \in Device, Settings(d) \/ Estimate(d)
  PROVE  PerTypeOK' /\ DeviceIInv(d)'
<1> USE DEF PerIInv, PerTypeOK, Sem, linkVars, goVars, burstVars, iqVars,
            DeviceIInv, Counting, ToneToken, BurstToken, CsOnlyInTurn,
            Preempted, HciErrors
<1>1. CASE Settings(d)
  BY <1>1 DEF Settings, SettingsSet, SettingsFail
<1>2. CASE Estimate(d)
  BY <1>2 DEF Estimate, EstimateBegins, EstimateEnds
<1> QED BY <1>1, <1>2

LEMMA PerStepInv ==
  ASSUME PerIInv, NEW d \in Device, PerStep(d)
  PROVE  PerIInv'
<1>1. PerTypeOK' /\ DeviceIInv(d)'
  BY LinkStep, TurnStep, ProceduresStep, MainStep DEF PerStep
<1>2. ASSUME NEW e \in Device, e # d PROVE DeviceIInv(e)'
  BY <1>2, OthersUntouched
     DEF PerIInv, DeviceIInv, Counting, ToneToken, BurstToken, CsOnlyInTurn,
         Preempted, HciErrors
<1> QED BY <1>1, <1>2, IInvByDevice
        DEF PerIInv, DeviceIInv, CsOnlyInTurn

LEMMA PerStutter == PerIInv /\ UNCHANGED perVars => PerIInv'
BY DEF PerIInv, PerTypeOK, Counting, ToneToken, BurstToken, CsOnlyInTurn,
       Preempted, HciErrors, perVars, linkVars, goVars, burstVars, iqVars

LEMMA PerInductive == PerSpec => []PerIInv
<1>1. PerIInv /\ [PerNext]_perVars => PerIInv'
  BY PerStepInv, PerStutter DEF PerNext, PerStep
<1> QED BY PerInitInv, <1>1, PTL DEF PerSpec

-----------------------------------------------------------------------------
\* Every variable of a peripheral keeps its type; the count of a turn stays
\* within CS_TURN_BURST (lines 310-313).
THEOREM PerTypeCorrect == PerSpec => []PerTypeOK
<1>1. PerIInv => PerTypeOK
  BY DEF PerIInv
<1> QED BY PerInductive, <1>1, PTL

\* The RX thread never writes the tones of a procedure while the main thread
\* computes from them, whatever is aborted, refused or preempted.
THEOREM ToneBufferIsExclusive == PerSpec => []ToneBufferExclusive
<1>1. PerIInv => ToneBufferExclusive
  BY DEF PerIInv, PerTypeOK, Sem, ToneToken, ToneBufferExclusive
<1> QED BY PerInductive, <1>1, PTL

\* If the controller accepts every disable, procedures are enabled only in a
\* turn, even one that times out or loses its link.
THEOREM RangesOnlyInTurn == PerSpec => []CsOnlyInTurn
<1>1. PerIInv => CsOnlyInTurn
  BY DEF PerIInv
<1> QED BY PerInductive, <1>1, PTL

\* If the turn thread goes on as soon as its wait ends, a burst is never
\* ended by the completion of an earlier one.
THEOREM BurstEndsByItself == PerSpec => []BurstCompleteIsOwn
<1>1. PerIInv => BurstCompleteIsOwn
  BY DEF PerIInv, BurstToken, BurstCompleteIsOwn
<1> QED BY PerInductive, <1>1, PTL

-----------------------------------------------------------------------------
(* Either firmware.  Without turns nothing but the tone buffer is shared.   *)

\* The firmware of free_running has no turn thread: nothing begins a burst.
NoTurns(d) == turn[d] = "idle" /\ ~turn_active[d] /\ sem_burst_complete[d] = 0

FreeInv == \A d \in Device : ToneToken(d) /\ NoTurns(d)

PersIInv ==
  /\ PersTypeOK
  /\ free => FreeInv
  /\ ~free => PerIInv

LEMMA PersInitInv == PersInit => PersIInv
<1> SUFFICES ASSUME PersInit PROVE PersIInv
  OBVIOUS
<1>1. PerIInv
  BY PerInitInv DEF PersInit
<1>2. PersTypeOK
  BY <1>1, EmptySeq DEF PersInit, PersTypeOK, PerIInv, MaxReports
<1>3. FreeInv
  BY DEF PersInit, PerInit, FreeInv, ToneToken, NoTurns
<1> QED BY <1>1, <1>2, <1>3 DEF PersIInv

\* What a step has to keep of the reports, at one device.
LEMMA ReportsKept ==
  ASSUME PersTypeOK, NEW d \in Device,
         \/ reports' = reports
         \/ reports' = [reports EXCEPT ![d] = <<>>]
         \/ reports[d] # <<>> /\ reports' = [reports EXCEPT ![d] = Tail(@)]
         \/ /\ Len(reports[d]) < MaxReports
            /\ \E r \in {0, 1} : reports' = [reports EXCEPT ![d] = Append(@, r)]
  PROVE  /\ reports' \in [Device -> Seq({0, 1})]
         /\ \A e \in Device : Len(reports'[e]) <= MaxReports
<1> USE DEF MaxReports
<1>1. /\ reports \in [Device -> Seq({0, 1})]
      /\ \A e \in Device : Len(reports[e]) \in Nat /\ Len(reports[e]) <= MaxReports
  BY LenProperties DEF PersTypeOK
<1>2. CASE reports' = reports
  BY <1>1, <1>2
<1>3. ASSUME NEW s \in Seq({0, 1}), Len(s) \in Nat, Len(s) <= MaxReports,
             reports' = [reports EXCEPT ![d] = s]
      PROVE  /\ reports' \in [Device -> Seq({0, 1})]
             /\ \A e \in Device : Len(reports'[e]) <= MaxReports
  <2>1. \A e \in Device : reports'[e] = IF e = d THEN s ELSE reports[e]
    BY <1>1, <1>3
  <2>2. reports' \in [Device -> Seq({0, 1})]
    BY <1>1, <1>3
  <2> QED BY <1>1, <1>3, <2>1, <2>2
<1>4. CASE reports' = [reports EXCEPT ![d] = <<>>]
  <2>1. PICK none \in Seq({0, 1}) : none = <<>> /\ Len(none) = 0
    BY EmptySeq
  <2>2. Len(none) \in Nat /\ Len(none) <= MaxReports
    BY <2>1
  <2>3. reports' = [reports EXCEPT ![d] = none]
    BY <1>4, <2>1
  <2> QED BY <1>3, <2>2, <2>3
<1>5. CASE reports[d] # <<>> /\ reports' = [reports EXCEPT ![d] = Tail(@)]
  <2>1. /\ Tail(reports[d]) \in Seq({0, 1})
        /\ Len(Tail(reports[d])) = Len(reports[d]) - 1
    BY <1>1, <1>5, HeadTailProperties
  <2>2. Len(Tail(reports[d])) \in Nat /\ Len(Tail(reports[d])) <= MaxReports
    BY <1>1, <2>1, LenProperties
  <2> QED BY <1>3, <1>5, <2>1, <2>2
<1>6. ASSUME NEW r \in {0, 1}, Len(reports[d]) < MaxReports,
             reports' = [reports EXCEPT ![d] = Append(@, r)]
      PROVE  /\ reports' \in [Device -> Seq({0, 1})]
             /\ \A e \in Device : Len(reports'[e]) <= MaxReports
  <2>1. /\ Append(reports[d], r) \in Seq({0, 1})
        /\ Len(Append(reports[d], r)) = Len(reports[d]) + 1
    BY <1>1, AppendProperties
  <2>2. /\ Len(Append(reports[d], r)) \in Nat
        /\ Len(Append(reports[d], r)) <= MaxReports
    BY <1>1, <1>6, <2>1
  <2> QED BY <1>3, <1>6, <2>1, <2>2
<1> QED BY <1>2, <1>4, <1>5, <1>6

\* A step of the module InitPeripheral that the other firmware takes as well.
LEMMA SharedStep ==
  ASSUME PerTypeOK, FreeInv, NEW d \in Device,
         \/ ConnectedPer(d) \/ LinkLostPer(d) \/ DisconnectedPer(d)
         \/ Procedures(d) \/ RxResume(d) \/ Settings(d) \/ Estimate(d)
  PROVE  PerTypeOK' /\ FreeInv'
<1> USE DEF PerTypeOK, Sem, FreeInv, ToneToken, NoTurns, linkVars, goVars,
            burstVars, iqVars
<1>1. CASE ConnectedPer(d)
  BY <1>1 DEF ConnectedPer
<1>2. CASE LinkLostPer(d)
  BY <1>2 DEF LinkLostPer
<1>3. CASE DisconnectedPer(d)
  BY <1>3 DEF DisconnectedPer
<1>4. ASSUME NEW kind \in {"partial", "complete"}, Parsed(d, kind),
             sem_estimate' = [sem_estimate EXCEPT ![d] = 0],
             sem_parsed[d] = 0, main[d] # "estimate",
             UNCHANGED <<linkVars, goVars, turn, main, faults>>,
             rx' \in [Device -> {"ready", "partial", "complete"}]
      PROVE  PerTypeOK' /\ FreeInv'
  <2>1. UNCHANGED burstVars
    BY <1>4 DEF Parsed, Completed
  <2>2. CASE kind = "partial"
    <3>1. /\ sem_parsed' = sem_parsed
          /\ cs' \in [Device -> {"off", "fresh", "seen"}]
          /\ \A e \in Device : e # d => cs'[e] = cs[e]
      BY <1>4, <2>2 DEF Parsed
    <3>2. PerTypeOK'
      BY <1>4, <2>1, <3>1
    <3>3. FreeInv'
      BY <1>4, <2>1, <3>1
    <3> QED BY <3>2, <3>3
  <2>3. CASE kind = "complete"
    <3>1. /\ sem_parsed' = [sem_parsed EXCEPT ![d] = 1]
          /\ cs' \in [Device -> {"off", "fresh", "seen"}]
          /\ cs'[d] # "seen"
          /\ \A e \in Device : e # d => cs'[e] = cs[e]
      BY <1>4, <2>3 DEF Parsed, Completed
    <3> QED BY <1>4, <2>1, <3>1
  <2> QED BY <1>4, <2>2, <2>3
<1>5. ASSUME NEW kind \in {"partial", "complete"}, Subevent(d, kind)
      PROVE  PerTypeOK' /\ FreeInv'
  <2>1. /\ sem_estimate' = [sem_estimate EXCEPT ![d] = 0]
        /\ sem_parsed[d] = 0 /\ main[d] # "estimate"
    BY <1>5 DEF Subevent
  <2> QED BY <1>4, <1>5, <2>1 DEF Subevent
<1>6. ASSUME NEW kind \in {"partial", "complete"}, SubeventBlocks(d, kind)
      PROVE  PerTypeOK' /\ FreeInv'
  BY <1>6 DEF SubeventBlocks
<1>7. CASE SubeventAborted(d)
  BY <1>7 DEF SubeventAborted
<1>8. CASE RxResume(d)
  <2>1. /\ sem_estimate' = [sem_estimate EXCEPT ![d] = 0]
        /\ sem_parsed[d] = 0 /\ main[d] # "estimate"
        /\ rx[d] \in {"partial", "complete"}
        /\ rx' \in [Device -> {"ready", "partial", "complete"}]
    BY <1>8 DEF RxResume
  <2> QED BY <1>4, <1>8, <2>1 DEF RxResume
<1>9. CASE Settings(d)
  BY <1>9 DEF Settings, SettingsSet, SettingsFail
<1>10. CASE Estimate(d)
  BY <1>10 DEF Estimate, EstimateBegins, EstimateEnds
<1> QED BY <1>1, <1>2, <1>3, <1>5, <1>6, <1>7, <1>8, <1>9, <1>10 DEF Procedures

\* A step that leaves the peripheral's own state alone but for the procedures,
\* which it switches on or off and never puts inside one.
LEMMA SwitchStep ==
  ASSUME PerTypeOK, FreeInv, NEW d \in Device,
         \/ cs' = cs \/ cs' = [cs EXCEPT ![d] = "off"]
         \/ cs' = [cs EXCEPT ![d] = "fresh"],
         UNCHANGED <<linkVars, goVars, burstVars, iqVars, turn, rx, main, faults>>
  PROVE  PerTypeOK' /\ FreeInv'
BY DEF PerTypeOK, Sem, FreeInv, ToneToken, NoTurns, linkVars,
       goVars, burstVars, iqVars

-----------------------------------------------------------------------------
(* The steps of that firmware.                                              *)

LEMMA FreeLinkStep ==
  ASSUME PersTypeOK, FreeInv, NEW d \in Device,
         \/ FreeConnectedPer(d) \/ FreeLinkLost(d) \/ FreeDisconnectedPer(d)
         \/ FreeSubevent(d) \/ FreeResume(d) \/ FreeMainPer(d)
  PROVE  PersTypeOK' /\ FreeInv' /\ free' = free
<1> USE DEF ownVars, cadenceVars, watchVars, reportVars
<1>1. PerTypeOK' /\ FreeInv'
  BY SharedStep
     DEF PersTypeOK, FreeConnectedPer, FreeLinkLost, FreeDisconnectedPer,
         FreeSubevent, FreeResume, FreeMainPer, Procedures
<1>2. CASE FreeLinkLost(d)
  <2>1. /\ reports' \in [Device -> Seq({0, 1})]
        /\ \A e \in Device : Len(reports'[e]) <= MaxReports
    BY <1>2, ReportsKept DEF FreeLinkLost
  <2> QED BY <1>1, <1>2, <2>1 DEF FreeLinkLost, PersTypeOK
<1>3. ASSUME UNCHANGED ownVars
      PROVE  PersTypeOK' /\ FreeInv' /\ free' = free
  BY <1>1, <1>3 DEF PersTypeOK
<1>4. ASSUME NEW kind, Fed(d, kind)
      PROVE  PersTypeOK' /\ FreeInv' /\ free' = free
  BY <1>1, <1>4 DEF PersTypeOK, Fed
<1> QED BY <1>2, <1>3, <1>4 DEF FreeConnectedPer, FreeDisconnectedPer,
             FreeSubevent, FreeResume, FreeMainPer

LEMMA FreeReportStep ==
  ASSUME PersTypeOK, FreeInv, NEW d \in Device,
         Secured(d) \/ CadenceWrite(d) \/ ReportRead(d) \/ Starves(d)
  PROVE  PersTypeOK' /\ FreeInv' /\ free' = free
<1> USE DEF cadenceVars, watchVars, reportVars
<1>1. PerTypeOK' /\ FreeInv'
  BY SwitchStep
     DEF PersTypeOK, Secured, CadenceWrite, ReportRead, Starves, perVars
<1>2. CASE Secured(d)
  BY <1>1, <1>2 DEF Secured, PersTypeOK
<1>3. CASE CadenceWrite(d)
  BY <1>1, <1>3 DEF CadenceWrite, PersTypeOK
<1>4. CASE ReportRead(d)
  <2>1. /\ reports' \in [Device -> Seq({0, 1})]
        /\ \A e \in Device : Len(reports'[e]) <= MaxReports
    BY <1>4, ReportsKept DEF ReportRead
  <2>2. /\ cs_running' \in [Device -> BOOLEAN]
        /\ sem_proc_disabled' \in [Device -> BOOLEAN]
        /\ starving' \in [Device -> BOOLEAN]
    BY <1>4 DEF ReportRead, PersTypeOK
  <2> QED BY <1>1, <1>4, <2>1, <2>2 DEF ReportRead, PersTypeOK
<1>5. CASE Starves(d)
  BY <1>1, <1>5 DEF Starves, PersTypeOK
<1> QED BY <1>2, <1>3, <1>4, <1>5

\* An enable, by the cadence thread or by the watchdog.
LEMMA EnableStep ==
  ASSUME PersTypeOK, NEW d \in Device, Enables(d) \/ EnableRefused(d)
  PROVE  /\ cs' = cs \/ cs' = [cs EXCEPT ![d] = "fresh"]
         /\ config' \in [Device -> {"none", "secured", "params", "enabled"}]
         /\ reports' \in [Device -> Seq({0, 1})]
         /\ \A e \in Device : Len(reports'[e]) <= MaxReports
<1>1. CASE Enables(d)
  <2>1. /\ reports' \in [Device -> Seq({0, 1})]
        /\ \A e \in Device : Len(reports'[e]) <= MaxReports
    BY <1>1, ReportsKept DEF Enables
  <2> QED BY <1>1, <2>1 DEF Enables, PersTypeOK
<1>2. CASE EnableRefused(d)
  BY <1>2 DEF EnableRefused, PersTypeOK
<1> QED BY <1>1, <1>2

LEMMA CadenceStep ==
  ASSUME PersTypeOK, FreeInv, NEW d \in Device, CadenceThread(d)
  PROVE  PersTypeOK' /\ FreeInv' /\ free' = free
<1> USE DEF cadenceVars, watchVars, reportVars
<1>1. CASE CadenceTaken(d) \/ CadenceParams(d)
  <2>1. PerTypeOK' /\ FreeInv'
    BY <1>1, SwitchStep
       DEF PersTypeOK, CadenceTaken, CadenceParams, perVars
  <2> QED BY <1>1, <2>1 DEF CadenceTaken, CadenceParams, PersTypeOK
<1>2. CASE CadenceEnable(d)
  <2>1. /\ cs' = cs \/ cs' = [cs EXCEPT ![d] = "fresh"]
        /\ config' \in [Device -> {"none", "secured", "params", "enabled"}]
        /\ reports' \in [Device -> Seq({0, 1})]
        /\ \A e \in Device : Len(reports'[e]) <= MaxReports
    BY <1>2, EnableStep DEF CadenceEnable
  <2>2. PerTypeOK' /\ FreeInv'
    BY <1>2, <2>1, SwitchStep DEF PersTypeOK, CadenceEnable, RestOfPer
  <2> QED BY <1>2, <2>1, <2>2 DEF CadenceEnable, RestOfPer, PersTypeOK
<1> QED BY <1>1, <1>2 DEF CadenceThread

LEMMA WatchdogStep ==
  ASSUME PersTypeOK, FreeInv, NEW d \in Device, Watchdog(d)
  PROVE  PersTypeOK' /\ FreeInv' /\ free' = free
<1> USE DEF cadenceVars, watchVars, reportVars
<1>1. CASE WatchdogDisables(d)
  <2>1. /\ reports' \in [Device -> Seq({0, 1})]
        /\ \A e \in Device : Len(reports'[e]) <= MaxReports
    BY <1>1, ReportsKept DEF WatchdogDisables
  <2>2. PerTypeOK' /\ FreeInv'
    BY <1>1, SwitchStep DEF PersTypeOK, WatchdogDisables, RestOfPer
  <2>3. /\ watchdog' \in [Device -> {"sleep", "wait", "enable"}]
        /\ sem_proc_disabled' \in [Device -> BOOLEAN]
    BY <1>1 DEF WatchdogDisables, PersTypeOK
  <2> QED BY <1>1, <2>1, <2>2, <2>3 DEF WatchdogDisables, RestOfPer, PersTypeOK
<1>2. CASE WatchdogWaits(d) \/ WatchdogTimesOut(d)
  <2>1. PerTypeOK' /\ FreeInv'
    BY <1>2, SwitchStep DEF PersTypeOK, WatchdogWaits, WatchdogTimesOut, perVars
  <2> QED BY <1>2, <2>1 DEF WatchdogWaits, WatchdogTimesOut, PersTypeOK
<1>3. CASE WatchdogEnables(d)
  <2>1. /\ cs' = cs \/ cs' = [cs EXCEPT ![d] = "fresh"]
        /\ config' \in [Device -> {"none", "secured", "params", "enabled"}]
        /\ reports' \in [Device -> Seq({0, 1})]
        /\ \A e \in Device : Len(reports'[e]) <= MaxReports
    BY <1>3, EnableStep DEF WatchdogEnables, EnablesAgain
  <2>2. PerTypeOK' /\ FreeInv'
    BY <1>3, <2>1, SwitchStep DEF PersTypeOK, WatchdogEnables, RestOfPer
  <2> QED BY <1>3, <2>1, <2>2 DEF WatchdogEnables, RestOfPer, PersTypeOK
<1> QED BY <1>1, <1>2, <1>3 DEF Watchdog

LEMMA PersInductive == PersSpec => []PersIInv
<1>1. ASSUME PersIInv, free, FreePerNext PROVE PersIInv'
  <2>1. PersTypeOK /\ FreeInv
    BY <1>1 DEF PersIInv
  <2>2. PersTypeOK' /\ FreeInv' /\ free' = free
    BY <1>1, <2>1, FreeLinkStep, FreeReportStep, CadenceStep, WatchdogStep
       DEF FreePerNext
  <2> QED BY <1>1, <2>2 DEF PersIInv
<1>2. ASSUME PersIInv, ~free, PerNext, UNCHANGED ownVars PROVE PersIInv'
  <2>1. PerIInv'
    BY <1>2, PerStepInv DEF PersIInv, PerNext, PerStep
  <2> QED BY <1>2, <2>1 DEF PersIInv, PersTypeOK, PerIInv, ownVars,
               cadenceVars, watchVars, reportVars
<1>3. ASSUME PersIInv, UNCHANGED persVars PROVE PersIInv'
  <2>1. ~free => PerIInv'
    BY <1>3, PerStutter DEF PersIInv, persVars
  <2> QED BY <1>3, <2>1
          DEF PersIInv, PersTypeOK, PerTypeOK, FreeInv, ToneToken, NoTurns,
              persVars, perVars, linkVars, goVars, burstVars, iqVars, ownVars,
              cadenceVars, watchVars, reportVars
<1>4. PersIInv /\ [PersNext]_persVars => PersIInv'
  BY <1>1, <1>2, <1>3 DEF PersNext
<1> QED BY PersInitInv, <1>4, PTL DEF PersSpec

-----------------------------------------------------------------------------
\* Every variable of a peripheral of either firmware keeps its type, the
\* cadence thread's and the watchdog's among them.
THEOREM PersTypeCorrect == PersSpec => []PersTypeOK
<1>1. PersIInv => PersTypeOK
  BY DEF PersIInv
<1> QED BY PersInductive, <1>1, PTL

\* Under either firmware, and whatever the watchdog disables in the middle of
\* a procedure, RX never writes the tones that the main thread reads.
THEOREM ToneBufferIsExclusiveInBoth == PersSpec => []ToneBufferExclusive
<1>1. PersIInv => ToneBufferExclusive
  BY DEF PersIInv, PersTypeOK, PerIInv, FreeInv, PerTypeOK, Sem, ToneToken,
         ToneBufferExclusive
<1> QED BY PersInductive, <1>1, PTL

\* A peripheral that has turns has procedures enabled only in one, if the
\* controller accepts every disable.
THEOREM RangesInTurns == PersSpec => []CsInTurns
<1>1. PersIInv => CsInTurns
  BY DEF PersIInv, PerIInv, CsInTurns
<1> QED BY PersInductive, <1>1, PTL

\* A completion that waits for the turn thread is that of its own burst; a
\* firmware without turns never signals one.
THEOREM BurstEndsByItselfInBoth == PersSpec => []BurstCompleteIsOwn
<1>1. PersIInv => BurstCompleteIsOwn
  BY DEF PersIInv, PerIInv, FreeInv, NoTurns, BurstToken, BurstCompleteIsOwn
<1> QED BY PersInductive, <1>1, PTL
=============================================================================
