------------------------------ MODULE ReflCentral ------------------------------
(***************************************************************************)
(* The BLE central of ipt_swap (src/ipt_swap/refl_central/src/main.c): the *)
(* main thread, which sets links up one at a time and then grants turns in *)
(* round-robin order, the callbacks of the Bluetooth host (the RX thread), *)
(* and as much of the scan module and the controller as they depend on.    *)
(*                                                                         *)
(* A connection object is the peripheral at its other end.  `done` is the  *)
(* controller's truth about the set-up of each link: no variable of the    *)
(* program holds it, the program infers it from its semaphores.            *)
(***************************************************************************)
EXTENDS IptLinks, Integers, FiniteSets

CONSTANTS MaxConn,     \* CONFIG_BT_MAX_CONN, 3 in refl_central/prj.conf
          NumStages    \* waits in setup_link: security, caps, config, CS security

ASSUME MaxConnIsPositive == MaxConn \in Nat \ {0}
ASSUME NumStagesIsPositive == NumStages \in Nat \ {0}

VARIABLES
  conns, link_ready, last_connected, conn_count,   \* lines 66-72
  sem_connected, sem_stage, sem_turn_done,         \* lines 59-64 and 81
  radio,         \* what the central's radio does beside its connections
  pending,       \* set-up requests the controller has not answered
  done,          \* done[d]: set-up stages complete on the link to d
  hub,           \* where the main thread is
  round_robin,   \* has it left the set-up phase?
  established,   \* line 405
  slot,          \* line 454: the round-robin position
  cur, cur_slot, \* the link being set up or holding the turn, and its slot
  stage          \* the stage of setup_link it is in

callbackVars == <<conns, link_ready, last_connected, conn_count>>
setupVars == <<sem_stage, pending, done>>
mainVars == <<round_robin, established, slot, cur, cur_slot, stage>>
hubVars == <<callbackVars, sem_connected, setupVars, sem_turn_done, radio, hub,
             mainVars, faults>>

Slot == 0 .. MaxConn - 1
Stage == 1 .. NumStages
Occupied == {s \in Slot : conns[s] # NoDevice}
Connected(d) == \E s \in Slot : conns[s] = d

\* Where the main thread may be; "assign" is free_running's (FreeCentral).
HubPc == {"setup_top", "setup_wait", "ask", "wait", "subscribe", "settle",
          "loop", "await", "rescan_wait", "assign"}

HubTypeOK ==
  /\ conns \in [Slot -> Device \union {NoDevice}]
  /\ link_ready \in [Slot -> BOOLEAN]
  /\ last_connected \in Device \union {NoDevice}
  /\ conn_count \in Int
  /\ sem_connected \in {0, 1}
  /\ sem_stage \in [Stage -> {0, 1}]
  /\ sem_turn_done \in {0, 1}
  /\ radio \in {"off", "scan", "match", "create"}
  /\ pending \subseteq Device \X Stage
  /\ done \in [Device -> SUBSET Stage]
  /\ hub \in HubPc
  /\ round_robin \in BOOLEAN
  /\ established \in Nat
  /\ slot \in Slot
  /\ cur \in Device \union {NoDevice}
  /\ cur_slot \in Slot
  /\ stage \in Stage
  /\ faults \subseteq Faults

HubInit ==
  /\ conns = [s \in Slot |-> NoDevice]
  /\ link_ready = [s \in Slot |-> FALSE]
  /\ last_connected = NoDevice
  /\ conn_count = 0
  /\ sem_connected = 0
  /\ sem_stage = [i \in Stage |-> 0]
  /\ sem_turn_done = 0
  /\ radio = "off"
  /\ pending = {}
  /\ done = [d \in Device |-> {}]
  /\ hub = "setup_top"
  /\ round_robin = FALSE
  /\ established = 0
  /\ slot = 0
  /\ cur = NoDevice
  /\ cur_slot = 0
  /\ stage = 1
  /\ faults \in SUBSET Faults

-----------------------------------------------------------------------------
(* The scan module and the callbacks, which run in the Bluetooth RX thread. *)

\* connect_if_match (line 263): the scan module found an initiator, has
\* stopped scanning and is about to create a connection.  It is late when the
\* main thread is no longer waiting for one.
Match == /\ radio = "scan"
         /\ LateEvents \/ hub \in {"setup_wait", "rescan_wait"}
         /\ radio' = "match"
         /\ UNCHANGED <<callbackVars, sem_connected, setupVars, sem_turn_done,
                        hub, mainVars, faults>>

\* The connection is being created.  The pool has MaxConn objects.
MatchCreate == /\ radio = "match"
               /\ Cardinality(Occupied) < MaxConn
               /\ radio' = "create"
               /\ UNCHANGED <<callbackVars, sem_connected, setupVars,
                              sem_turn_done, hub, mainVars, faults>>

\* scan_connecting_error restarts the scan, whatever the main thread is doing.
MatchError == /\ radio = "match"
              /\ radio' = "scan"
              /\ UNCHANGED <<callbackVars, sem_connected, setupVars,
                             sem_turn_done, hub, mainVars, faults>>

\* Lines 105-110 with the break forgotten.
TakeEverySlot(d) ==
  conns' = [s \in Slot |-> IF conns[s] = NoDevice THEN d ELSE conns[s]]

\* Lines 105-110: the first free slot.
TakeSlot(d) ==
  \E s \in Slot : /\ conns[s] = NoDevice
                  /\ \A r \in Slot : r < s => conns[r] # NoDevice
                  /\ conns' = [conns EXCEPT ![s] = d]

\* connected_cb without an error.
ConnectedCb(d) ==
  /\ radio = "create"
  /\ ~Connected(d)
  /\ radio' = "off"
  /\ TakeSlot(d)
  /\ last_connected' = d
  /\ conn_count' = conn_count + 1
  /\ sem_connected' = 1
  /\ UNCHANGED <<link_ready, setupVars, sem_turn_done, hub, mainVars, faults>>

\* connected_cb with an error changes nothing; the attempt is over.
ConnectFailed ==
  /\ radio = "create"
  /\ radio' = "off"
  /\ UNCHANGED <<callbackVars, sem_connected, setupVars, sem_turn_done, hub,
                 mainVars, faults>>

\* disconnected_cb: the slot is freed and what the link had set up is gone.
DisconnectedCb(d) ==
  /\ \E s \in Slot :
       /\ conns[s] = d
       /\ conns' = [conns EXCEPT ![s] = NoDevice]
       /\ link_ready' = [link_ready EXCEPT ![s] = FALSE]
  /\ conn_count' = conn_count - 1
  /\ pending' = {p \in pending : p[1] # d}
  /\ done' = [done EXCEPT ![d] = {}]
  /\ LateEvents \/ ~(hub = "settle" /\ d = cur)
  /\ UNCHANGED <<last_connected, sem_connected, sem_stage, sem_turn_done, radio,
                 hub, mainVars, faults>>

\* The semaphore of a stage given whatever the status.
GiveStageAlways(i, ok) == sem_stage' = [sem_stage EXCEPT ![i] = 1]

\* Only a successful stage gives its semaphore.
GiveStage(i, ok) ==
  sem_stage' = IF ok THEN [sem_stage EXCEPT ![i] = 1] ELSE sem_stage

\* security_changed, remote_capabilities_cb, config_create_cb and
\* security_enable_cb do not look at which link they are called for.
StageCb(d, i, ok) ==
  /\ <<d, i>> \in pending
  /\ pending' = pending \ {<<d, i>>}
  /\ GiveStage(i, ok)
  /\ done' = IF ok THEN [done EXCEPT ![d] = @ \union {i}] ELSE done
  /\ UNCHANGED <<callbackVars, sem_connected, sem_turn_done, radio, hub,
                 mainVars, faults>>

\* turn_notify_func: a DONE, from whichever link.
TurnNotify(d) ==
  /\ Connected(d)
  /\ sem_turn_done' = 1
  /\ UNCHANGED <<callbackVars, sem_connected, setupVars, radio, hub, mainVars,
                 faults>>

-----------------------------------------------------------------------------
(* The main thread: helpers.                                                *)

\* bt_scan_start, successful or already scanning (-EALREADY).
ScanStarted == radio' = IF radio = "off" THEN "scan" ELSE radio

\* bt_scan_stop forgotten.
ScanLeftOn == UNCHANGED radio

\* bt_scan_stop ends a scan, and nothing else the radio may be doing.
ScanStopped == radio' = IF radio = "scan" THEN "off" ELSE radio

\* A wait for a connection times out while one is being made only if late.
NoConnectionUnderWay == LateEvents \/ radio \notin {"match", "create"}

\* Line 502 forgotten, and as it is.
StayAtSlot == UNCHANGED slot
Advance == slot' = (slot + 1) % MaxConn
NoLink == cur' = NoDevice /\ cur_slot' = 0 /\ stage' = 1

\* Leaving setup_link and subscribe_turn, well or not.
LinkDone(ok) ==
  /\ NoLink
  /\ IF round_robin
       THEN hub' = "loop" /\ Advance /\ UNCHANGED established
       ELSE /\ hub' = "setup_top"
            /\ established' = IF ok THEN established + 1 ELSE established
            /\ UNCHANGED slot
  /\ UNCHANGED round_robin

\* last_connected is looked up in conns: set its link up, or give up.
LookUpLast(next) ==
  IF Connected(last_connected)
    THEN /\ hub' = "ask"
         /\ cur' = last_connected
         /\ cur_slot' = CHOOSE s \in Slot : conns[s] = last_connected
         /\ stage' = 1
         /\ UNCHANGED <<round_robin, established, slot>>
    ELSE next

(* The set-up phase.                                                        *)

\* Line 443-454: the round-robin phase begins at slot 0.
BeginRoundRobin == /\ hub' = "loop"
                   /\ round_robin' = TRUE
                   /\ ScanStopped
                   /\ UNCHANGED <<established, slot, cur, cur_slot, stage>>

SetupScan ==
  /\ hub = "setup_top"
  /\ \/ /\ established < MaxConn
        /\ ScanStarted
        /\ hub' = "setup_wait"
        /\ UNCHANGED mainVars
     \/ BeginRoundRobin      \* all established, or the scan fails to start
  /\ UNCHANGED <<callbackVars, sem_connected, setupVars, sem_turn_done, faults>>

SetupTimeout ==
  /\ hub = "setup_wait"
  /\ sem_connected = 0
  /\ NoConnectionUnderWay
  /\ IF established >= 1
       THEN BeginRoundRobin
       ELSE hub' = "setup_top" /\ UNCHANGED <<radio, mainVars>>
  /\ UNCHANGED <<callbackVars, sem_connected, setupVars, sem_turn_done, faults>>

SetupConnected ==
  /\ hub = "setup_wait"
  /\ sem_connected = 1
  /\ sem_connected' = 0
  /\ LookUpLast(hub' = "setup_top" /\ UNCHANGED mainVars)
  /\ UNCHANGED <<callbackVars, setupVars, sem_turn_done, radio, faults>>

-----------------------------------------------------------------------------
(* setup_link and subscribe_turn, used in both phases.                      *)

\* The request of the stage is sent.  One on a lost link fails (AskFails).
Ask == /\ hub = "ask"
       /\ conns[cur_slot] = cur
       /\ pending' = pending \union {<<cur, stage>>}
       /\ hub' = "wait"
       /\ UNCHANGED <<callbackVars, sem_connected, sem_stage, done,
                      sem_turn_done, radio, mainVars, faults>>

AskFails == /\ hub = "ask"
            /\ LinkDone(FALSE)
            /\ UNCHANGED <<callbackVars, sem_connected, setupVars,
                           sem_turn_done, radio, faults>>

StageTaken ==
  /\ hub = "wait"
  /\ sem_stage[stage] = 1
  /\ sem_stage' = [sem_stage EXCEPT ![stage] = 0]
  /\ IF stage < NumStages
       THEN hub' = "ask" /\ stage' = stage + 1
       ELSE hub' = "subscribe" /\ UNCHANGED stage
  /\ UNCHANGED <<callbackVars, sem_connected, pending, done, sem_turn_done,
                 radio, round_robin, established, slot, cur, cur_slot, faults>>

\* k_sem_take(..., K_SECONDS(5)) fails; an answer that is not late never comes.
StageTimeout ==
  /\ hub = "wait"
  /\ sem_stage[stage] = 0
  /\ pending' = IF LateEvents THEN pending ELSE pending \ {<<cur, stage>>}
  /\ LinkDone(FALSE)
  /\ UNCHANGED <<callbackVars, sem_connected, sem_stage, done, sem_turn_done,
                 radio, faults>>

\* bt_gatt_subscribe succeeds; the 100 ms sleep begins.
Subscribe == /\ hub = "subscribe"
             /\ conns[cur_slot] = cur
             /\ hub' = "settle"
             /\ UNCHANGED <<callbackVars, sem_connected, setupVars,
                            sem_turn_done, radio, mainVars, faults>>

SubscribeFails == /\ hub = "subscribe"
                  /\ LinkDone(FALSE)
                  /\ UNCHANGED <<callbackVars, sem_connected, setupVars,
                                 sem_turn_done, radio, faults>>

\* Line 229: the slot is marked ready, whatever became of it meanwhile.
Settle == /\ hub = "settle"
          /\ link_ready' = [link_ready EXCEPT ![cur_slot] = TRUE]
          /\ LinkDone(TRUE)
          /\ UNCHANGED <<conns, last_connected, conn_count, sem_connected,
                         setupVars, sem_turn_done, radio, faults>>

-----------------------------------------------------------------------------
(* The round-robin phase, lines 456-503.                                    *)

AtSlot == hub = "loop"

\* A ready link gets the turn: stale DONEs are drained, then GO is written.
\* A write on a link being lost, or without a buffer, fails.
Grant ==
  /\ AtSlot
  /\ conns[slot] # NoDevice
  /\ link_ready[slot]
  /\ sem_turn_done' = 0
  /\ hub' = "await"
  /\ cur' = conns[slot]
  /\ cur_slot' = slot
  /\ UNCHANGED <<callbackVars, sem_connected, setupVars, radio, round_robin,
                 established, slot, stage, faults>>

GrantFails ==
  /\ AtSlot
  /\ conns[slot] # NoDevice
  /\ link_ready[slot]
  /\ sem_turn_done' = 0
  /\ Advance
  /\ UNCHANGED <<callbackVars, sem_connected, setupVars, radio, hub,
                 round_robin, established, cur, cur_slot, stage, faults>>

TurnOver == /\ hub' = "loop"
            /\ Advance
            /\ NoLink
            /\ UNCHANGED <<callbackVars, sem_connected, setupVars, radio,
                           round_robin, established, faults>>

TurnDone == /\ hub = "await"
            /\ sem_turn_done = 1
            /\ sem_turn_done' = 0
            /\ TurnOver

TurnTimeout == /\ hub = "await"
               /\ sem_turn_done = 0
               /\ UNCHANGED sem_turn_done
               /\ TurnOver

\* A connected slot that is not ready is skipped, after 50 ms.
SkipNotReady ==
  /\ AtSlot
  /\ conns[slot] # NoDevice
  /\ ~link_ready[slot]
  /\ Advance
  /\ UNCHANGED <<callbackVars, sem_connected, setupVars, sem_turn_done, radio,
                 hub, round_robin, established, cur, cur_slot, stage, faults>>

\* An empty slot is scanned for.  If the scan does not start, the next slot.
Rescan ==
  /\ AtSlot
  /\ conns[slot] = NoDevice
  /\ \/ ScanStarted /\ hub' = "rescan_wait" /\ UNCHANGED slot
     \/ Advance /\ UNCHANGED <<radio, hub>>
  /\ UNCHANGED <<callbackVars, sem_connected, setupVars, sem_turn_done,
                 round_robin, established, cur, cur_slot, stage, faults>>

RescanTimeout ==
  /\ hub = "rescan_wait"
  /\ sem_connected = 0
  /\ NoConnectionUnderWay
  /\ ScanStopped
  /\ hub' = "loop"
  /\ Advance
  /\ UNCHANGED <<callbackVars, sem_connected, setupVars, sem_turn_done,
                 round_robin, established, cur, cur_slot, stage, faults>>

\* Whoever connected last is set up, in whichever slot it was given.
RescanConnected ==
  /\ hub = "rescan_wait"
  /\ sem_connected = 1
  /\ sem_connected' = 0
  /\ ScanStopped
  /\ LookUpLast(/\ hub' = "loop"
                /\ Advance
                /\ UNCHANGED <<round_robin, established, cur, cur_slot, stage>>)
  /\ UNCHANGED <<callbackVars, setupVars, sem_turn_done, faults>>

-----------------------------------------------------------------------------
HubRadio == Match \/ MatchCreate \/ MatchError \/ ConnectFailed

HubSetup == \/ SetupScan \/ SetupTimeout \/ SetupConnected
            \/ Ask \/ AskFails \/ StageTaken \/ StageTimeout
            \/ Subscribe \/ SubscribeFails \/ Settle

HubLoop == GrantFails \/ SkipNotReady \/ Rescan \/ RescanTimeout
           \/ RescanConnected

HubMain == HubSetup \/ HubLoop \/ Grant \/ TurnDone \/ TurnTimeout

HubStageCb == \E d \in Device, i \in Stage, ok \in BOOLEAN : StageCb(d, i, ok)

HubNext == \/ HubMain
           \/ HubRadio
           \/ HubStageCb
           \/ \E d \in Device : \/ ConnectedCb(d)
                                \/ DisconnectedCb(d)
                                \/ TurnNotify(d)

\* The main thread runs and its timeouts expire; no answer is sure to come.
HubFairness == WF_hubVars(HubMain)

HubSpec == HubInit /\ [][HubNext]_hubVars /\ HubFairness

-----------------------------------------------------------------------------
(* Properties.                                                              *)

\* The slot table is a set of links: no link sits in two slots, the LED's
\* counter is their number, and a free slot is not ready (connected_cb,
\* disconnected_cb; line 229 breaks the last part when events are late).
SlotsConsistent ==
  /\ conn_count = Cardinality(Occupied)
  /\ \A r, s \in Slot : conns[r] = conns[s] /\ conns[r] # NoDevice => r = s
  /\ ~LateEvents => \A s \in Slot : link_ready[s] => conns[s] # NoDevice

\* In the set-up phase there is a slot left to establish (line 407), so that no
\* more links are counted than there are slots.
EstablishedBound ==
  /\ established <= MaxConn
  /\ ~round_robin /\ hub \notin {"setup_top", "assign"} => established < MaxConn

\* A connection that was signalled was noted, and the main thread sets up,
\* and grants turns to, a link it has in hand: c and nc are never NULL there.
LinkInHand ==
  /\ sem_connected = 1 => last_connected \in Device
  /\ hub \in {"ask", "wait", "subscribe", "settle", "await"} => cur \in Device

\* "serialized, so single-count" (line 60): the semaphores of setup_link are
\* shared by all links, yet a link marked ready has completed every stage,
\* unless an answer to an earlier link came too late.
ReadyIsSetUp ==
  ~LateEvents =>
    \A s \in Slot :
      link_ready[s] /\ conns[s] # NoDevice => done[conns[s]] = Stage

\* While a turn is granted the central neither scans nor connects (lines
\* 449-452): the turn has the radio to itself, unless a connection comes
\* after the wait for it.
NoRadioInTurn == ~LateEvents /\ hub = "await" => radio = "off"

\* Once the scheduler runs, each slot is looked at again and again: a silent
\* initiator, an empty slot or a failing set-up delays the others, no more.
\* (Without late events a wait does not end before the event it is for, which
\* nothing promises; with them it may end at any time.)
EverySlotVisited ==
  \A s \in Slot : [](LateEvents /\ round_robin => <>(hub = "loop" /\ slot = s))

\* README: a reset anchor "self-heals back into the ranging set".  A link
\* that is up in the round-robin phase becomes ready or is dropped.
SelfHeals ==
  \A s \in Slot, d \in Device :
    (round_robin /\ conns[s] = d) ~> (link_ready[s] \/ conns[s] # d)
=============================================================================
