----------------------------- MODULE FreeCentral -----------------------------
(***************************************************************************)
(* The hub of ipt_swap/free_running (refl_central/src/main.c), beside that *)
(* of ipt_swap: it connects and sets links up in the same way, but grants  *)
(* no turns.  Once, when it has filled its table, and then for each link   *)
(* it sets up again, it writes the link's procedure interval, its cadence. *)
(* Which of the two firmwares the hub has is chosen at the start.          *)
(***************************************************************************)
EXTENDS ReflCentral

VARIABLES
  hub_free,     \* the firmware is that of free_running
  supervising,  \* the table was filled, and the cadences assigned
  cadence       \* cadence[d]: the interval written to d on its link, or 0

freeVars == <<hub_free, supervising, cadence>>
hubsVars == <<hubVars, freeVars>>

\* PROC_INTERVAL_FOR_SLOT.
CadenceOf(s) == 3 + s

HubsTypeOK == /\ HubTypeOK
              /\ hub_free \in BOOLEAN /\ supervising \in BOOLEAN
              /\ cadence \in [Device -> Nat]

HubsInit ==
  /\ HubInit
  /\ hub_free \in BOOLEAN
  /\ supervising = FALSE
  /\ cadence = [d \in Device |-> 0]

-----------------------------------------------------------------------------
(* The callbacks: those of ReflCentral, but for the turns' notifications.   *)

FreeScan == HubRadio /\ UNCHANGED freeVars
FreeConnected(d) == ConnectedCb(d) /\ UNCHANGED freeVars
FreeStageCb == HubStageCb /\ UNCHANGED freeVars

\* The last answer of setup_link is here, and the link is about to be marked:
\* nothing between, such as the turns' subscription, would fail if it is lost.
AsMarked(d) ==
  /\ d = cur
  /\ hub = "subscribe" \/ (hub = "wait" /\ sem_stage[NumStages] = 1)

FreeDisconnected(d) ==
  /\ DisconnectedCb(d)
  /\ LateEvents \/ ~AsMarked(d)
  /\ cadence' = [cadence EXCEPT ![d] = 0]
  /\ UNCHANGED <<hub_free, supervising>>

-----------------------------------------------------------------------------
(* The main thread.                                                         *)

\* setup_link, whichever the phase: its failures leave the link in its slot.
FreeSetUp == /\ Ask \/ AskFails \/ StageTaken \/ StageTimeout
             /\ UNCHANGED freeVars

\* assign_cadence forgotten, by the number of links in place of the slot, and
\* as it is: for a slot that has a link and is ready.  A write may fail, and
\* only the log has it.
AssignNothing(s, ready) == UNCHANGED cadence
AssignByCount(s, ready) ==
  IF conns[s] # NoDevice /\ ready
    THEN cadence' = [cadence EXCEPT ![conns[s]] = CadenceOf(conn_count - 1)]
    ELSE UNCHANGED cadence
AssignCadence(s, ready) ==
  IF conns[s] # NoDevice /\ ready
    THEN \/ cadence' = [cadence EXCEPT ![conns[s]] = CadenceOf(s)]
         \/ HciErrors /\ UNCHANGED cadence
    ELSE UNCHANGED cadence

\* The link is set up: mark_link_ready, and in the supervisor assign_cadence.
MarkReady ==
  /\ hub = "subscribe"
  /\ link_ready' = [link_ready EXCEPT ![cur_slot] = TRUE]
  /\ hub' = "setup_top" /\ NoLink
  /\ IF supervising
       THEN AssignCadence(cur_slot, TRUE) /\ UNCHANGED established
       ELSE UNCHANGED cadence /\ established' = established + 1
  /\ UNCHANGED <<conns, last_connected, conn_count, sem_connected, setupVars,
                 sem_turn_done, radio, round_robin, slot, faults, hub_free,
                 supervising>>

MainFrame == UNCHANGED <<callbackVars, setupVars, sem_turn_done, round_robin,
                         established, cur, cur_slot, stage, faults, hub_free>>

\* The end of the filling: the scan is stopped, and the slots are gone through.
BeginAssigning == /\ hub' = "assign" /\ slot' = 0
                  /\ ScanStopped

FillScan ==
  /\ hub = "setup_top" /\ ~supervising
  /\ \/ /\ established < MaxConn
        /\ ScanStarted
        /\ hub' = "setup_wait" /\ UNCHANGED slot
     \/ BeginAssigning
  /\ UNCHANGED <<sem_connected, supervising, cadence>> /\ MainFrame

FillTimeout ==
  /\ hub = "setup_wait" /\ ~supervising
  /\ sem_connected = 0 /\ NoConnectionUnderWay
  /\ IF established >= 1
       THEN BeginAssigning
       ELSE hub' = "setup_top" /\ UNCHANGED <<radio, slot>>
  /\ UNCHANGED <<sem_connected, supervising, cadence>> /\ MainFrame

\* In both phases: last_connected is looked up, and set up if it is there.
FreeConnection == SetupConnected /\ UNCHANGED freeVars

Assign ==
  /\ hub = "assign"
  /\ AssignCadence(slot, link_ready[slot])
  /\ Advance
  /\ IF slot = MaxConn - 1 THEN hub' = "setup_top" /\ supervising' = TRUE
                           ELSE UNCHANGED <<hub, supervising>>
  /\ UNCHANGED <<sem_connected, radio>> /\ MainFrame

\* The supervisor scans while a slot is free, and does not stop the scan.
Supervise ==
  /\ hub = "setup_top" /\ supervising
  /\ Cardinality(Occupied) < MaxConn
  /\ ScanStarted
  /\ hub' = "setup_wait"
  /\ UNCHANGED <<sem_connected, slot, supervising, cadence>> /\ MainFrame

SuperviseTimeout ==
  /\ hub = "setup_wait" /\ supervising
  /\ sem_connected = 0 /\ NoConnectionUnderWay
  /\ hub' = "setup_top"
  /\ UNCHANGED <<sem_connected, radio, slot, supervising, cadence>>
  /\ MainFrame

FreeMain == \/ FillScan \/ FillTimeout \/ FreeConnection \/ FreeSetUp
            \/ MarkReady \/ Assign \/ Supervise \/ SuperviseTimeout

FreeNext == \/ FreeMain \/ FreeScan \/ FreeStageCb
            \/ \E d \in Device : FreeConnected(d) \/ FreeDisconnected(d)

HubsMain == \/ hub_free /\ FreeMain
            \/ ~hub_free /\ HubMain /\ UNCHANGED freeVars

HubsNext == \/ hub_free /\ FreeNext
            \/ ~hub_free /\ HubNext /\ UNCHANGED freeVars

HubsSpec == HubsInit /\ [][HubsNext]_hubsVars /\ WF_hubsVars(HubsMain)

-----------------------------------------------------------------------------
(* Properties.                                                              *)

\* "Assigns each link a DISTINCT CS procedure interval" (line 17): no two links
\* have the same cadence, however links are lost and come back into other
\* slots, and whatever writes fail.
CadencesDistinct ==
  \A d, e \in Device : cadence[d] = cadence[e] /\ cadence[d] # 0 => d = e

\* A link that was marked ready, while the table is filled or later, has its
\* cadence written or is lost: unless a write fails, or an event is late, or
\* connecting to others goes on for ever in the filling.
ReadyIsAssigned ==
  \A d \in Device :
    \/ []<>(~supervising /\ radio \in {"match", "create"})
    \/ hub_free /\ ~LateEvents /\ ~HciErrors
         /\ (\E s \in Slot : conns[s] = d /\ link_ready[s])
         ~> ~Connected(d) \/ cadence[d] # 0
=============================================================================
