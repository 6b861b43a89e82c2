------------------------------ MODULE RasCycle ------------------------------
(***************************************************************************)
(* cs_ras_multi: one initiator, from boot to its distances (initator.c,    *)
(* ble.c, cs.c).  main sets the link and Channel Sounding up; then the     *)
(* acquisition thread runs one procedure for each turn that RasSync grants *)
(* it, fetches the peer's steps of the same procedure and estimates from   *)
(* both.  The Bluetooth RX thread runs the callbacks between any two steps *)
(* of either thread; a disconnection resets the state they share.          *)
(***************************************************************************)
EXTENDS Naturals, Sequences, FiniteSets

CONSTANTS MaxProc,   \* bound: procedures in a behaviour
          Subevents, \* subevents of a procedure
          Faults     \* bound: faults in a behaviour

ASSUME MaxProcIsPositive == MaxProc \in Nat \ {0}
ASSUME SubeventsIsPositive == Subevents \in Nat \ {0}
ASSUME CycleFaultsIsNatural == Faults \in Nat

None == 0                  \* PROCEDURE_COUNTER_NONE
Counter == None .. MaxProc
Part == 1 .. Subevents

VARIABLES
  link, own,         \* is there a link? is it the one main sets up?
  main, asked,       \* main's wait in its set-up; is an answer due?
  sem,               \* the semaphores that are given
  start_ranging,     \* start_ranging_sem
  acq,               \* the acquisition thread
  running, part,     \* the controller's procedure and its next subevent
  unusable,          \* its subevents that were aborted
  issued,            \* the last procedure's counter
  ready,             \* procedures the peer is about to announce
  fetching,          \* the procedure whose peer data is under way
  local, peer,       \* latest_local_steps, latest_peer_steps
  most_recent_local, most_recent_peer, dropped,
  ranging_data_err,
  faults, harm       \* history: the number of faults, and their kinds

linkVars == <<link, own>>
setupVars == <<main, asked>>
procVars == <<running, part, unusable, issued, ready>>
dataVars == <<local, most_recent_local, most_recent_peer, dropped>>
fetchVars == <<fetching, peer, ranging_data_err>>
faultVars == <<faults, harm>>
cycleVars == <<linkVars, setupVars, sem, start_ranging, acq, procVars, dataVars,
               fetchVars, faultVars>>

\* The waits of main in ble_init, cs_rreq_setup and cs_procedure_configure.
\* An answer that is a failure is told by none but the capabilities' callback.
SetUpWaits == <<"connected", "security", "mtu_exchange", "discovery", "sync",
                "rrq_capabilites", "create_config", "cs_security">>
Ready == Len(SetUpWaits) + 1
CycleSems == {"procedure_done", "procedure_disabled", "rd_ready",
              "rd_complete", "local_steps"}
Sems == {SetUpWaits[w] : w \in DOMAIN SetUpWaits} \cup CycleSems

Idle == {"idle"}
InTurn == {"start", "done", "ready", "match", "get", "complete", "estimate",
           "signal"}

CycTypeOK ==
  /\ link \in BOOLEAN /\ own \in BOOLEAN
  /\ main \in 1 .. Ready /\ asked \in BOOLEAN
  /\ sem \subseteq Sems
  /\ start_ranging \in BOOLEAN
  /\ acq \in Idle \cup InTurn
  /\ running \in Counter /\ issued \in Counter
  /\ part \in 1 .. Subevents + 1 /\ unusable \subseteq Part
  /\ ready \subseteq 1 .. MaxProc
  /\ fetching \in Counter
  /\ local \subseteq Counter \X Part /\ peer \in Counter
  /\ {most_recent_local, most_recent_peer, dropped} \subseteq Counter
  /\ ranging_data_err \in BOOLEAN
  /\ faults \in 0 .. Faults /\ harm \subseteq {"lost", "late", "refused"}

CycInit ==
  /\ link = FALSE /\ own = FALSE
  /\ main = 1 /\ asked = TRUE
  /\ sem = {}
  /\ start_ranging = FALSE /\ acq = "idle"
  /\ running = None /\ part = 1 /\ unusable = {} /\ issued = None /\ ready = {}
  /\ fetching = None /\ local = {} /\ peer = None
  /\ most_recent_local = None /\ most_recent_peer = None /\ dropped = None
  /\ ranging_data_err = FALSE
  /\ faults = 0 /\ harm = {}

Fault(kind) == /\ faults < Faults
               /\ faults' = faults + 1
               /\ harm' = harm \cup {kind}

\* A wait ends with its answer, or when none is due; else it is late.
TimeUp(due) == IF due THEN Fault("late") ELSE UNCHANGED faultVars
Give(names) == sem' = sem \cup names
Take(name) == name \in sem /\ sem' = sem \ {name}

-----------------------------------------------------------------------------
(* The link and main's set-up.                                              *)

\* connected: advertising stops.  A later link gives the semaphore again, and
\* nothing of the set-up is done on it.
Connected ==
  /\ ~link
  /\ link' = TRUE /\ own' = (main = 1)
  /\ Give({"connected"})
  /\ asked' = (asked /\ main # 1)
  /\ UNCHANGED <<main, start_ranging, acq, procVars, dataVars, fetchVars,
                 faultVars>>

\* What cs_reset_state leaves of the semaphores.
Resets == {"local_steps", "rd_ready", "rd_complete", "procedure_done"}

\* disconnected: cs_reset_state on the RX thread, then advertising.
Disconnected ==
  /\ link
  /\ link' = FALSE /\ own' = FALSE
  /\ Fault("lost")
  /\ asked' = (asked /\ main = 1)
  /\ sem' = sem \ Resets
  /\ local' = {} /\ peer' = None
  /\ most_recent_local' = None /\ dropped' = None
  /\ running' = None /\ part' = 1 /\ ready' = {} /\ fetching' = None
  /\ UNCHANGED <<main, start_ranging, acq, unusable, issued, most_recent_peer,
                 ranging_data_err>>

\* The answers' callbacks: security_changed, mtu_exchange_cb, dm_completed
\* (twice), remote_capabilities_cb, config_create_cb, security_enable_cb.
Tells(wait) == {wait}

AnswerOk ==
  /\ link /\ asked /\ main \in 2 .. Ready - 1
  /\ asked' = FALSE
  /\ Give(Tells(SetUpWaits[main]))
  /\ UNCHANGED <<linkVars, main, start_ranging, acq, procVars, dataVars, fetchVars,
                 faultVars>>

AnswerFailed ==
  /\ link /\ asked /\ main \in 2 .. Ready - 1
  /\ asked' = FALSE
  /\ Fault("refused")
  /\ IF SetUpWaits[main] = "rrq_capabilites" THEN Give({"rrq_capabilites"})
                                            ELSE UNCHANGED sem
  /\ UNCHANGED <<linkVars, main, start_ranging, acq, procVars, dataVars, fetchVars>>

\* dm_service_not_found and dm_error_found disconnect: Disconnected.
\* main goes on with the next request, which a link that is gone refuses.
SetUpStep ==
  /\ main < Ready
  /\ Take(SetUpWaits[main])
  /\ main' = main + 1
  /\ asked' = (link /\ main' < Ready)
  /\ UNCHANGED <<linkVars, start_ranging, acq, procVars, dataVars, fetchVars,
                 faultVars>>

-----------------------------------------------------------------------------
(* The procedure, and the callbacks of its results.                         *)

\* subevent_result_cb once a procedure's data did not fit: nothing of it is
\* kept any more.  Remembered, and not.
DropForgotten(p) == dropped' = None
DropRemembered(p) == dropped' = p

Within ==
  /\ running # None /\ part \in Part
  /\ part' = part + 1
  /\ ready' = IF part < Subevents THEN ready ELSE ready \cup {running}
  /\ UNCHANGED <<linkVars, setupVars, start_ranging, acq, running, issued,
                 most_recent_peer, fetchVars, faultVars>>

SubeventDropped ==
  /\ dropped = running
  /\ Within
  /\ UNCHANGED <<sem, unusable, local, most_recent_local, dropped>>

SubeventTooLong ==
  /\ dropped # running
  /\ Within
  /\ local' = {}
  /\ DropRemembered(running)
  /\ UNCHANGED <<sem, unusable, most_recent_local>>

\* An aborted subevent is left out; the last one completes the procedure.
SubeventKept ==
  /\ dropped # running
  /\ Within
  /\ \/ local' = local \cup {<<running, part>>} /\ UNCHANGED unusable
     \/ unusable' = unusable \cup {part} /\ UNCHANGED local
  /\ dropped' = None
  /\ IF part = Subevents
       THEN most_recent_local' = running /\ Give({"procedure_done"})
       ELSE UNCHANGED <<most_recent_local, sem>>

\* The procedure is aborted, at the peer too, which announces nothing.
ProcedureAborted ==
  /\ dropped # running
  /\ running # None /\ part \in Part
  /\ part' = Subevents + 1
  /\ local' = {}
  /\ dropped' = None
  /\ Give({"procedure_done", "local_steps"})
  /\ UNCHANGED <<linkVars, setupVars, start_ranging, acq, running, unusable, issued,
                 ready, most_recent_local, most_recent_peer, fetchVars,
                 faultVars>>

\* procedure_enable_cb: the one procedure of max_procedure_count is over.
ProcedureDisabled ==
  /\ running # None /\ part = Subevents + 1
  /\ running' = None
  /\ Give({"procedure_disabled", "procedure_done"})
  /\ UNCHANGED <<linkVars, setupVars, start_ranging, acq, part, unusable, issued,
                 ready, dataVars, fetchVars, faultVars>>

\* procedure_enable_cb with an error: a procedure that was accepted never runs.
EnableFailed ==
  /\ running # None /\ part = 1
  /\ running' = None
  /\ Give({"procedure_done"})
  /\ Fault("refused")
  /\ UNCHANGED <<linkVars, setupVars, start_ranging, acq, part, unusable, issued,
                 ready, dataVars, fetchVars>>

\* ranging_data_ready_cb.
RangingDataReady ==
  /\ ready # {}
  /\ \E p \in ready : ready' = ready \ {p} /\ most_recent_peer' = p
  /\ Give({"rd_ready"})
  /\ UNCHANGED <<linkVars, setupVars, start_ranging, acq, running, part, unusable,
                 issued, local, most_recent_local, dropped, fetchVars, faultVars>>

\* ranging_data_get_complete_cb.
RangingDataGot ==
  /\ fetching # None
  /\ \/ peer' = fetching /\ ranging_data_err' = FALSE
     \/ peer' = peer /\ ranging_data_err' = TRUE
  /\ fetching' = None
  /\ Give({"rd_complete"})
  /\ UNCHANGED <<linkVars, setupVars, start_ranging, acq, procVars, dataVars,
                 faultVars>>

-----------------------------------------------------------------------------
(* The acquisition thread.                                                  *)

\* initiator_sync_cb: only a link that is set up has subscribed.
TurnGranted ==
  /\ own /\ main >= 6
  /\ ~start_ranging /\ issued < MaxProc
  /\ start_ranging' = TRUE
  /\ UNCHANGED <<linkVars, setupVars, sem, acq, procVars, dataVars, fetchVars,
                 faultVars>>

AcqFrame == UNCHANGED <<linkVars, setupVars>>
Goes(from, to) == acq = from /\ acq' = to

\* init_done_sem, start_ranging_sem, and cs_reset_state.  It is late for what
\* is left of the former turn's procedure.
TurnTaken ==
  /\ Goes("idle", "start")
  /\ main = Ready
  /\ start_ranging /\ start_ranging' = FALSE
  /\ sem' = sem \ Resets
  /\ local' = {} /\ peer' = None
  /\ most_recent_local' = None /\ dropped' = None
  /\ AcqFrame
  /\ TimeUp(running # None)
  /\ UNCHANGED <<procVars, most_recent_peer, fetching, ranging_data_err>>

\* cs_start_ranging.  A refusal (a link that is not set up, a procedure
\* that still runs) is only printed.
StartRanging ==
  /\ Goes("start", "done")
  /\ local' = {} /\ peer' = None /\ dropped' = None
  /\ IF own /\ running = None /\ issued < MaxProc
       THEN /\ issued' = issued + 1 /\ running' = issued'
            /\ part' = 1 /\ unusable' = {}
       ELSE UNCHANGED <<issued, running, part, unusable>>
  /\ AcqFrame
  /\ UNCHANGED <<sem, start_ranging, ready, most_recent_local, most_recent_peer,
                 fetching, ranging_data_err, faultVars>>

CalcFrame == /\ AcqFrame
             /\ UNCHANGED <<start_ranging, procVars, dataVars>>

\* cs_calc's three waits of 500 ms.
WaitOver(from, name, to) ==
  /\ Goes(from, to)
  /\ Take(name)
  /\ CalcFrame
  /\ UNCHANGED <<fetchVars, faultVars>>

\* k_sem_take with its timeout, and with K_FOREVER.
WaitTimeout(from, name, due) ==
  /\ Goes(from, "signal")
  /\ name \notin sem
  /\ TimeUp(due)
  /\ CalcFrame
  /\ UNCHANGED <<sem, fetchVars>>
WaitForever(from, name, due) == name # "rd_ready" /\ WaitTimeout(from, name, due)
WaitFails(from, name, due) == WaitTimeout(from, name, due)

SameCounter == most_recent_peer = most_recent_local

Match ==
  /\ acq = "match"
  /\ acq' = IF SameCounter THEN "get" ELSE "signal"
  /\ CalcFrame
  /\ UNCHANGED <<sem, fetchVars, faultVars>>

\* bt_ras_rreq_cp_get_ranging_data.
Get ==
  /\ acq = "get"
  /\ IF link /\ fetching = None
       THEN acq' = "complete" /\ fetching' = most_recent_peer
       ELSE acq' = "signal" /\ UNCHANGED fetching
  /\ ranging_data_err' = FALSE
  /\ CalcFrame
  /\ UNCHANGED <<sem, peer, faultVars>>

Complete ==
  /\ acq = "complete"
  /\ Take("rd_complete")
  /\ acq' = IF ranging_data_err THEN "signal" ELSE "estimate"
  /\ CalcFrame
  /\ UNCHANGED <<fetchVars, faultVars>>

\* estimate_distance, of module RangeEstimate.
Estimate ==
  /\ Goes("estimate", "signal")
  /\ CalcFrame
  /\ UNCHANGED <<sem, fetchVars, faultVars>>

\* sync_signal_completion, RasSync's.  Without a link the device reboots.
Signal ==
  /\ Goes("signal", "idle") /\ link
  /\ CalcFrame
  /\ UNCHANGED <<sem, fetchVars, faultVars>>

Reboot ==
  /\ Goes("signal", "idle") /\ ~link
  /\ main' = 1 /\ asked' = TRUE
  /\ sem' = {} /\ start_ranging' = FALSE
  /\ local' = {} /\ peer' = None
  /\ most_recent_local' = None /\ most_recent_peer' = None /\ dropped' = None
  /\ ranging_data_err' = FALSE
  /\ UNCHANGED <<linkVars, procVars, fetching, faultVars>>

Acquisition ==
  \/ TurnTaken \/ StartRanging
  \/ WaitOver("done", "procedure_done", "ready")
  \/ WaitFails("done", "procedure_done", running # None)
  \/ WaitOver("ready", "rd_ready", "match")
  \/ WaitFails("ready", "rd_ready", ready # {})
  \/ Match \/ Get \/ Complete
  \/ WaitFails("complete", "rd_complete", fetching # None)
  \/ Estimate \/ Signal \/ Reboot

Callbacks ==
  \/ AnswerOk \/ AnswerFailed
  \/ SubeventDropped \/ SubeventTooLong \/ SubeventKept \/ ProcedureAborted
  \/ ProcedureDisabled \/ EnableFailed \/ RangingDataReady \/ RangingDataGot

CycNext == Connected \/ Disconnected \/ SetUpStep \/ Callbacks \/ TurnGranted
           \/ Acquisition

\* Threads run, a device that advertises is connected, and requests are
\* answered; no fault need happen and no turn be granted.
CycFairness == /\ WF_cycleVars(Connected) /\ WF_cycleVars(SetUpStep)
               /\ WF_cycleVars(Callbacks) /\ WF_cycleVars(Acquisition)

CycSpec == CycInit /\ [][CycNext]_cycleVars /\ CycFairness

-----------------------------------------------------------------------------
(* Properties.                                                              *)

\* When no answer is late and no link lost, a distance is estimated from the
\* steps of one procedure, this turn's, on both sides, and from all of them
\* that are usable: not from another turn's, nor from what fitted the buffer.
WholeProcedure ==
  acq = "estimate" /\ harm = {} =>
    /\ peer = issued
    /\ local = {<<issued, k>> : k \in Part \ unusable}

\* The types, and that.
CycSafe == CycTypeOK /\ WholeProcedure

\* main ends its set-up unless a link is lost or an answer is a failure.
ReadyUnlessHarmed == <>(main = Ready \/ harm # {})

\* initator.c: a turn that was taken is always signalled, measured or not, so
\* that the reflector never waits for it in vain.
AlwaysSignals == acq \in InTurn ~> acq = "idle"

\* Neither of an initiator's threads waits for ever for what was refused or
\* will not come.
NeverHangs == ReadyUnlessHarmed /\ AlwaysSignals
=============================================================================
