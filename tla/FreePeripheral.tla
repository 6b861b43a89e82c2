---------------------------- MODULE FreePeripheral ----------------------------
(***************************************************************************)
(* The peripherals of ipt_swap/free_running (init_peripheral/src/main.c),  *)
(* beside those of ipt_swap: the RX and the main thread are the same, but  *)
(* the turn thread gives way to two others.  The cadence thread applies    *)
(* the procedure interval the hub writes and enables Channel Sounding for  *)
(* good; the starvation watchdog disables it and enables it again when no  *)
(* procedure completes.  The firmware is chosen at the start.              *)
(***************************************************************************)
EXTENDS InitPeripheral, Sequences

VARIABLES
  free,          \* the firmware is that of free_running
  sem_cadence_assigned, cadence_pc,      \* the cadence thread
  config,        \* the link's: none, secured, params, or enabled (once)
  reports,       \* procedure enables (1) and disables (0) RX has not read
  cs_running, sem_proc_disabled,
  starving,      \* last_complete_ms is STARVE_TIMEOUT_MS ago
  watchdog       \* where it is

cadenceVars == <<sem_cadence_assigned, cadence_pc, config>>
watchVars == <<starving, watchdog>>
reportVars == <<reports, cs_running, sem_proc_disabled>>
ownVars == <<free, cadenceVars, watchVars, reportVars>>
persVars == <<perVars, ownVars>>

\* Bound: reports that RX has yet to read.
MaxReports == 3

PersTypeOK ==
  /\ PerTypeOK
  /\ free \in BOOLEAN
  /\ sem_cadence_assigned \in [Device -> BOOLEAN]
  /\ cadence_pc \in [Device -> {"wait", "params", "enable"}]
  /\ config \in [Device -> {"none", "secured", "params", "enabled"}]
  /\ reports \in [Device -> Seq({0, 1})]
  /\ \A d \in Device : Len(reports[d]) <= MaxReports
  /\ cs_running \in [Device -> BOOLEAN]
  /\ sem_proc_disabled \in [Device -> BOOLEAN]
  /\ starving \in [Device -> BOOLEAN]
  /\ watchdog \in [Device -> {"sleep", "wait", "enable"}]

PersInit ==
  /\ PerInit
  /\ free \in BOOLEAN
  /\ sem_cadence_assigned = [d \in Device |-> FALSE]
  /\ cadence_pc = [d \in Device |-> "wait"]
  /\ config = [d \in Device |-> "none"]
  /\ reports = [d \in Device |-> <<>>]
  /\ cs_running = [d \in Device |-> FALSE]
  /\ sem_proc_disabled = [d \in Device |-> FALSE]
  /\ starving = [d \in Device |-> FALSE]
  /\ watchdog = [d \in Device |-> "sleep"]

-----------------------------------------------------------------------------
(* The link, and the callbacks.                                             *)

FreeConnectedPer(d) == ConnectedPer(d) /\ UNCHANGED ownVars

\* The link's configuration goes with it, and reports may.
FreeLinkLost(d) ==
  /\ LinkLostPer(d)
  /\ config' = [config EXCEPT ![d] = "none"]
  /\ \/ UNCHANGED reports
     \/ reports' = [reports EXCEPT ![d] = <<>>]
  /\ UNCHANGED <<free, sem_cadence_assigned, cadence_pc, watchVars, cs_running,
                 sem_proc_disabled>>

\* The callback leaves cs_running and last_complete_ms as they are.
FreeDisconnectedPer(d) ==
  /\ reports[d] = <<>>
  /\ DisconnectedPer(d) /\ UNCHANGED ownVars

\* The hub has created the configuration and enabled CS security.
Secured(d) ==
  /\ rx[d] = "ready" /\ link[d] /\ connection[d]
  /\ config[d] = "none"
  /\ config' = [config EXCEPT ![d] = "secured"]
  /\ UNCHANGED <<perVars, free, sem_cadence_assigned, cadence_pc, watchVars,
                 reportVars>>

\* turn_write, which here stores the interval, and wakes the cadence thread.
CadenceWrite(d) ==
  /\ rx[d] = "ready" /\ connection[d]
  /\ sem_cadence_assigned' = [sem_cadence_assigned EXCEPT ![d] = TRUE]
  /\ UNCHANGED <<perVars, free, cadence_pc, config, watchVars, reportVars>>

\* procedure_enable_cb: the watchdog counts anew from an enable.
ReportRead(d) ==
  /\ rx[d] = "ready" /\ reports[d] # <<>>
  /\ reports' = [reports EXCEPT ![d] = Tail(@)]
  /\ cs_running' = [cs_running EXCEPT ![d] = Head(reports[d]) = 1]
  /\ IF Head(reports[d]) = 1
       THEN /\ starving' = [starving EXCEPT ![d] = FALSE]
            /\ UNCHANGED sem_proc_disabled
       ELSE /\ sem_proc_disabled' = [sem_proc_disabled EXCEPT ![d] = TRUE]
            /\ UNCHANGED starving
  /\ UNCHANGED <<perVars, free, cadenceVars, watchdog>>

\* subevent_result_cb: a complete procedure feeds the watchdog.
Fed(d, kind) ==
  /\ starving' = [starving EXCEPT ![d] = @ /\ kind # "complete"]
  /\ UNCHANGED <<free, cadenceVars, watchdog, reportVars>>

FreeSubevent(d) ==
  /\ reports[d] = <<>>
  /\ \/ \E kind \in {"partial", "complete"} : Subevent(d, kind) /\ Fed(d, kind)
     \/ \E kind \in {"partial", "complete"} :
          SubeventBlocks(d, kind) /\ UNCHANGED ownVars
     \/ SubeventAborted(d) /\ UNCHANGED ownVars

FreeResume(d) == RxResume(d) /\ Fed(d, rx[d])

-----------------------------------------------------------------------------
(* The cadence thread, and the watchdog.                                    *)

\* bt_le_cs_procedure_enable, for which there must be parameters.
Enables(d) ==
  /\ link[d] /\ cs[d] = "off" /\ config[d] \in {"params", "enabled"}
  /\ Len(reports[d]) < MaxReports
  /\ cs' = [cs EXCEPT ![d] = "fresh"]
  /\ config' = [config EXCEPT ![d] = "enabled"]
  /\ reports' = [reports EXCEPT ![d] = Append(@, 1)]

EnableRefused(d) ==
  /\ HciErrors \/ ~link[d] \/ cs[d] # "off"
     \/ config[d] \notin {"params", "enabled"} \/ Len(reports[d]) = MaxReports
  /\ UNCHANGED <<cs, config, reports>>

RestOfPer == UNCHANGED <<linkVars, goVars, burstVars, iqVars, turn, rx, main,
                         faults, free, cs_running>>

CadenceTaken(d) ==
  /\ cadence_pc[d] = "wait" /\ sem_cadence_assigned[d]
  /\ sem_cadence_assigned' = [sem_cadence_assigned EXCEPT ![d] = FALSE]
  /\ cadence_pc' = [cadence_pc EXCEPT ![d] =
                      IF connection[d] THEN "params" ELSE "wait"]
  /\ UNCHANGED <<perVars, free, config, watchVars, reportVars>>

\* The parameters are refused before the set-up, and while procedures run.
CadenceParams(d) ==
  /\ cadence_pc[d] = "params"
  /\ \/ /\ link[d] /\ cs[d] = "off" /\ config[d] # "none"
        /\ config' = [config EXCEPT ![d] =
                        IF @ = "secured" THEN "params" ELSE @]
        /\ cadence_pc' = [cadence_pc EXCEPT ![d] = "enable"]
     \/ /\ HciErrors \/ ~link[d] \/ cs[d] # "off" \/ config[d] = "none"
        /\ cadence_pc' = [cadence_pc EXCEPT ![d] = "wait"]
        /\ UNCHANGED config
  /\ UNCHANGED <<perVars, free, sem_cadence_assigned, watchVars, reportVars>>

CadenceEnable(d) ==
  /\ cadence_pc[d] = "enable"
  /\ cadence_pc' = [cadence_pc EXCEPT ![d] = "wait"]
  /\ Enables(d) \/ EnableRefused(d)
  /\ UNCHANGED <<sem_cadence_assigned, watchVars, sem_proc_disabled>>
  /\ RestOfPer

\* Seconds pass without a complete procedure: RX reads what there is, unless
\* it is blocked for good.
Starves(d) ==
  /\ reports[d] = <<>> \/ Wedged(d)
  /\ connection[d] /\ cs_running[d] /\ ~starving[d]
  /\ starving' = [starving EXCEPT ![d] = TRUE]
  /\ UNCHANGED <<perVars, free, cadenceVars, watchdog, reportVars>>

\* The watchdog is up after its 2 s, and disables the procedures.
WatchdogDisables(d) ==
  /\ watchdog[d] = "sleep" /\ connection[d] /\ cs_running[d] /\ starving[d]
  /\ sem_proc_disabled' = [sem_proc_disabled EXCEPT ![d] = FALSE]
  /\ \/ /\ link[d] /\ cs[d] # "off" /\ Len(reports[d]) < MaxReports
        /\ CutShort \/ ~InProcedure(d)
        /\ cs' = [cs EXCEPT ![d] = "off"]
        /\ reports' = [reports EXCEPT ![d] = Append(@, 0)]
        /\ watchdog' = [watchdog EXCEPT ![d] = "wait"]
     \/ /\ HciErrors \/ ~link[d] \/ cs[d] = "off" \/ Len(reports[d]) = MaxReports
        /\ watchdog' = [watchdog EXCEPT ![d] = "enable"]
        /\ UNCHANGED <<cs, reports>>
  /\ UNCHANGED <<cadenceVars, starving>> /\ RestOfPer

WatchdogWaits(d) ==
  /\ watchdog[d] = "wait" /\ sem_proc_disabled[d]
  /\ sem_proc_disabled' = [sem_proc_disabled EXCEPT ![d] = FALSE]
  /\ watchdog' = [watchdog EXCEPT ![d] = "enable"]
  /\ UNCHANGED <<perVars, free, cadenceVars, starving, reports, cs_running>>

\* Its 1500 ms are over: the report is late, or RX is blocked, or none comes.
WatchdogTimesOut(d) ==
  /\ watchdog[d] = "wait" /\ ~sem_proc_disabled[d]
  /\ Preempted \/ reports[d] = <<>> \/ rx[d] # "ready"
  /\ watchdog' = [watchdog EXCEPT ![d] = "enable"]
  /\ UNCHANGED <<perVars, free, cadenceVars, starving, reportVars>>

\* Procedures enabled again only if the wait gave the semaphore, after which
\* cs_running is FALSE, and as it is: whatever came of the wait.
EnablesIfRunning(d) == IF cs_running[d] THEN Enables(d) \/ EnableRefused(d)
                       ELSE UNCHANGED <<cs, config, reports>>
EnablesAgain(d) == Enables(d) \/ EnableRefused(d)

WatchdogEnables(d) ==
  /\ watchdog[d] = "enable"
  /\ EnablesAgain(d)
  /\ starving' = [starving EXCEPT ![d] = FALSE]
  /\ watchdog' = [watchdog EXCEPT ![d] = "sleep"]
  /\ UNCHANGED <<sem_cadence_assigned, cadence_pc, sem_proc_disabled>>
  /\ RestOfPer

-----------------------------------------------------------------------------
CadenceThread(d) == CadenceTaken(d) \/ CadenceParams(d) \/ CadenceEnable(d)
Watchdog(d) == \/ WatchdogDisables(d) \/ WatchdogWaits(d)
               \/ WatchdogTimesOut(d) \/ WatchdogEnables(d)
FreeMainPer(d) == (Settings(d) \/ Estimate(d)) /\ UNCHANGED ownVars

FreePerNext ==
  \E d \in Device :
    \/ FreeConnectedPer(d) \/ FreeLinkLost(d) \/ FreeDisconnectedPer(d)
    \/ Secured(d) \/ CadenceWrite(d) \/ ReportRead(d)
    \/ FreeSubevent(d) \/ FreeResume(d)
    \/ CadenceThread(d) \/ Starves(d) \/ Watchdog(d) \/ FreeMainPer(d)

PersNext == \/ free /\ FreePerNext
            \/ ~free /\ PerNext /\ UNCHANGED ownVars

\* The threads run, and RX reads what the controller reports.
PersFairness ==
  /\ PerFairness
  /\ \A d \in Device : /\ WF_persVars(free /\ CadenceThread(d))
                       /\ WF_persVars(free /\ Watchdog(d))
                       /\ WF_persVars(free /\ ReportRead(d))

PersSpec == PersInit /\ [][PersNext]_persVars /\ PersFairness

-----------------------------------------------------------------------------
(* Properties.                                                              *)

\* CsOnlyInTurn is for the firmware that has turns.
CsInTurns == ~free => CsOnlyInTurn

\* "Keeps CS enabled continuously": what the watchdog disables it enables
\* again, whichever way its wait ends and whatever the cadence thread does in
\* between, unless the link is lost or the controller refuses.
KeptOn ==
  \A d \in Device :
    free /\ Orderly /\ config[d] = "enabled" /\ cs[d] = "off"
      ~> cs[d] # "off" \/ ~link[d]
=============================================================================
