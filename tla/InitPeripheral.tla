---------------------------- MODULE InitPeripheral ----------------------------
(***************************************************************************)
(* The peripherals of ipt_swap (src/ipt_swap/init_peripheral/src/main.c),  *)
(* one for each device: the turn thread, which runs a bounded burst of     *)
(* Channel Sounding procedures for each GO; the Bluetooth RX thread, which *)
(* runs the callbacks and may block inside subevent_result_cb; the main    *)
(* thread, which computes a distance from the tones RX collected; and what *)
(* they see of the controller, its link and its procedures.                *)
(***************************************************************************)
EXTENDS IptLinks, Integers

CONSTANT Burst          \* CS_TURN_BURST, 12 in the code

ASSUME BurstIsPositive == Burst \in Nat \ {0}

VARIABLES
  link,                \* the controller's link to the hub is up
  connection,          \* line 70: connection is not NULL
  sem_turn_go, sem_burst_complete, turn_active, turn_proc_count, \* lines 65-68
  sem_estimate,        \* sem_distance_estimate_updated, line 61
  sem_parsed,          \* sem_subevent_results_parsed, line 60
  turn,                \* where the turn thread is
  cs,                  \* procedures: off, or on and the next subevent begins
                       \* one (fresh) or goes on with one (seen)
  rx,                  \* ready, or the kind of subevent RX is blocked with
  main                 \* where the main thread is

goVars == <<sem_turn_go>>
burstVars == <<sem_burst_complete, turn_active, turn_proc_count>>
iqVars == <<sem_estimate, sem_parsed>>
linkVars == <<link, connection>>
perVars == <<linkVars, goVars, burstVars, iqVars, turn, cs, rx, main, faults>>

Sem == [Device -> {0, 1}]

PerTypeOK ==
  /\ link \in [Device -> BOOLEAN]
  /\ connection \in [Device -> BOOLEAN]
  /\ sem_turn_go \in Sem
  /\ sem_burst_complete \in Sem
  /\ turn_active \in [Device -> BOOLEAN]
  /\ turn_proc_count \in [Device -> 0 .. Burst]
  /\ sem_estimate \in Sem
  /\ sem_parsed \in Sem
  /\ turn \in [Device -> {"idle", "burst", "late", "yield"}]
  /\ cs \in [Device -> {"off", "fresh", "seen"}]
  /\ rx \in [Device -> {"ready", "partial", "complete"}]
  /\ main \in [Device -> {"boot", "settings", "wait", "estimate", "exit"}]
  /\ faults \subseteq Faults

PerInit ==
  /\ link = [d \in Device |-> FALSE]
  /\ connection = [d \in Device |-> FALSE]
  /\ sem_turn_go = [d \in Device |-> 0]
  /\ sem_burst_complete = [d \in Device |-> 0]
  /\ turn_active = [d \in Device |-> FALSE]
  /\ turn_proc_count = [d \in Device |-> 0]
  /\ sem_estimate = [d \in Device |-> 1]
  /\ sem_parsed = [d \in Device |-> 0]
  /\ turn = [d \in Device |-> "idle"]
  /\ cs = [d \in Device |-> "off"]
  /\ rx = [d \in Device |-> "ready"]
  /\ main = [d \in Device |-> "boot"]
  /\ faults \in SUBSET Faults

-----------------------------------------------------------------------------
(* The link, and the callbacks of connection and disconnection.  A blocked  *)
(* RX thread runs no callback, so it neither sees a loss nor advertises.    *)

ConnectedPer(d) ==
  /\ rx[d] = "ready"
  /\ ~link[d] /\ ~connection[d]
  /\ link' = [link EXCEPT ![d] = TRUE]
  /\ connection' = [connection EXCEPT ![d] = TRUE]
  /\ main' = [main EXCEPT ![d] = IF @ = "boot" THEN "settings" ELSE @]
  /\ UNCHANGED <<goVars, burstVars, iqVars, turn, cs, rx, faults>>

\* RX has begun a procedure, or is blocked at its first subevent, and has not
\* had all of it.
InProcedure(d) == cs[d] = "seen" \/ rx[d] = "partial"

\* The controller loses the link, and its procedures with it.
LinkLostPer(d) ==
  /\ link[d]
  /\ CutShort \/ ~InProcedure(d)
  /\ link' = [link EXCEPT ![d] = FALSE]
  /\ cs' = [cs EXCEPT ![d] = "off"]
  /\ UNCHANGED <<connection, goVars, burstVars, iqVars, turn, rx, main, faults>>

\* disconnected_cb: the pointer is cleared, and advertising begins again.
DisconnectedPer(d) ==
  /\ rx[d] = "ready"
  /\ ~link[d] /\ connection[d]
  /\ connection' = [connection EXCEPT ![d] = FALSE]
  /\ UNCHANGED <<link, goVars, burstVars, iqVars, turn, cs, rx, main, faults>>

-----------------------------------------------------------------------------
(* The turn thread, lines 348-386.                                          *)

\* turn_write: a GO resets the count and wakes the turn thread (RX thread).
TurnWrite(d) ==
  /\ rx[d] = "ready"
  /\ connection[d]
  /\ turn_proc_count' = [turn_proc_count EXCEPT ![d] = 0]
  /\ sem_turn_go' = [sem_turn_go EXCEPT ![d] = 1]
  /\ UNCHANGED <<linkVars, sem_burst_complete, turn_active, iqVars, turn, cs,
                 rx, main, faults>>

GoTaken(d) == /\ turn[d] = "idle"
              /\ sem_turn_go[d] = 1
              /\ sem_turn_go' = [sem_turn_go EXCEPT ![d] = 0]

\* Procedures are enabled.  An earlier one still on makes the enable fail.
TurnStart(d) ==
  /\ GoTaken(d)
  /\ link[d] /\ connection[d]
  /\ cs[d] = "off"
  /\ turn_proc_count' = [turn_proc_count EXCEPT ![d] = 0]
  /\ turn_active' = [turn_active EXCEPT ![d] = TRUE]
  /\ cs' = [cs EXCEPT ![d] = "fresh"]
  /\ turn' = [turn EXCEPT ![d] = "burst"]
  /\ UNCHANGED <<linkVars, sem_burst_complete, iqVars, rx, main, faults>>

\* The enable fails: the thread waits for the next GO, and sends no DONE.
TurnEnableFails(d) ==
  /\ GoTaken(d)
  /\ connection[d]
  /\ turn_proc_count' = [turn_proc_count EXCEPT ![d] = 0]
  /\ turn_active' = [turn_active EXCEPT ![d] = FALSE]
  /\ UNCHANGED <<linkVars, sem_burst_complete, iqVars, turn, cs, rx, main,
                 faults>>

TurnNoConnection(d) ==
  /\ GoTaken(d)
  /\ ~connection[d]
  /\ UNCHANGED <<linkVars, burstVars, iqVars, turn, cs, rx, main, faults>>

BurstTaken(d) ==
  /\ turn[d] = "burst"
  /\ sem_burst_complete[d] = 1
  /\ sem_burst_complete' = [sem_burst_complete EXCEPT ![d] = 0]
  /\ turn' = [turn EXCEPT ![d] = "yield"]
  /\ UNCHANGED <<linkVars, goVars, turn_active, turn_proc_count, iqVars, cs, rx,
                 main, faults>>

\* The wait for the burst with K_FOREVER.
BurstForever(d) == FALSE

\* The wait of 1500 ms ends; line 375 has not run yet.
BurstTimesOut(d) ==
  /\ turn[d] = "burst"
  /\ sem_burst_complete[d] = 0
  /\ CutShort \/ ~InProcedure(d)
  /\ turn' = [turn EXCEPT ![d] = "late"]
  /\ UNCHANGED <<linkVars, goVars, burstVars, iqVars, cs, rx, main, faults>>

\* Line 375 forgotten, and as it is: turn_active is cleared after a timeout,
\* as subevent_result_cb clears it otherwise.
KeepActive(d) == UNCHANGED turn_active
ClearActive(d) ==
  turn_active' =
    [turn_active EXCEPT ![d] = IF turn[d] = "late" THEN FALSE ELSE @]

\* Lines 378-380 only for a burst that completed, and as they are.
DisableUnlessLate(d, accepted) ==
  cs' = IF accepted /\ turn[d] # "late" THEN [cs EXCEPT ![d] = "off"] ELSE cs
Disable(d, accepted) ==
  cs' = IF accepted THEN [cs EXCEPT ![d] = "off"] ELSE cs

\* Procedures are disabled, their result ignored, and the hub is notified if
\* the link is up and a buffer is free.
Yield(d, disabled, notified) ==
  /\ turn[d] \in {"late", "yield"}
  /\ disabled \/ HciErrors
  /\ notified => link[d]
  /\ CutShort \/ ~InProcedure(d)
  /\ ClearActive(d)
  /\ Disable(d, disabled)
  /\ turn' = [turn EXCEPT ![d] = "idle"]
  /\ UNCHANGED <<linkVars, goVars, sem_burst_complete, turn_proc_count, iqVars,
                 rx, main, faults>>

-----------------------------------------------------------------------------
(* subevent_result_cb, lines 261-315, in the RX thread.                     *)

\* Line 310.
BurstFull(d) == turn_proc_count[d] + 1 >= Burst

\* Lines 305-314: a complete procedure is handed to the main thread and
\* counted in the turn; the last of a burst ends the turn.
Completed(d) ==
  /\ sem_parsed' = [sem_parsed EXCEPT ![d] = 1]
  /\ \/ ~turn_active[d] /\ UNCHANGED burstVars
     \/ /\ turn_active[d]
        /\ turn_proc_count' = [turn_proc_count EXCEPT ![d] = @ + 1]
        /\ IF BurstFull(d)
             THEN /\ turn_active' = [turn_active EXCEPT ![d] = FALSE]
                  /\ sem_burst_complete' = [sem_burst_complete EXCEPT ![d] = 1]
             ELSE UNCHANGED <<turn_active, sem_burst_complete>>

\* The steps are parsed into iq; cs says what the next subevent will be.
Parsed(d, kind) ==
  /\ IF kind = "complete" THEN Completed(d)
                          ELSE UNCHANGED <<sem_parsed, burstVars>>
  /\ cs' = [cs EXCEPT ![d] = IF @ = "off" THEN "off"
                             ELSE IF kind = "complete" THEN "fresh" ELSE "seen"]

\* A subevent with results: the first of a procedure takes the tone buffer.
Subevent(d, kind) ==
  /\ rx[d] = "ready"
  /\ cs[d] = "seen" \/ (cs[d] = "fresh" /\ sem_estimate[d] = 1)
  /\ sem_estimate' = [sem_estimate EXCEPT ![d] = IF cs[d] = "fresh" THEN 0 ELSE @]
  /\ Parsed(d, kind)
  /\ UNCHANGED <<linkVars, goVars, turn, rx, main, faults>>

\* Line 295 with K_NO_WAIT, as anchor_initiator of cs_ipt_multi has it.
SubeventNoWait(d, kind) ==
  /\ rx[d] = "ready"
  /\ cs[d] = "fresh"
  /\ sem_estimate[d] = 0
  /\ Parsed(d, kind)
  /\ UNCHANGED <<linkVars, goVars, sem_estimate, turn, rx, main, faults>>

\* Line 295: the estimate of the procedure before is not done; RX blocks.
SubeventBlocks(d, kind) ==
  /\ rx[d] = "ready"
  /\ cs[d] = "fresh"
  /\ sem_estimate[d] = 0
  /\ rx' = [rx EXCEPT ![d] = kind]
  /\ UNCHANGED <<linkVars, goVars, burstVars, iqVars, turn, cs, main, faults>>

\* RX is blocked, and the main thread has nothing that will make it give.
Wedged(d) == /\ rx[d] # "ready"
             /\ sem_estimate[d] = 0
             /\ main[d] # "estimate"
             /\ sem_parsed[d] = 0 \/ main[d] = "exit"

RxResume(d) ==
  /\ rx[d] # "ready"
  /\ sem_estimate[d] = 1
  /\ sem_estimate' = [sem_estimate EXCEPT ![d] = 0]
  /\ Parsed(d, rx[d])
  /\ rx' = [rx EXCEPT ![d] = "ready"]
  /\ UNCHANGED <<linkVars, goVars, turn, main, faults>>

\* Lines 290-297: an aborted subevent is dropped, be it the last of its
\* procedure or not.
SubeventAborted(d) ==
  /\ CutShort
  /\ rx[d] = "ready"
  /\ cs[d] = "seen"
  /\ cs' = [cs EXCEPT ![d] = "fresh"]
  /\ UNCHANGED <<linkVars, goVars, burstVars, iqVars, turn, rx, main, faults>>

-----------------------------------------------------------------------------
(* The main thread, lines 694-718.                                          *)

\* bt_le_cs_set_default_settings.  If it fails main returns, and the other
\* threads go on without it.
SettingsSet(d) ==
  /\ main[d] = "settings"
  /\ main' = [main EXCEPT ![d] = "wait"]
  /\ UNCHANGED <<linkVars, goVars, burstVars, iqVars, turn, cs, rx, faults>>

SettingsFail(d) ==
  /\ HciErrors
  /\ main[d] = "settings"
  /\ main' = [main EXCEPT ![d] = "exit"]
  /\ UNCHANGED <<linkVars, goVars, burstVars, iqVars, turn, cs, rx, faults>>

EstimateBegins(d) ==
  /\ main[d] = "wait"
  /\ sem_parsed[d] = 1
  /\ sem_parsed' = [sem_parsed EXCEPT ![d] = 0]
  /\ main' = [main EXCEPT ![d] = "estimate"]
  /\ UNCHANGED <<linkVars, goVars, burstVars, sem_estimate, turn, cs, rx,
                 faults>>

\* Line 177 forgotten: too few tones, and the buffer is not given back.
EstimateDropped(d) ==
  /\ main[d] = "estimate"
  /\ main' = [main EXCEPT ![d] = "wait"]
  /\ UNCHANGED <<linkVars, goVars, burstVars, iqVars, turn, cs, rx, faults>>

\* Both ways out of distance_estimates_update give the tone buffer back.
EstimateEnds(d) ==
  /\ main[d] = "estimate"
  /\ sem_estimate' = [sem_estimate EXCEPT ![d] = 1]
  /\ main' = [main EXCEPT ![d] = "wait"]
  /\ UNCHANGED <<linkVars, goVars, burstVars, sem_parsed, turn, cs, rx, faults>>

-----------------------------------------------------------------------------
YieldAny(d) == \E disabled, notified \in BOOLEAN : Yield(d, disabled, notified)

TurnThread(d) == \/ TurnStart(d) \/ TurnEnableFails(d) \/ TurnNoConnection(d)
                 \/ BurstTaken(d) \/ BurstTimesOut(d) \/ YieldAny(d)

Settings(d) == SettingsSet(d) \/ SettingsFail(d)
Estimate(d) == EstimateBegins(d) \/ EstimateEnds(d)

Procedures(d) == \/ \E kind \in {"partial", "complete"} :
                      Subevent(d, kind) \/ SubeventBlocks(d, kind)
                 \/ SubeventAborted(d)

\* The thread that has just timed out goes on before RX runs again.
RxMayRun(d) == Preempted \/ turn[d] # "late"
GoInOrder(d) == Preempted \/ (turn[d] = "idle" /\ sem_turn_go[d] = 0)

PerNext ==
  \E d \in Device :
    \/ ConnectedPer(d) \/ LinkLostPer(d) \/ DisconnectedPer(d)
    \/ GoInOrder(d) /\ TurnWrite(d)
    \/ TurnThread(d)
    \/ RxMayRun(d) /\ (Procedures(d) \/ RxResume(d))
    \/ Settings(d) \/ Estimate(d)

\* The threads run and the timeout expires; the controller promises nothing.
PerFairness ==
  \A d \in Device : /\ WF_perVars(TurnThread(d))
                    /\ WF_perVars(Settings(d) \/ Estimate(d))
                    /\ WF_perVars(RxMayRun(d) /\ RxResume(d))

PerSpec == PerInit /\ [][PerNext]_perVars /\ PerFairness

-----------------------------------------------------------------------------
(* Properties.                                                              *)

\* Procedures are enabled only inside a turn (lines 579-583): no way out of
\* the turn thread's loop body leaves the radio ranging, unless the controller
\* refuses the disable.
CsOnlyInTurn ==
  ~HciErrors => \A d \in Device : cs[d] # "off" => turn[d] # "idle"

\* The completion the turn thread takes is that of its own burst, not one
\* left in sem_burst_complete by a burst that timed out (lines 308-313, 373),
\* provided the turn thread clears turn_active (375) before RX runs.
BurstCompleteIsOwn ==
  ~Preempted =>
    \A d \in Device :
      turn[d] = "burst" /\ sem_burst_complete[d] = 1 => ~turn_active[d]

\* The RX thread writes the tones of a procedure only while the main thread
\* is not computing a distance from them (lines 299-302, 715-717).
ToneBufferExclusive ==
  \A d \in Device :
    main[d] = "estimate" \/ sem_parsed[d] = 1 =>
      cs[d] # "seen" /\ sem_estimate[d] = 0

\* A turn ends, whatever the controller, the link and RX do (lines 371-376).
\* (Where procedures are not cut short a wait does not end within one, and
\* nothing promises the rest of it; where they are it ends at any time.)
TurnEnds ==
  \A d \in Device : CutShort /\ turn[d] # "idle" ~> turn[d] = "idle"

\* The RX thread comes out of subevent_result_cb, whose take at line 295 is with
\* K_FOREVER, provided procedures are reported whole and main does not return.
Orderly == ~CutShort /\ ~HciErrors
RxResumes == \A d \in Device : Orderly /\ rx[d] # "ready" ~> rx[d] = "ready"
=============================================================================
