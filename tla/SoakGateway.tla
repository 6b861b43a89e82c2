----------------------------- MODULE SoakGateway -----------------------------
(***************************************************************************)
(* scan_cs_soak: a gateway that scans, connects to the target, runs one    *)
(* Channel Sounding procedure, tears it down, disconnects, and so on for   *)
(* ever; with the target, which advertises again after each link.  Two     *)
(* builds of the gateway (mode_switch: scan stopped while CS runs) and two *)
(* of the roles (which side is the CS initiator) are chosen at the start.  *)
(*                                                                         *)
(* The gateway's main thread waits on semaphores that the RX thread's      *)
(* callbacks give and that nothing resets.  Links have no number: what is  *)
(* kept of former links is told apart from what is of this one.            *)
(***************************************************************************)
EXTENDS Naturals, Sequences, FiniteSets

CONSTANT Faults      \* bound: faults in a behaviour

ASSUME SoakFaultsIsNatural == Faults \in Nat

VARIABLES
  mode_switch, role,          \* the builds: "initiator" or "reflector" gateway
  scanning, want_cs, connecting, connection,     \* the gateway's globals
  link,            \* none, creating, up, or closing
  sem,             \* the gateway's semaphores that are given
  main, arg,       \* its main thread; is conn of run_cs_cycle this link?
  due,             \* is an answer to main's request due?
  done, completed, \* of this cycle; history: of this link
  proc,            \* this link's procedure
  iq,              \* whose tones the initiator's buffer has
  adv, target,     \* does the target advertise?  its main thread
  enabler,         \* sem_enable_procedures and sem_ifft_compute are given
  faults, harm     \* history: the number of faults, and their kinds

buildVars == <<mode_switch, role>>
scanVars == <<scanning, want_cs>>
linkVars == <<connecting, connection, link>>
mainVars == <<main, arg, done>>
procVars == <<proc, completed, iq>>
targetVars == <<adv, target, enabler>>
faultVars == <<faults, harm>>
soakVars == <<buildVars, scanVars, linkVars, sem, mainVars, due, procVars,
              targetVars, faultVars>>

\* What run_cs_cycle asks for before it uses the procedure, in order.
Stages == <<"acl_encrypted", "remote_caps", "config_created", "cs_security">>
Ask == {"ask1", "ask2", "ask3", "ask4"}
AskAt(n) == <<"ask1", "ask2", "ask3", "ask4", "enable">>[n]
WaitAt(n) == <<"wait1", "wait2", "wait3", "wait4">>[n]
Sems == {Stages[n] : n \in DOMAIN Stages} \cup
        {"connected", "disconnected", "procedure_done", "procedure_disabled"}

SoakTypeOK ==
  /\ mode_switch \in BOOLEAN /\ role \in {"initiator", "reflector"}
  /\ scanning \in BOOLEAN /\ want_cs \in BOOLEAN
  /\ connecting \in BOOLEAN /\ connection \in BOOLEAN
  /\ link \in {"none", "creating", "up", "closing"}
  /\ sem \subseteq Sems
  /\ main \in {"idle", "enable", "procedure", "compute", "disable", "disabled",
               "remove", "hangup", "gone"} \cup Ask
              \cup {WaitAt(n) : n \in DOMAIN Stages}
  /\ arg \in BOOLEAN /\ due \in BOOLEAN /\ done \in BOOLEAN
  /\ completed \in BOOLEAN
  /\ proc \in {"none", "ready", "first", "last", "ending"}
  /\ iq \subseteq {"this", "former"}
  /\ adv \in BOOLEAN /\ target \in {"connected", "disconnected"}
  /\ enabler \subseteq {"enable", "compute"}
  /\ faults \in 0 .. Faults
  /\ harm \subseteq {"lost", "late", "refused", "aborted", "scan"}

SoakInit ==
  /\ mode_switch \in BOOLEAN /\ role \in {"initiator", "reflector"}
  /\ scanning = TRUE /\ want_cs = FALSE
  /\ connecting = FALSE /\ connection = FALSE /\ link = "none"
  /\ sem = {} /\ main = "idle" /\ arg = FALSE /\ due = FALSE
  /\ done = FALSE /\ completed = FALSE
  /\ proc = "none" /\ iq = {}
  /\ adv = TRUE /\ target = "connected" /\ enabler = {}
  /\ faults = 0 /\ harm = {}

Faulty(kinds) == /\ faults + Cardinality(kinds) <= Faults
                 /\ faults' = faults + Cardinality(kinds)
                 /\ harm' = harm \cup kinds
Fault(kind) == Faulty({kind})
NoFault == UNCHANGED faultVars
TimeUp(answer) == IF answer THEN Fault("late") ELSE NoFault
Give(name) == sem' = sem \cup {name}
Take(name) == name \in sem /\ sem' = sem \ {name}

-----------------------------------------------------------------------------
(* Scanning and connecting, on the RX thread.                               *)

\* resume_scan of the mode switch: a failure is only printed.  A scanner that
\* runs already refuses too.
ResumeScan == \/ scanning' = TRUE /\ NoFault
              \/ scanning' = scanning /\ ~scanning /\ Fault("scan")
GatewayScans == UNCHANGED scanning /\ NoFault
Restart == IF mode_switch THEN ResumeScan ELSE GatewayScans

\* No connection is made: the scan goes on, or is resumed, which may fail too.
NoConnection ==
  /\ want_cs' = (want_cs /\ ~mode_switch)
  /\ \/ scanning' = TRUE /\ Fault("refused")
     \/ mode_switch /\ scanning' = FALSE /\ Faulty({"refused", "scan"})

\* cs_trigger, the mode switch's timer.
Trigger ==
  /\ mode_switch /\ ~want_cs
  /\ want_cs' = TRUE
  /\ UNCHANGED <<buildVars, scanning, linkVars, sem, mainVars, due, procVars,
                 targetVars, faultVars>>

\* device_found.  The mode switch stops the scanner first.
Found == /\ scanning /\ adv /\ link = "none"
         /\ ~connection /\ ~connecting
         /\ mode_switch => want_cs
FoundFrame == UNCHANGED <<buildVars, sem, mainVars, due, procVars, targetVars>>

DeviceFound ==
  /\ Found
  /\ connecting' = TRUE /\ connection' = TRUE /\ link' = "creating"
  /\ scanning' = ~mode_switch
  /\ UNCHANGED want_cs
  /\ FoundFrame /\ NoFault

\* bt_conn_le_create fails; with the mode switch the scan is resumed at once.
CreateFails ==
  /\ Found
  /\ NoConnection
  /\ FoundFrame /\ UNCHANGED linkVars

\* connected_cb of both sides.  What was this link's is a former link's.
Connected ==
  /\ link = "creating"
  /\ link' = "up"
  /\ Give("connected")
  /\ adv' = FALSE
  /\ arg' = FALSE /\ completed' = FALSE /\ proc' = "none"
  /\ iq' = IF iq = {} THEN {} ELSE {"former"}
  /\ UNCHANGED <<buildVars, scanVars, connecting, connection, main, done, due,
                 target, enabler, faultVars>>

ConnectFails ==
  /\ link = "creating"
  /\ link' = "none" /\ connection' = FALSE /\ connecting' = FALSE
  /\ NoConnection
  /\ UNCHANGED <<buildVars, sem, mainVars, due, procVars, targetVars>>

\* disconnected_cb, of both sides, asked for or not.  A wait for encryption is
\* answered by security_changed_cb with an error.
Disconnected ==
  /\ link \in {"up", "closing"}
  /\ IF link = "up" THEN Fault("lost") ELSE NoFault
  /\ link' = "none" /\ connection' = FALSE
  /\ sem' = sem \cup {"disconnected"}
              \cup IF due /\ main = "wait1" THEN {"acl_encrypted"} ELSE {}
  /\ due' = FALSE
  /\ proc' = "none"
  /\ UNCHANGED <<buildVars, scanVars, connecting, mainVars, completed, iq,
                 targetVars>>

-----------------------------------------------------------------------------
(* The target.                                                              *)

TargetFrame == UNCHANGED <<buildVars, scanVars, linkVars, sem, mainVars, due>>

\* Its main thread takes sem_connected, sets its role, and takes
\* sem_disconnected; then it advertises again.
TargetConnected ==
  /\ target = "connected" /\ ~adv
  /\ target' = "disconnected"
  /\ TargetFrame /\ NoFault
  /\ UNCHANGED <<procVars, adv, enabler>>

TargetAdvertises ==
  /\ target = "disconnected" /\ link = "none"
  /\ target' = "connected" /\ adv' = TRUE
  /\ TargetFrame /\ NoFault
  /\ UNCHANGED <<procVars, enabler>>

\* enable_thread, when the target is the CS initiator.
EnableThread ==
  /\ "enable" \in enabler
  /\ enabler' = enabler \ {"enable"}
  /\ proc' = IF link = "up" /\ proc = "ready" THEN "first" ELSE proc
  /\ TargetFrame /\ NoFault
  /\ UNCHANGED <<completed, iq, adv, target>>

\* cs_ifft_compute_print leaves an empty buffer, or does not.
NotCleared == UNCHANGED iq
Cleared == iq' = {}

IfftThread ==
  /\ "compute" \in enabler
  /\ enabler' = enabler \ {"compute"}
  /\ Cleared
  /\ TargetFrame /\ NoFault
  /\ UNCHANGED <<proc, completed, adv, target>>

-----------------------------------------------------------------------------
(* The answers to main's requests, and the procedure's results.             *)

AnswerFrame == UNCHANGED <<buildVars, scanVars, linkVars, mainVars, completed,
                           iq, adv, target>>

\* The callbacks of both sides.  With CS security the procedure may start; the
\* target's cs_security_enable_cb has its thread enable it.
AnswerOk(n) ==
  /\ due /\ main = WaitAt(n)
  /\ due' = FALSE
  /\ Give(Stages[n])
  /\ IF n = 4 THEN /\ proc' = "ready"
                   /\ enabler' = IF role = "reflector"
                                   THEN enabler \cup {"enable"} ELSE enabler
              ELSE UNCHANGED <<proc, enabler>>
  /\ AnswerFrame /\ NoFault

\* Only encryption tells main of its failure.
AnswerFails(n) ==
  /\ due /\ main = WaitAt(n)
  /\ due' = FALSE
  /\ IF n = 1 THEN Give("acl_encrypted") ELSE UNCHANGED sem
  /\ Fault("refused")
  /\ AnswerFrame /\ UNCHANGED <<proc, enabler>>

ProcFrame == UNCHANGED <<buildVars, scanVars, linkVars, mainVars, due, adv,
                         target>>

\* subevent_result_cb and cs_ifft_accumulate.  On every link of this soak the
\* procedure has the same counter, so the buffer is not emptied for it.
FirstSubevent ==
  /\ proc = "first"
  /\ proc' = "last"
  /\ iq' = iq \cup {"this"}
  /\ ProcFrame /\ NoFault
  /\ UNCHANGED <<sem, completed, enabler>>

LastSubevent ==
  /\ proc = "last"
  /\ proc' = "ending" /\ completed' = TRUE
  /\ iq' = iq \cup {"this"}
  /\ Give("procedure_done")
  /\ enabler' = IF role = "reflector" THEN enabler \cup {"compute"} ELSE enabler
  /\ ProcFrame /\ NoFault

Aborted ==
  /\ proc \in {"first", "last"}
  /\ proc' = "ending"
  /\ Fault("aborted")
  /\ ProcFrame /\ UNCHANGED <<sem, completed, iq, enabler>>

\* procedure_enable_cb, state 0: max_procedure_count is reached, or asked for.
Disabled ==
  /\ proc = "ending"
  /\ proc' = "ready"
  /\ Give("procedure_disabled")
  /\ ProcFrame /\ NoFault
  /\ UNCHANGED <<completed, iq, enabler>>

-----------------------------------------------------------------------------
(* main and run_cs_cycle.                                                   *)

MainFrame == UNCHANGED <<buildVars, want_cs, linkVars, procVars, targetVars>>
Here == UNCHANGED <<scanning, arg>> /\ MainFrame

\* run_cs_cycle(connection), which a disconnection may have made NULL: the
\* requests are refused then, as they are on a link that is lost.
MainConnected ==
  /\ main = "idle" /\ Take("connected")
  /\ main' = "ask1" /\ arg' = connection
  /\ done' = FALSE
  /\ UNCHANGED <<scanning, due>> /\ MainFrame /\ NoFault

Request(n) ==
  /\ main = AskAt(n)
  /\ IF arg /\ link = "up" THEN main' = WaitAt(n) /\ due' = TRUE
                           ELSE main' = "hangup" /\ UNCHANGED due
  /\ UNCHANGED <<sem, done>> /\ Here /\ NoFault

Wait(n) ==
  /\ main = WaitAt(n) /\ Take(Stages[n])
  /\ main' = AskAt(n + 1)
  /\ UNCHANGED <<due, done>> /\ Here /\ NoFault

WaitTimeout(n) ==
  /\ main = WaitAt(n) /\ Stages[n] \notin sem
  /\ main' = "hangup" /\ due' = FALSE
  /\ TimeUp(due)
  /\ UNCHANGED <<sem, done>> /\ Here

\* The gateway enables the procedure when it is the CS initiator.
Enable ==
  /\ main = "enable"
  /\ IF role = "reflector" THEN main' = "procedure" /\ UNCHANGED proc
     ELSE IF arg /\ link = "up" /\ proc = "ready"
       THEN main' = "procedure" /\ proc' = "first"
       ELSE main' = "hangup" /\ UNCHANGED proc
  /\ UNCHANGED <<buildVars, scanVars, linkVars, completed, iq, targetVars, sem,
                 arg, due, done>> /\ NoFault

\* The reflector's gateway neither computes nor disables.
ProcedureDone ==
  /\ main = "procedure" /\ Take("procedure_done")
  /\ main' = IF role = "initiator" THEN "compute" ELSE "remove"
  /\ done' = TRUE
  /\ UNCHANGED due /\ Here /\ NoFault

\* A time-out is no success.
Misses == UNCHANGED done

ProcedureTimeout ==
  /\ main = "procedure" /\ "procedure_done" \notin sem
  /\ main' = IF role = "initiator" THEN "disable" ELSE "remove"
  /\ TimeUp(proc \in {"first", "last"} \/ "enable" \in enabler)
  /\ Misses
  /\ UNCHANGED <<sem, due>> /\ Here

Compute ==
  /\ main = "compute" /\ main' = "disable"
  /\ Cleared
  /\ UNCHANGED <<buildVars, scanVars, linkVars, proc, completed, targetVars,
                 sem, arg, due, done>> /\ NoFault

\* Disabling what is disabled, or no link's, is refused and tolerated.
Disable ==
  /\ main = "disable" /\ main' = "disabled"
  /\ proc' = IF arg /\ proc \in {"first", "last"} THEN "ending" ELSE proc
  /\ UNCHANGED <<buildVars, scanVars, linkVars, completed, iq, targetVars, sem,
                 arg, due, done>> /\ NoFault

\* The wait for procedure_disabled before the configuration is removed.
GoesOn == "procedure_disabled" \in sem

DisableDone ==
  /\ main = "disabled" /\ GoesOn
  /\ main' = "remove" /\ sem' = sem \ {"procedure_disabled"}
  /\ UNCHANGED <<due, done>> /\ Here /\ NoFault

DisableTimeout ==
  /\ main = "disabled" /\ ~GoesOn
  /\ main' = "remove"
  /\ TimeUp(proc = "ending")
  /\ UNCHANGED <<sem, due, done>> /\ Here

Remove ==
  /\ main = "remove" /\ main' = "hangup"
  /\ UNCHANGED <<sem, due, done>> /\ Here /\ NoFault

Hangup ==
  /\ main = "hangup" /\ main' = "gone"
  /\ link' = IF connection /\ link = "up" THEN "closing" ELSE link
  /\ UNCHANGED <<buildVars, scanVars, connecting, connection, sem, arg, due,
                 done, procVars, targetVars>> /\ NoFault

\* The end of a cycle, with sem_disconnected or 5 s later.
Ends ==
  /\ main = "gone" /\ main' = "idle"
  /\ connecting' = FALSE
  /\ want_cs' = (want_cs /\ ~mode_switch)
  /\ UNCHANGED <<buildVars, connection, link, arg, due, done, procVars,
                 targetVars>>

CycleEnds == Take("disconnected") /\ Restart /\ Ends

CycleTimesOut ==
  /\ "disconnected" \notin sem /\ UNCHANGED sem
  /\ LET late == IF link = "closing" THEN {"late"} ELSE {} IN
       \/ scanning' = (scanning \/ mode_switch) /\ Faulty(late)
       \/ mode_switch /\ ~scanning /\ UNCHANGED scanning
          /\ Faulty(late \cup {"scan"})
  /\ Ends

Main ==
  \/ MainConnected \/ Enable \/ ProcedureDone \/ ProcedureTimeout \/ Compute
  \/ Disable \/ DisableDone \/ DisableTimeout \/ Remove \/ Hangup \/ CycleEnds
  \/ CycleTimesOut
  \/ \E n \in DOMAIN Stages : Request(n) \/ Wait(n) \/ WaitTimeout(n)

Air == \/ Connected \/ ConnectFails \/ (link = "closing" /\ Disconnected)
       \/ FirstSubevent \/ LastSubevent \/ Aborted \/ Disabled
       \/ \E n \in DOMAIN Stages : AnswerOk(n) \/ AnswerFails(n)

Target == TargetConnected \/ TargetAdvertises \/ EnableThread \/ IfftThread

SoakNext == Trigger \/ DeviceFound \/ CreateFails \/ Disconnected \/ Main \/ Air
            \/ Target

\* The threads run, what is under way arrives, the timer fires, and a target
\* that advertises is found while the gateway scans.
SoakFairness == /\ WF_soakVars(Main) /\ WF_soakVars(Air) /\ WF_soakVars(Target)
                /\ WF_soakVars(Trigger) /\ WF_soakVars(DeviceFound)

SoakSpec == SoakInit /\ [][SoakNext]_soakVars /\ SoakFairness

-----------------------------------------------------------------------------
(* Properties.                                                              *)

\* run_cs_cycle "returns 0 if at least one procedure completed": one of this
\* cycle's link, unless some answer came after its wait and was left over.
OkIsOwn == main = "hangup" /\ done /\ "late" \notin harm => completed

\* When the initiator computes, no tone of a former link is in its buffer,
\* unless a procedure was left unfinished: by an abort, a late answer or a
\* lost link.
TonesAreOwn ==
  main = "compute" /\ harm \cap {"lost", "late", "aborted"} = {} =>
    iq = {"this"}

\* The types; and what a cycle counts and computes is its own link's, though
\* nothing resets the semaphores or empties the buffer between two links.
SoakSafe == SoakTypeOK /\ OkIsOwn /\ TonesAreOwn

\* README: "the loop never stalls" and "the scanner never wedges".  Whatever
\* finitely many faults there are, but for a scan restart that fails, the
\* gateway scans again and again and goes on running cycles.
NeverStalls ==
  []("scan" \notin harm) => []<>scanning /\ []<>(main = "ask1")
=============================================================================
