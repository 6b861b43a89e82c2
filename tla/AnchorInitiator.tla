---------------------------- MODULE AnchorInitiator ----------------------------
(***************************************************************************)
(* One anchor of cs_ipt_multi (anchor_initiator/src/main.c): main's        *)
(* reconnect loop (scan, connect, secure, set Channel Sounding up,         *)
(* discover and subscribe, range on grants, recover) and the callbacks of  *)
(* the Bluetooth RX thread, which run between any two waits of main.       *)
(*                                                                         *)
(* CONFIG_BT_MAX_CONN is 1, so that there is one connection object, and    *)
(* connection says only whether the pointer to it is set.  The target and  *)
(* the two controllers answer at any time or never.                        *)
(***************************************************************************)
EXTENDS Integers

CONSTANTS
  MaxAttempts,  \* attempts at security
  MaxNoGrant,   \* waits without a turn before the subscription is renewed
  NumStages,    \* set-up requests that wait for a callback: 3
  Faults        \* what may go wrong in some behaviour

ASSUME AncNumbers == {MaxAttempts, MaxNoGrant, NumStages} \subseteq Nat \ {0}
ASSUME AncFaultsAreNamed ==
  Faults \subseteq {"late_connect", "slow_disconnect", "late_results",
                    "preempted"}

VARIABLES
  faults,       \* what may go wrong in this behaviour: it never changes
  radio,        \* the scan module: idle, scan, match, connect, or both last
  link,         \* none, up, or closing: disconnect requested
  asked,        \* security (0) and stages that are yet to be answered
  ccc,          \* does the target have this link's subscription?
  dm,           \* is a discovery under way?
  cs,           \* off; on: a procedure is enabled; part: it has sent results
  connection, link_up,
  given,        \* which semaphores, of the others, are 1
  stages_given, \* which of the three set-up semaphores are 1
  turn_value_handle,     \* is it set?
  main, stage, attempt, no_grant,
  done,         \* history: what of the set-up has been done on this link
  turn_own,     \* history: has sem_turn been given by this link?
  grant_own     \* history: was the turn under way granted on this link?

stackVars == <<radio, link, asked, ccc, dm, cs>>
globalVars == <<connection, link_up, given, stages_given, turn_value_handle>>
mainVars == <<main, stage, attempt, no_grant>>
histVars == <<done, turn_own, grant_own>>
ancVars == <<faults, stackVars, globalVars, mainVars, histVars>>

\* A connection, or the end of a scan, may come when main waits no more.
LateConnect == "late_connect" \in faults

\* A disconnection may take longer than the 3 s that main waits for it.
SlowDisconnect == "slow_disconnect" \in faults

\* A procedure may go on after the 950 ms that main waits for it.
LateResults == "late_results" \in faults

\* RX may run between a test of link_up and the call it is for.
Preempted == "preempted" \in faults

Stage == 1 .. NumStages
Sem == {"connected", "security", "discovered", "turn", "parsed",
        "disconnected"}

\* Where main is between a test of link_up and a call with connection.
Call == {"set_security", "ask", "dm_start", "unsubscribe", "enable",
         "disconnect"}
Wait == {"connect", "security", "answer", "discover", "turn", "rediscover",
         "result", "recover"}
MainPc == Call \union Wait \union {"head", "secure", "setup", "loop", "compute",
                                   "write", "lost"}

AncFlagsOK ==
  /\ ccc \in BOOLEAN /\ dm \in BOOLEAN
  /\ connection \in BOOLEAN /\ link_up \in BOOLEAN
  /\ turn_value_handle \in BOOLEAN
  /\ turn_own \in BOOLEAN /\ grant_own \in BOOLEAN

AncSetsOK ==
  /\ faults \subseteq Faults
  /\ asked \subseteq 0 .. NumStages
  /\ done \subseteq 0 .. NumStages
  /\ given \subseteq Sem
  /\ stages_given \subseteq Stage

AncStateOK ==
  /\ radio \in {"idle", "scan", "match", "connect", "both"}
  /\ link \in {"none", "up", "closing"}
  /\ cs \in {"off", "on", "part"}
  /\ main \in MainPc
  /\ stage \in 1 .. NumStages + 1
  /\ attempt \in 0 .. MaxAttempts
  /\ no_grant \in 0 .. MaxNoGrant

AncTypeOK == AncFlagsOK /\ AncSetsOK /\ AncStateOK

\* Lines 42-67.
AncInit ==
  /\ faults \in SUBSET Faults
  /\ radio = "idle"
  /\ link = "none"
  /\ asked = {}
  /\ ccc = FALSE
  /\ dm = FALSE
  /\ cs = "off"
  /\ connection = FALSE
  /\ link_up = FALSE
  /\ given = {}
  /\ stages_given = {}
  /\ turn_value_handle = FALSE
  /\ main = "head"
  /\ stage = 1
  /\ attempt = 0
  /\ no_grant = 0
  /\ done = {}
  /\ turn_own = FALSE
  /\ grant_own = FALSE

-----------------------------------------------------------------------------
(* The scan module: a match stops the scan; then a connection is begun, or  *)
(* cannot be and scan_connecting_error starts the scan again.               *)

Match ==
  /\ radio = "scan"
  /\ radio' = "match"
  /\ UNCHANGED <<faults, link, asked, ccc, dm, cs, globalVars, mainVars,
                 histVars>>

MatchCreate ==
  /\ radio = "match" /\ link = "none"
  /\ radio' = "connect"
  /\ UNCHANGED <<faults, link, asked, ccc, dm, cs, globalVars, mainVars,
                 histVars>>

MatchError ==
  /\ radio = "match"
  /\ radio' = "scan"
  /\ UNCHANGED <<faults, link, asked, ccc, dm, cs, globalVars, mainVars,
                 histVars>>

AttemptOver ==
  /\ radio \in {"connect", "both"}
  /\ radio' = IF radio = "both" THEN "scan" ELSE "idle"

ConnectedCb ==
  /\ AttemptOver
  /\ link' = "up"
  /\ connection' = TRUE
  /\ link_up' = TRUE
  /\ given' = given \union {"connected"}
  /\ UNCHANGED <<faults, asked, ccc, dm, cs, stages_given, turn_value_handle,
                 mainVars, histVars>>

\* connected_cb with an error.
ConnectFailed ==
  /\ AttemptOver
  /\ connection' = FALSE
  /\ given' = given \union {"disconnected"}
  /\ UNCHANGED <<faults, link, asked, ccc, dm, cs, link_up, stages_given,
                 turn_value_handle, mainVars, histVars>>

\* Lines 459-466; a discovery ends with an error, and the target forgets.
DisconnectedCb ==
  /\ link # "none"
  /\ Preempted \/ main \notin Call
  /\ link' = "none"
  /\ link_up' = FALSE
  /\ connection' = FALSE
  /\ given' = given \union {"disconnected"}
  /\ asked' = {} /\ done' = {}
  /\ ccc' = FALSE /\ dm' = FALSE /\ cs' = "off"
  /\ turn_own' = FALSE /\ grant_own' = FALSE
  /\ UNCHANGED <<faults, radio, stages_given, turn_value_handle, mainVars>>

-----------------------------------------------------------------------------
(* The other callbacks.                                                     *)

\* security_changed_cb and the three of the set-up.
Answer(s) ==
  /\ s \in asked
  /\ asked' = asked \ {s}
  /\ done' = done \union {s}
  /\ IF s = 0
       THEN given' = given \union {"security"} /\ UNCHANGED stages_given
       ELSE stages_given' = stages_given \union {s} /\ UNCHANGED given
  /\ UNCHANGED <<faults, radio, link, ccc, dm, cs, connection, link_up,
                 turn_value_handle, mainVars, turn_own, grant_own>>

\* turn_dm_completed.  The semaphore is given even if bt_gatt_subscribe fails.
DmCompleted(subscribed) ==
  /\ dm
  /\ dm' = FALSE
  /\ turn_value_handle' = TRUE
  /\ ccc' = (ccc \/ subscribed)
  /\ given' = given \union {"discovered"}
  /\ UNCHANGED <<faults, radio, link, asked, cs, connection, link_up,
                 stages_given, mainVars, histVars>>

\* turn_dm_completed without the characteristic, turn_dm_not_found, _error.
DmFails ==
  /\ dm
  /\ dm' = FALSE
  /\ UNCHANGED <<faults, radio, link, asked, ccc, cs, globalVars, mainVars,
                 histVars>>

\* The end of a stale link of this anchor takes the subscription with it.
CccLost ==
  /\ ccc /\ ccc' = FALSE
  /\ UNCHANGED <<faults, radio, link, asked, dm, cs, globalVars, mainVars,
                 histVars>>

\* turn_notify_cb.
TurnNotify ==
  /\ link # "none" /\ ccc
  /\ given' = given \union {"turn"}
  /\ turn_own' = TRUE
  /\ UNCHANGED <<faults, stackVars, connection, link_up, stages_given,
                 turn_value_handle, mainVars, done, grant_own>>

\* subevent_result_cb, before the last results of the procedure and with them.
\* It clears and fills the tone buffer whatever its semaphore says (line 404).
Subevent ==
  /\ cs = "on"
  /\ cs' = "part"
  /\ UNCHANGED <<faults, radio, link, asked, ccc, dm, globalVars, mainVars,
                 histVars>>

ProcedureComplete ==
  /\ cs # "off"
  /\ Preempted \/ main \notin Call
  /\ cs' = "off"
  /\ given' = given \union {"parsed"}
  /\ UNCHANGED <<faults, radio, link, asked, ccc, dm, connection, link_up,
                 stages_given, turn_value_handle, mainVars, histVars>>

ProcedureAborted ==
  /\ cs # "off"
  /\ cs' = "off"
  /\ UNCHANGED <<faults, radio, link, asked, ccc, dm, globalVars, mainVars,
                 histVars>>
-----------------------------------------------------------------------------
(* The reconnect loop, up to a link that is set up.                         *)

GoTo(pc) == main' = pc
Take(sem) == sem \in given /\ given' = given \ {sem}
TimesOut(sem) == sem \notin given /\ UNCHANGED given

\* bt_scan_stop.
ScanStop == radio' = CASE radio = "scan" -> "idle"
                       [] radio = "both" -> "connect"
                       [] OTHER -> radio

\* Lines 862-871: all semaphores but one are reset.  Before, without line 869.
TurnKept == {"parsed", "turn"}
Kept == {"parsed"}
ResetStages == stages_given' = {}

\* When the scan is not started, main is here again 500 ms later.
Head ==
  /\ main = "head"
  /\ link_up' = FALSE
  /\ given' = given \intersect Kept
  /\ ResetStages
  /\ turn_value_handle' = FALSE
  /\ turn_own' = FALSE
  /\ \/ /\ radio \in {"idle", "connect"}
        /\ radio' = IF radio = "idle" THEN "scan" ELSE "both"
        /\ GoTo("connect")
     \/ UNCHANGED <<radio, main>>
  /\ UNCHANGED <<faults, link, asked, ccc, dm, cs, connection, stage, attempt,
                 no_grant, done, grant_own>>

ConnectTaken ==
  /\ main = "connect"
  /\ Take("connected")
  /\ ScanStop
  /\ attempt' = 0
  /\ GoTo("secure")
  /\ UNCHANGED <<faults, link, asked, ccc, dm, cs, connection, link_up,
                 stages_given, turn_value_handle, stage, no_grant, histVars>>

ConnectTimeout ==
  /\ main = "connect"
  /\ TimesOut("connected")
  /\ LateConnect \/ radio \in {"idle", "scan"}
  /\ ScanStop
  /\ GoTo("head")
  /\ UNCHANGED <<faults, link, asked, ccc, dm, cs, connection, link_up,
                 stages_given, turn_value_handle, stage, attempt, no_grant,
                 histVars>>

\* Lines 887-898: up to three attempts, here two, while the link is up.
AttemptsLeft == attempt < MaxAttempts

Secure ==
  /\ main = "secure"
  /\ GoTo(IF AttemptsLeft /\ link_up THEN "set_security" ELSE "lost")
  /\ UNCHANGED <<faults, stackVars, globalVars, stage, attempt, no_grant,
                 histVars>>

SetSecurity ==
  /\ main = "set_security"
  /\ \/ /\ connection /\ link = "up"
        /\ asked' = asked \union {0}
        /\ GoTo("security")
        /\ UNCHANGED attempt
     \/ attempt' = attempt + 1 /\ GoTo("secure") /\ UNCHANGED asked
  /\ UNCHANGED <<faults, radio, link, ccc, dm, cs, globalVars, stage, no_grant,
                 histVars>>

SecurityTaken ==
  /\ main = "security"
  /\ Take("security")
  /\ stage' = 1
  /\ GoTo("setup")
  /\ UNCHANGED <<faults, stackVars, connection, link_up, stages_given,
                 turn_value_handle, attempt, no_grant, histVars>>

SecurityTimeout ==
  /\ main = "security"
  /\ TimesOut("security")
  /\ attempt' = attempt + 1
  /\ GoTo("secure")
  /\ UNCHANGED <<faults, stackVars, connection, link_up, stages_given,
                 turn_value_handle, stage, no_grant, histVars>>

\* Lines 901-925: the requests in their order, then the discovery.
Setup ==
  /\ main = "setup"
  /\ GoTo(CASE ~link_up -> "lost"
            [] link_up /\ stage \in Stage -> "ask"
            [] OTHER -> "dm_start")
  /\ UNCHANGED <<faults, stackVars, globalVars, stage, attempt, no_grant,
                 histVars>>

\* A request may be refused, and so may the settings before and after them.
Ask ==
  /\ main = "ask"
  /\ \/ /\ connection /\ link = "up"
        /\ asked' = asked \union {stage}
        /\ GoTo("answer")
     \/ GoTo("lost") /\ UNCHANGED asked
  /\ UNCHANGED <<faults, radio, link, ccc, dm, cs, globalVars, stage, attempt,
                 no_grant, histVars>>

AnswerTaken ==
  /\ main = "answer" /\ stage \in stages_given
  /\ stages_given' = stages_given \ {stage}
  /\ stage' = stage + 1
  /\ GoTo("setup")
  /\ UNCHANGED <<faults, stackVars, connection, link_up, given,
                 turn_value_handle, attempt, no_grant, histVars>>

AnswerTimeout ==
  /\ main = "answer" /\ stage \notin stages_given
  /\ GoTo("lost")
  /\ UNCHANGED <<faults, stackVars, globalVars, stage, attempt, no_grant,
                 histVars>>

DmStart ==
  /\ main = "dm_start"
  /\ \/ /\ connection /\ link = "up" /\ ~dm
        /\ dm' = TRUE
        /\ GoTo("discover")
     \/ GoTo("lost") /\ UNCHANGED dm
  /\ UNCHANGED <<faults, radio, link, asked, ccc, cs, globalVars, stage,
                 attempt, no_grant, histVars>>

DiscoverTaken ==
  /\ main = "discover"
  /\ Take("discovered")
  /\ no_grant' = 0
  /\ GoTo("loop")
  /\ UNCHANGED <<faults, stackVars, connection, link_up, stages_given,
                 turn_value_handle, stage, attempt, histVars>>

DiscoverTimeout ==
  /\ main = "discover"
  /\ TimesOut("discovered")
  /\ GoTo("lost")
  /\ UNCHANGED <<faults, stackVars, connection, link_up, stages_given,
                 turn_value_handle, stage, attempt, no_grant, histVars>>

-----------------------------------------------------------------------------
(* The ranging loop, and the recovery.                                      *)

Loop ==
  /\ main = "loop"
  /\ GoTo(IF link_up THEN "turn" ELSE "lost")
  /\ UNCHANGED <<faults, stackVars, globalVars, stage, attempt, no_grant,
                 histVars>>

\* What is reset for the turn: line 961, forgotten and as it is.
NoReset == {}
TurnReset == {"parsed"}

TurnTaken ==
  /\ main = "turn" /\ "turn" \in given
  /\ given' = given \ ({"turn"} \union IF link_up THEN TurnReset ELSE {})
  /\ no_grant' = 0
  /\ GoTo(IF link_up THEN "enable" ELSE "lost")
  /\ grant_own' = turn_own
  /\ turn_own' = FALSE
  /\ UNCHANGED <<faults, stackVars, connection, link_up, stages_given,
                 turn_value_handle, stage, attempt, done>>

\* Line 944: only if there is no subscription, and as it is.
RenewsIfUnset == no_grant + 1 >= MaxNoGrant /\ ~turn_value_handle
Renews == no_grant + 1 >= MaxNoGrant /\ link_up

TurnTimeout ==
  /\ main = "turn"
  /\ TimesOut("turn")
  /\ no_grant' = IF Renews THEN 0
                 ELSE IF no_grant < MaxNoGrant THEN no_grant + 1 ELSE no_grant
  /\ GoTo(IF Renews THEN "unsubscribe" ELSE "loop")
  /\ UNCHANGED <<faults, stackVars, connection, link_up, stages_given,
                 turn_value_handle, stage, attempt, histVars>>

Resubscribe ==
  /\ main = "unsubscribe"
  /\ ccc' = FALSE
  /\ turn_value_handle' = FALSE
  /\ given' = given \ {"discovered"}
  /\ \/ /\ connection /\ link = "up" /\ ~dm
        /\ dm' = TRUE
        /\ GoTo("rediscover")
     \/ GoTo("loop") /\ UNCHANGED dm
  /\ UNCHANGED <<faults, radio, link, asked, cs, connection, link_up,
                 stages_given, stage, attempt, no_grant, histVars>>

RediscoverOver ==
  /\ main = "rediscover"
  /\ Take("discovered") \/ TimesOut("discovered")
  /\ GoTo("loop")
  /\ UNCHANGED <<faults, stackVars, connection, link_up, stages_given,
                 turn_value_handle, stage, attempt, no_grant, histVars>>

\* The controller takes an enable when the set-up is done and none is on.
Enable ==
  /\ main = "enable"
  /\ \/ /\ connection /\ link = "up" /\ cs = "off" /\ done = 0 .. NumStages
        /\ cs' = "on"
        /\ GoTo("result")
     \/ GoTo("write") /\ UNCHANGED cs
  /\ UNCHANGED <<faults, radio, link, asked, ccc, dm, globalVars, stage,
                 attempt, no_grant, histVars>>

ResultTaken ==
  /\ main = "result"
  /\ Take("parsed")
  /\ GoTo("compute")
  /\ UNCHANGED <<faults, stackVars, connection, link_up, stages_given,
                 turn_value_handle, stage, attempt, no_grant, histVars>>

ResultTimeout ==
  /\ main = "result"
  /\ TimesOut("parsed")
  /\ LateResults \/ cs = "off"
  /\ GoTo("write")
  /\ UNCHANGED <<faults, stackVars, connection, link_up, stages_given,
                 turn_value_handle, stage, attempt, no_grant, histVars>>

\* distance_estimates_update.
Computed ==
  /\ main = "compute"
  /\ GoTo("write")
  /\ UNCHANGED <<faults, stackVars, globalVars, stage, attempt, no_grant,
                 histVars>>

\* DONE, if turn_value_handle is set.
Write ==
  /\ main = "write"
  /\ GoTo("loop")
  /\ grant_own' = FALSE
  /\ UNCHANGED <<faults, stackVars, globalVars, stage, attempt, no_grant, done,
                 turn_own>>

Recover ==
  /\ main = "lost"
  /\ GoTo(IF link_up /\ connection THEN "disconnect" ELSE "recover")
  /\ UNCHANGED <<faults, stackVars, globalVars, stage, attempt, no_grant,
                 histVars>>

Disconnect ==
  /\ main = "disconnect"
  /\ link' = IF connection /\ link = "up" THEN "closing" ELSE link
  /\ GoTo("recover")
  /\ UNCHANGED <<faults, radio, asked, ccc, dm, cs, globalVars, stage, attempt,
                 no_grant, histVars>>

\* Lines 988-990: a disconnection, or 3 s without.
RecoverOver ==
  /\ main = "recover"
  /\ \/ Take("disconnected")
     \/ TimesOut("disconnected") /\ (SlowDisconnect \/ link # "closing")
  /\ GoTo("head")
  /\ UNCHANGED <<faults, stackVars, connection, link_up, stages_given,
                 turn_value_handle, stage, attempt, no_grant, histVars>>

-----------------------------------------------------------------------------
Scan == Match \/ MatchCreate \/ MatchError \/ ConnectedCb \/ ConnectFailed

Callback == DisconnectedCb \/ (\E s \in 0 .. NumStages : Answer(s))
            \/ (\E ok \in BOOLEAN : DmCompleted(ok)) \/ DmFails \/ CccLost
            \/ TurnNotify \/ Subevent \/ ProcedureComplete \/ ProcedureAborted

Connecting == Head \/ ConnectTaken \/ ConnectTimeout \/ Secure \/ SetSecurity
              \/ SecurityTaken \/ SecurityTimeout \/ Setup \/ Ask
              \/ AnswerTaken \/ AnswerTimeout \/ DmStart \/ DiscoverTaken
              \/ DiscoverTimeout

RangingLoop == Loop \/ TurnTaken \/ TurnTimeout \/ Resubscribe
               \/ RediscoverOver \/ Enable \/ ResultTaken \/ ResultTimeout
               \/ Computed \/ Write \/ Recover \/ Disconnect \/ RecoverOver

AncNext == Scan \/ Callback \/ Connecting \/ RangingLoop

\* main runs, and its waits end.
AncSpec == /\ AncInit /\ [][AncNext]_ancVars
           /\ WF_ancVars(Connecting \/ RangingLoop)

-----------------------------------------------------------------------------
(* Properties.                                                              *)

InLoop == main \in {"loop", "turn", "unsubscribe", "rediscover", "enable",
                    "result", "compute", "write"}

\* main takes turns only on a link that is set up.  Answers that a link before
\* still owed are no matter, since the loop's head resets their semaphores
\* (lines 863-870), as long as that link has ended by then.
RangesWhenSetUp ==
  ~SlowDisconnect /\ ~LateConnect =>
    (InLoop /\ link = "up" => done = 0 .. NumStages)

\* The anchor ranges only in a turn that was granted on this link (line 829:
\* one anchor ranges per turn).
RangesOnGrant ==
  ~SlowDisconnect /\ ~LateConnect /\ ~LateResults =>
    (cs # "off" => main = "result" /\ grant_own)

\* "We serialize ranging, so the buffer isn't being read when a new procedure
\* starts" (line 402), though the take of its semaphore does not wait.
IqExclusive == ~Preempted => (main = "compute" => cs # "part")

\* A link that is up while main waits for one is announced: main never waits
\* in vain for the link it has.
NotStranded ==
  ~LateConnect => (main = "connect" /\ link = "up" => "connected" \in given)

\* An anchor that has lost its subscription asks for it again (lines 936-954).
\* Stated where the wait for results ends by itself, however long they take.
KeepsAsking ==
  (LateResults /\ InLoop /\ link = "up" /\ ~ccc)
    ~> (ccc \/ main \in {"unsubscribe", "lost"} \/ link # "up")

\* "Every wait is bounded so a mid-setup disconnect can't hang" (line 859):
\* main passes on its connection only while it has one.
NoNullConnection ==
  main \in Call \/ (main = "write" /\ turn_value_handle) => connection
=============================================================================
