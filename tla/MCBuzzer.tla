------------------------------- MODULE MCBuzzer -------------------------------
\* Instances of BuzzerLock, DoorLink and AccessManager for TLC, side by side:
\* the parts of intercom_buzzer.  They share no state, so in a behaviour only
\* one of them takes steps.
EXTENDS BuzzerLock, DoorLink, AccessManager, Battery, TLC

CONSTANT buzz    \* an endpoint
VARIABLE part    \* which of them

BuzzerInit == /\ BuzzInit /\ DoorInit /\ AccInit
              /\ part \in {"buzz", "door", "access"}
              /\ part # "buzz" => ~preempted /\ mEndpoint = buzz

BuzzerNext ==
  /\ UNCHANGED part
  /\ \/ part = "buzz" /\ BuzzNext /\ UNCHANGED <<doorVars, accVars>>
     \/ part = "door" /\ DoorNext /\ UNCHANGED <<buzzVars, accVars>>
     \/ part = "access" /\ AccNext /\ UNCHANGED <<buzzVars, doorVars>>

BuzzerSpec ==
  /\ BuzzerInit
  /\ [][BuzzerNext]_<<buzzVars, doorVars, accVars, part>>
  /\ BuzzFairness

\* What Battery's operators promise, for every voltage of the curve and around
\* it, and for sequences of pin voltages that are near each other and far apart.
ASSUME CurveOk == CurveIsSound(3200, 4300)
ASSUME ReportsOk ==
  ReportsAreClose(4, {1098, 1172, 1179, 1236, 1243, 1247, 1264, 1318})

\* A schedule table of each kind.
ThreeKinds == {<<"week", 1>>, <<"year", 1>>, <<"holiday", 0>>}
=============================================================================
