------------------------ MODULE AnchorInitiatorProofs ------------------------
(***************************************************************************)
(* What an anchor of cs_ipt_multi keeps for any number of set-up stages,   *)
(* attempts and waits: it ranges only on links that are set up and in      *)
(* turns granted on them, and computes from a buffer nobody writes.        *)
(***************************************************************************)
EXTENDS AnchorInitiator, TLAPS

OnTime == ~LateConnect /\ ~SlowDisconnect

\* A request is for one of the stages, an attempt one of those allowed.
BoundInv ==
  /\ main \in {"ask", "answer"} => stage \in Stage
  /\ main \in {"set_security", "security"} => attempt < MaxAttempts

\* Without a link nothing is owed, set up, subscribed or ranging.
NoLinkInv ==
  /\ link = "none" => /\ asked = {} /\ done = {}
                      /\ ~ccc /\ ~dm /\ cs = "off"
  /\ radio \in {"connect", "both"} => link = "none"

\* A connection comes only while main waits for one.
ScanInv ==
  /\ link = "up" => link_up /\ connection
  /\ main \in {"recover", "head"} => link # "up"
  /\ main # "connect" => radio = "idle"
  /\ main = "connect" => /\ radio # "both"
                         /\ "connected" \in given => radio = "idle"
                         /\ link = "up" => "connected" \in given

\* When the loop begins again the link before has ended.
ConnectInv ==
  /\ link = "closing" => main = "recover"
  /\ main = "head" => link = "none"
  /\ main # "head" /\ "disconnected" \in given =>
       link = "none" /\ radio = "idle"
  /\ main = "connect" =>
       /\ asked = {} /\ done = {} /\ ~ccc /\ ~dm /\ stages_given = {}
       /\ given \intersect {"security", "turn"} = {}

\* On a link, what is given was given by it.
GivenInv ==
  link # "none" /\ main # "connect" =>
    /\ "security" \in given => 0 \in done
    /\ stages_given \subseteq done
    /\ "turn" \in given => turn_own

\* How far main is, on a link that is up.
Settled ==
  link = "up" =>
    /\ main \in {"setup", "ask", "answer", "dm_start", "discover"} =>
         0 .. stage - 1 \subseteq done
    /\ main \in {"dm_start", "discover"} => stage = NumStages + 1
    /\ InLoop => 0 .. NumStages \subseteq done
    /\ main = "enable" => grant_own

SetUpInv ==
  /\ ~LateConnect => ScanInv
  /\ OnTime => ConnectInv /\ GivenInv /\ Settled

\* Results of an earlier procedure do not count for the next.
ResultInv ==
  (~Preempted \/ (OnTime /\ ~LateResults)) =>
    /\ main = "enable" => "parsed" \notin given
    /\ main = "result" /\ "parsed" \in given => cs = "off"
    /\ main = "compute" => cs = "off"

GrantInv ==
  OnTime /\ ~LateResults => (cs # "off" => main = "result" /\ grant_own)

AncInv == /\ AncTypeOK /\ BoundInv /\ NoLinkInv
          /\ SetUpInv /\ ResultInv /\ GrantInv

-----------------------------------------------------------------------------

\* AncNumbers, number by number.
LEMMA Numbers ==
  /\ MaxAttempts \in Nat /\ MaxAttempts > 0
  /\ MaxNoGrant \in Nat /\ MaxNoGrant > 0
  /\ NumStages \in Nat /\ NumStages > 0
BY AncNumbers, SMT

\* main begins with nothing asked, given or done.
LEMMA InitInv == AncInit => AncInv
<1>1. AncInit => AncTypeOK
  <2> SUFFICES ASSUME AncInit PROVE AncTypeOK
    OBVIOUS
  <2>1. AncFlagsOK
    BY Zenon DEF AncInit, AncFlagsOK
  <2>2. AncSetsOK
    BY SMT DEF AncInit, AncSetsOK
  <2>3. AncStateOK
    BY Numbers, SMT DEF AncInit, AncStateOK, MainPc
  <2>4. QED
    BY <2>1, <2>2, <2>3 DEF AncTypeOK
<1>2. AncInit => BoundInv /\ NoLinkInv /\ SetUpInv
  BY SMT DEF AncInit, BoundInv, NoLinkInv, SetUpInv, ScanInv, ConnectInv,
             GivenInv, Settled, InLoop
<1>3. AncInit => ResultInv /\ GrantInv
  BY SMT DEF AncInit, ResultInv, GrantInv
<1>4. QED
  BY <1>1, <1>2, <1>3 DEF AncInv

\* The Boolean variables, apart from the rest of the type invariant.
LEMMA FlagsStep == AncFlagsOK /\ [AncNext]_ancVars => AncFlagsOK'
<1> SUFFICES ASSUME AncFlagsOK, [AncNext]_ancVars PROVE AncFlagsOK'
  OBVIOUS
<1> USE DEF AncFlagsOK, stackVars, globalVars, mainVars, histVars
<1>1. CASE Scan
  BY <1>1, ZenonT(30) DEF Scan, Match, MatchCreate, MatchError, ConnectedCb,
    ConnectFailed
<1>2. CASE Callback
  BY <1>2, ZenonT(30) DEF Callback, DisconnectedCb, Answer, DmCompleted,
    DmFails, CccLost, TurnNotify, Subevent, ProcedureComplete, ProcedureAborted
<1>3. CASE Connecting
  BY <1>3, ZenonT(30) DEF Connecting, Head, ConnectTaken, ConnectTimeout,
    Secure, SetSecurity, SecurityTaken, SecurityTimeout, Setup, Ask,
    AnswerTaken, AnswerTimeout, DmStart, DiscoverTaken, DiscoverTimeout
<1>4. CASE RangingLoop
  BY <1>4, ZenonT(30) DEF RangingLoop, Loop, TurnTaken, TurnTimeout,
    Resubscribe, RediscoverOver, Enable, ResultTaken, ResultTimeout, Computed,
    Write, Recover, Disconnect, RecoverOver
<1>5. CASE UNCHANGED ancVars
  BY <1>5, Zenon DEF ancVars
<1>6. QED
  BY <1>1, <1>2, <1>3, <1>4, <1>5 DEF AncNext

\* In the lemmas below every action is expanded, for each conjunct in turn.
USE DEF stackVars, globalVars, mainVars, histVars, ancVars, GoTo
USE DEF AncNext, Scan, Match, MatchCreate, MatchError, AttemptOver,
        ConnectedCb, ConnectFailed
USE DEF Callback, DisconnectedCb, Answer, DmCompleted, DmFails, CccLost,
        TurnNotify, Subevent, ProcedureComplete, ProcedureAborted
USE DEF Connecting, Head, ConnectTaken, ConnectTimeout, Secure, SetSecurity,
        SecurityTaken, SecurityTimeout, Setup, Ask, AnswerTaken,
        AnswerTimeout, DmStart, DiscoverTaken, DiscoverTimeout
USE DEF RangingLoop, Loop, TurnTaken, TurnTimeout, Resubscribe,
        RediscoverOver, Enable, ResultTaken, ResultTimeout, Computed,
        Write, Recover, Disconnect, RecoverOver

\* What may go wrong is chosen once.
LEMMA Unchanging == [AncNext]_ancVars => faults' = faults
BY Zenon

\* Stages and attempts stay in their bounds, and every variable in its type.
LEMMA TypeStep ==
  AncTypeOK /\ BoundInv /\ [AncNext]_ancVars => AncTypeOK' /\ BoundInv'
<1> SUFFICES ASSUME AncTypeOK, BoundInv, [AncNext]_ancVars
             PROVE  AncTypeOK' /\ BoundInv'
  OBVIOUS
<1> USE Numbers DEF AncTypeOK
<1>1. AncFlagsOK'
  BY FlagsStep
<1>2. faults' \subseteq Faults
  BY Zenon DEF AncSetsOK
<1>3. asked' \subseteq 0 .. NumStages
  BY SMT DEF AncSetsOK, BoundInv, Stage
<1>4. done' \subseteq 0 .. NumStages
  BY SMT DEF AncSetsOK, Stage
<1>5. given' \subseteq Sem
  BY SMT DEF AncSetsOK, Take, TimesOut, Sem
<1>6. stages_given' \subseteq Stage
  BY SMT DEF AncSetsOK, Stage, ResetStages
<1>7. radio' \in {"idle", "scan", "match", "connect", "both"}
  BY SMT DEF AncStateOK, ScanStop
<1>8. link' \in {"none", "up", "closing"} /\ cs' \in {"off", "on", "part"}
  BY SMT DEF AncStateOK
<1>9. main' \in MainPc
  BY SMT DEF AncStateOK, MainPc, Call, Wait
<1>10. stage' \in 1 .. NumStages + 1
  BY SMT DEF AncStateOK, AncSetsOK, Stage
<1>11. attempt' \in 0 .. MaxAttempts
  BY SMT DEF AncStateOK, BoundInv
<1>12. no_grant' \in 0 .. MaxNoGrant
  BY SMT DEF AncStateOK
<1>13. BoundInv'
  BY SMT DEF AncStateOK, BoundInv, AttemptsLeft
<1>14. QED
  BY <1>1, <1>2, <1>3, <1>4, <1>5, <1>6, <1>7, <1>8, <1>9, <1>10, <1>11,
     <1>12, <1>13 DEF AncSetsOK, AncStateOK

\* The end of a link takes all it had with it.
LEMMA NoLinkStep ==
  AncTypeOK /\ NoLinkInv /\ [AncNext]_ancVars => NoLinkInv'
<1> SUFFICES ASSUME AncTypeOK, NoLinkInv, [AncNext]_ancVars PROVE NoLinkInv'
  OBVIOUS
<1> QED
  BY SMT DEF NoLinkInv, ScanStop, AncTypeOK, AncStateOK

\* The scan is stopped as soon as main waits no more for a connection.
LEMMA ScanStep ==
  AncInv /\ ~LateConnect /\ [AncNext]_ancVars => ScanInv'
<1> SUFFICES ASSUME AncInv, ~LateConnect, [AncNext]_ancVars PROVE ScanInv'
  OBVIOUS
<1> USE DEF LateConnect, AncInv, AncTypeOK, AncStateOK, SetUpInv,
            ScanInv, NoLinkInv, Take, TimesOut
<1>1. (link = "up" => link_up /\ connection)'
  BY SMT
<1>2. (main \in {"recover", "head"} => link # "up")'
  BY SMT
<1>3. (main # "connect" => radio = "idle")'
  BY SMT DEF ScanStop
<1>4. (main = "connect" => /\ radio # "both"
                           /\ "connected" \in given => radio = "idle"
                           /\ link = "up" => "connected" \in given)'
  BY SMT DEF Kept
<1>5. QED
  BY <1>1, <1>2, <1>3, <1>4

\* main comes back to the head of its loop only after the disconnection.
LEMMA ConnectStep ==
  AncInv /\ OnTime /\ [AncNext]_ancVars => ConnectInv'
<1> SUFFICES ASSUME AncInv, OnTime, [AncNext]_ancVars PROVE ConnectInv'
  OBVIOUS
<1> USE DEF OnTime, LateConnect, SlowDisconnect, AncInv, AncTypeOK,
            AncStateOK, SetUpInv, ScanInv, ConnectInv, NoLinkInv, Take, TimesOut
<1>1. (link = "closing" => main = "recover")'
  BY SMT
<1>2. (main = "head" => link = "none")'
  BY SMT
<1>3. (main # "head" /\ "disconnected" \in given =>
         link = "none" /\ radio = "idle")'
  BY SMT DEF ScanStop, Kept
<1>4. (main = "connect" =>
         asked = {} /\ done = {} /\ ~ccc /\ ~dm /\ stages_given = {})'
  BY SMT DEF ResetStages
<1>5. (main = "connect" => given \intersect {"security", "turn"} = {})'
  BY SMT DEF Kept
<1>6. QED
  BY <1>1, <1>2, <1>3, <1>4, <1>5

\* The head's resets leave nothing given by a link before.
LEMMA GivenStep ==
  AncInv /\ OnTime /\ [AncNext]_ancVars => GivenInv'
<1> SUFFICES ASSUME AncInv, OnTime, [AncNext]_ancVars PROVE GivenInv'
  OBVIOUS
<1> USE DEF OnTime, LateConnect, SlowDisconnect, AncInv, AncTypeOK,
            AncStateOK, SetUpInv, NoLinkInv, ScanInv, ConnectInv, Take, TimesOut
<1>1. (link # "none" /\ main # "connect"
         => ("security" \in given => 0 \in done))'
  BY SMT DEF GivenInv
<1>2. (link # "none" /\ main # "connect" => stages_given \subseteq done)'
  BY SMT DEF GivenInv
<1>3. (link # "none" /\ main # "connect" => ("turn" \in given => turn_own))'
  BY SMT DEF GivenInv
<1>4. QED
  BY <1>1, <1>2, <1>3 DEF GivenInv

\* Each take of the set-up adds one stage to what has been done.
LEMMA SettledStep ==
  AncInv /\ OnTime /\ [AncNext]_ancVars => Settled'
<1> SUFFICES ASSUME AncInv, OnTime, [AncNext]_ancVars PROVE Settled'
  OBVIOUS
<1> USE Numbers DEF OnTime, LateConnect, SlowDisconnect, AncInv,
                    AncTypeOK, AncStateOK, SetUpInv, NoLinkInv, ScanInv,
                    ConnectInv, GivenInv, Take, TimesOut
<1>1. (link = "up" /\ main \in {"setup", "ask", "answer", "dm_start",
                                  "discover"}
         => 0 .. stage - 1 \subseteq done)'
  BY SMT DEF Settled
<1>2. (link = "up" /\ main \in {"dm_start", "discover"}
         => stage = NumStages + 1)'
  BY SMT DEF Settled, Stage
<1>3. (link = "up" => (InLoop => 0 .. NumStages \subseteq done))'
  BY SMT DEF Settled, InLoop
<1>4. (link = "up" => (main = "enable" => grant_own))'
  BY SMT DEF Settled
<1>5. QED
  BY <1>1, <1>2, <1>3, <1>4 DEF Settled

\* The reset before an enable leaves no result of an earlier procedure.
LEMMA ResultStep ==
  AncInv /\ [AncNext]_ancVars => ResultInv'
<1> SUFFICES ASSUME AncInv, [AncNext]_ancVars PROVE ResultInv'
  OBVIOUS
<1> USE DEF AncInv, OnTime, LateConnect, SlowDisconnect, LateResults,
            Preempted, Take, TimesOut, GrantInv
<1>1. (~Preempted \/ (OnTime /\ ~LateResults)
        => (main = "enable" => "parsed" \notin given))'
  BY SMT DEF ResultInv, TurnReset, Call
<1>2. (~Preempted \/ (OnTime /\ ~LateResults)
        => (main = "result" /\ "parsed" \in given => cs = "off"))'
  BY SMT DEF ResultInv, Call
<1>3. (~Preempted \/ (OnTime /\ ~LateResults)
        => (main = "compute" => cs = "off"))'
  BY SMT DEF ResultInv
<1>4. QED
  BY <1>1, <1>2, <1>3 DEF ResultInv

\* A procedure is enabled in a granted turn and ends in it.
LEMMA GrantStep ==
  AncInv /\ [AncNext]_ancVars => GrantInv'
<1> SUFFICES ASSUME AncInv, [AncNext]_ancVars PROVE GrantInv'
  OBVIOUS
<1> QED
  BY SMT DEF GrantInv, ResultInv, AncInv, SetUpInv, Settled, ScanInv,
             ConnectInv, OnTime, LateConnect, SlowDisconnect, LateResults, Take,
             TimesOut, NoLinkInv

HIDE DEF stackVars, globalVars, mainVars, histVars, ancVars, GoTo
HIDE DEF AncNext, Scan, Match, MatchCreate, MatchError, AttemptOver,
         ConnectedCb, ConnectFailed
HIDE DEF Callback, DisconnectedCb, Answer, DmCompleted, DmFails, CccLost,
         TurnNotify, Subevent, ProcedureComplete, ProcedureAborted
HIDE DEF Connecting, Head, ConnectTaken, ConnectTimeout, Secure, SetSecurity,
         SecurityTaken, SecurityTimeout, Setup, Ask, AnswerTaken,
         AnswerTimeout, DmStart, DiscoverTaken, DiscoverTimeout
HIDE DEF RangingLoop, Loop, TurnTaken, TurnTimeout, Resubscribe,
         RediscoverOver, Enable, ResultTaken, ResultTimeout, Computed,
         Write, Recover, Disconnect, RecoverOver

\* The inductive invariant, from the facts above.
THEOREM AncInvariant == AncSpec => []AncInv
<1>1. AncInv /\ [AncNext]_ancVars => AncInv'
  <2> SUFFICES ASSUME AncInv, [AncNext]_ancVars PROVE AncInv'
    OBVIOUS
  <2>1. AncTypeOK' /\ BoundInv' /\ NoLinkInv'
    BY TypeStep, NoLinkStep DEF AncInv
  <2>2. faults' = faults
    BY Unchanging
  <2>3. SetUpInv'
    BY <2>2, ScanStep, ConnectStep, GivenStep, SettledStep
    DEF SetUpInv, OnTime, LateConnect, SlowDisconnect
  <2>4. QED
    BY <2>1, <2>3, ResultStep, GrantStep DEF AncInv
<1>2. QED
  BY InitInv, <1>1, PTL DEF AncSpec

\* What the declarations of main.c promise of its variables, for any number of
\* stages, attempts and waits.
THEOREM AncTypeCorrect == AncSpec => []AncTypeOK
<1>1. AncInv => AncTypeOK
  BY DEF AncInv
<1>2. QED
  BY AncInvariant, <1>1, PTL

\* main takes turns only on a link whose whole set-up is done (lines 883-934).
THEOREM AncRangesWhenSetUp == AncSpec => []RangesWhenSetUp
<1>1. AncInv => RangesWhenSetUp
  <2> SUFFICES ASSUME AncInv, ~SlowDisconnect, ~LateConnect, InLoop,
                      link = "up"
               PROVE  done = 0 .. NumStages
    BY DEF RangesWhenSetUp
  <2>1. 0 .. NumStages \subseteq done
    BY DEF AncInv, SetUpInv, OnTime, Settled
  <2>2. done \subseteq 0 .. NumStages
    BY DEF AncInv, AncTypeOK, AncSetsOK
  <2>3. QED
    BY <2>1, <2>2
<1>2. QED
  BY AncInvariant, <1>1, PTL

\* A procedure is on only in a turn granted on this link (lines 961-975).
THEOREM AncRangesOnGrant == AncSpec => []RangesOnGrant
<1>1. AncInv => RangesOnGrant
  BY SMT DEF AncInv, GrantInv, OnTime, RangesOnGrant
<1>2. QED
  BY AncInvariant, <1>1, PTL

\* distance_estimates_update reads a buffer that no procedure fills
\* (lines 402-404 and 262-313).
THEOREM AncIqExclusive == AncSpec => []IqExclusive
<1>1. AncInv => IqExclusive
  BY SMT DEF AncInv, ResultInv, IqExclusive
<1>2. QED
  BY AncInvariant, <1>1, PTL

\* main does not wait in vain for the link it has (lines 874-881).
THEOREM AncNotStranded == AncSpec => []NotStranded
<1>1. AncInv => NotStranded
  BY DEF AncInv, SetUpInv, ScanInv, NotStranded
<1>2. QED
  BY AncInvariant, <1>1, PTL
=============================================================================
