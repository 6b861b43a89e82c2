--------------------------- MODULE RasCycleProofs ---------------------------
(***************************************************************************)
(* One initiator of cs_ras_multi, for any number of procedures, subevents  *)
(* and faults: a distance comes from the steps of one procedure, this      *)
(* turn's, on both sides.  And the window, the parsing and the clamps of   *)
(* all five initiators (RangeEstimate), for any inputs.                    *)
(***************************************************************************)
EXTENDS RasCycle, RangeEstimate, FiniteSetTheorems, SequenceTheorems, TLAPS

\* main's set-up is over before the acquisition thread runs, and the link is
\* there since.
SetUp ==
  /\ main # 1 \/ "connected" \in sem => link
  /\ acq # "idle" => main = Ready

\* The subevents of the running procedure that were kept, and of the one whose
\* steps are latest_local_steps.
KeptSoFar == {<<running, k>> : k \in (1 .. part - 1) \ unusable}
AllKept == {<<issued, k>> : k \in Part \ unusable}

\* The controller runs the last procedure that was issued, or none; the peer
\* announces it when its subevents are over.
Procedure ==
  /\ running \in {None, issued}
  /\ running # None => unusable \subseteq 1 .. part - 1
  /\ ready \subseteq {issued}
  /\ ready # {} => part = Subevents + 1
  /\ running # None /\ part \in Part => dropped = running \/ local = KeptSoFar
  /\ most_recent_local # None /\ most_recent_local = issued =>
       part = Subevents + 1 /\ local = AllKept

\* Nothing of the procedure is to come but its end.
Ended == running = None \/ part = Subevents + 1

\* What a turn has seen when the acquisition thread is at its n-th wait.
Turn ==
  /\ acq = "start" => /\ running = None /\ sem \cap Resets = {}
                      /\ most_recent_local = None
  /\ acq \notin {"done", "ready"} => ready = {}
  /\ acq \notin {"start", "done"} => Ended
  /\ acq = "done" => /\ "procedure_done" \in sem => Ended
                     /\ "procedure_done" \notin sem /\ running = None => ready = {}
  /\ acq \in {"done", "ready"} /\ "rd_ready" \in sem =>
       /\ most_recent_peer = issued /\ issued # None
       /\ ready = {} /\ part = Subevents + 1
  /\ acq \in {"match", "get", "complete", "estimate"} =>
       most_recent_peer = issued /\ issued # None
  /\ acq \in {"get", "complete", "estimate"} => most_recent_local = issued

\* The peer's data is fetched in one state only, and is this procedure's.
Fetch ==
  /\ acq # "complete" => fetching = None
  /\ acq \in {"done", "ready", "match", "get"} => "rd_complete" \notin sem
  /\ acq = "complete" /\ fetching # None =>
       fetching = issued /\ "rd_complete" \notin sem
  /\ acq = "complete" /\ fetching = None =>
       "rd_complete" \in sem /\ (ranging_data_err \/ peer = issued)
  /\ acq = "estimate" => peer = issued

CycIInv ==
  /\ CycTypeOK
  /\ harm = {} => SetUp /\ Procedure /\ Turn /\ Fetch

-----------------------------------------------------------------------------
(* Names.                                                                   *)

LEMMA SetUpNames ==
  /\ Ready = 9 /\ DOMAIN SetUpWaits = 1 .. 8
  /\ SetUpWaits[1] = "connected"
  /\ \A w \in 1 .. 8 :
       SetUpWaits[w] \in {"connected", "security", "mtu_exchange", "discovery",
                         "sync", "rrq_capabilites", "create_config",
                         "cs_security"}
  /\ Sems = {"connected", "security", "mtu_exchange", "discovery", "sync",
             "rrq_capabilites", "create_config", "cs_security",
             "procedure_done", "procedure_disabled", "rd_ready", "rd_complete",
             "local_steps"}
<1>1. /\ Ready = 9 /\ DOMAIN SetUpWaits = 1 .. 8
      /\ SetUpWaits[1] = "connected" /\ SetUpWaits[2] = "security"
      /\ SetUpWaits[3] = "mtu_exchange" /\ SetUpWaits[4] = "discovery"
      /\ SetUpWaits[5] = "sync" /\ SetUpWaits[6] = "rrq_capabilites"
      /\ SetUpWaits[7] = "create_config" /\ SetUpWaits[8] = "cs_security"
  BY DEF Ready, SetUpWaits
<1>2. \A w \in 1 .. 8 : w \in {1, 2, 3, 4, 5, 6, 7, 8}
  OBVIOUS
<1> QED BY <1>1, <1>2 DEF Sems, CycleSems

\* A step counts its faults within the bound and remembers their kinds.
LEMMA TimeIsUp ==
  ASSUME CycTypeOK, NEW due \in BOOLEAN, TimeUp(due)
  PROVE  /\ faults' \in 0 .. Faults
         /\ harm' \subseteq {"lost", "late", "refused"}
         /\ harm' = IF due THEN harm \cup {"late"} ELSE harm
<1>1. CASE due
  <2>1. Fault("late")
    BY <1>1 DEF TimeUp
  <2> QED
    BY <1>1, <2>1, CycleFaultsIsNatural DEF CycTypeOK, Fault
<1>2. CASE ~due
  BY <1>2 DEF CycTypeOK, TimeUp, faultVars
<1> QED BY <1>1, <1>2

LEMMA CycInitInv == CycInit => CycIInv
<1> SUFFICES ASSUME CycInit PROVE CycIInv OBVIOUS
<1>1. CycTypeOK
  <2>1. /\ link \in BOOLEAN /\ own \in BOOLEAN /\ asked \in BOOLEAN
        /\ start_ranging \in BOOLEAN /\ ranging_data_err \in BOOLEAN
    BY Zenon DEF CycInit
  <2> QED
    BY <2>1, MaxProcIsPositive, SubeventsIsPositive, CycleFaultsIsNatural,
       SetUpNames
       DEF CycInit, CycTypeOK, None, Counter, Part, Idle
<1>2. SetUp /\ Procedure
  BY SubeventsIsPositive DEF CycInit, SetUp, Procedure, None
<1>3. Turn /\ Fetch
  BY DEF CycInit, Turn, Fetch, Ended
<1> QED BY <1>1, <1>2, <1>3 DEF CycIInv

-----------------------------------------------------------------------------
(* The link and main's set-up.                                              *)

LEMMA ConnectedStep == CycIInv /\ Connected => CycIInv'
<1> SUFFICES ASSUME CycIInv, Connected PROVE CycIInv' OBVIOUS
<1>1. CycTypeOK'
  BY MaxProcIsPositive, SubeventsIsPositive, CycleFaultsIsNatural, SetUpNames
     DEF CycIInv, CycTypeOK, InTurn, Idle, Resets, None, Counter, Part,
         Connected, Give, procVars, dataVars, fetchVars, faultVars
<1>2. SUFFICES ASSUME harm' = {}
               PROVE  SetUp' /\ Procedure' /\ Turn' /\ Fetch'
  BY <1>1 DEF CycIInv
<1>3. CycTypeOK /\ SetUp /\ Procedure /\ Turn /\ Fetch
  BY <1>2
     DEF CycIInv, Connected, Give, procVars, dataVars, fetchVars, faultVars
<1>4. SetUp' /\ Procedure' /\ Turn' /\ Fetch'
  BY <1>2, <1>3, SubeventsIsPositive, SetUpNames
     DEF CycTypeOK, SetUp, Procedure, Turn, Fetch, Ended, KeptSoFar, AllKept,
         Resets, None, Part, Connected, Give, procVars, dataVars, fetchVars,
         faultVars
<1> QED BY <1>4

LEMMA DisconnectedStep == CycIInv /\ Disconnected => CycIInv'
<1> SUFFICES ASSUME CycIInv, Disconnected PROVE CycIInv' OBVIOUS
<1>1. CycTypeOK'
  <2>1. /\ link' \in BOOLEAN /\ own' \in BOOLEAN /\ asked' \in BOOLEAN
        /\ start_ranging' \in BOOLEAN /\ ranging_data_err' \in BOOLEAN
    BY Zenon
       DEF CycIInv, CycTypeOK, Disconnected, Fault
  <2>2. main' \in 1 .. Ready /\ sem' \subseteq Sems /\ acq' \in Idle \cup InTurn
    BY SetUpNames
       DEF CycIInv, CycTypeOK, InTurn, Idle, Resets, Disconnected, Fault
  <2>3. faults' \in 0 .. Faults /\ harm' \subseteq {"lost", "late", "refused"}
    BY CycleFaultsIsNatural
       DEF CycIInv, CycTypeOK, Disconnected, Fault
  <2>4. /\ running' \in Counter /\ issued' \in Counter
        /\ part' \in 1 .. Subevents + 1 /\ unusable' \subseteq Part
        /\ ready' \subseteq 1 .. MaxProc /\ fetching' \in Counter /\ peer' \in Counter
        /\ {most_recent_local, most_recent_peer, dropped}' \subseteq Counter
    BY MaxProcIsPositive, SubeventsIsPositive
       DEF CycIInv, CycTypeOK, None, Counter, Part, Disconnected, Fault
  <2>5. local' \subseteq Counter \X Part
    BY DEF CycIInv, CycTypeOK, Disconnected, Fault
  <2> QED BY <2>1, <2>2, <2>4, <2>5, <2>3 DEF CycTypeOK
<1>2. harm' # {}
  BY DEF Disconnected, Fault
<1> QED BY <1>1, <1>2 DEF CycIInv

LEMMA AnswerOkStep == CycIInv /\ AnswerOk => CycIInv'
<1> SUFFICES ASSUME CycIInv, AnswerOk PROVE CycIInv' OBVIOUS
<1>1. CycTypeOK'
  <2>1. /\ link' \in BOOLEAN /\ own' \in BOOLEAN /\ asked' \in BOOLEAN
        /\ start_ranging' \in BOOLEAN /\ ranging_data_err' \in BOOLEAN
    BY Zenon
       DEF CycIInv, CycTypeOK, AnswerOk, Give, Tells, linkVars, procVars,
           dataVars, fetchVars, faultVars
  <2>2. main' \in 1 .. Ready
    BY SetUpNames
       DEF CycIInv, CycTypeOK, AnswerOk, Give, Tells, linkVars, procVars,
           dataVars, fetchVars, faultVars
  <2>3. main \in 1 .. 8
    BY SetUpNames
       DEF CycIInv, CycTypeOK, AnswerOk, Give, Tells, linkVars, procVars,
           dataVars, fetchVars, faultVars
  <2>4. SetUpWaits[main] \in Sems
    BY <2>3, SetUpNames
  <2>5. main' \in 1 .. Ready /\ sem' \subseteq Sems /\ acq' \in Idle \cup InTurn
    BY <2>2, <2>4
       DEF CycIInv, CycTypeOK, AnswerOk, Give, Tells, linkVars, procVars,
           dataVars, fetchVars, faultVars
  <2>6. faults' \in 0 .. Faults /\ harm' \subseteq {"lost", "late", "refused"}
    BY CycleFaultsIsNatural
       DEF CycIInv, CycTypeOK, AnswerOk, Give, Tells, linkVars, procVars,
           dataVars, fetchVars, faultVars
  <2>7. /\ running' \in Counter /\ issued' \in Counter
        /\ part' \in 1 .. Subevents + 1 /\ unusable' \subseteq Part
        /\ ready' \subseteq 1 .. MaxProc /\ fetching' \in Counter /\ peer' \in Counter
        /\ {most_recent_local, most_recent_peer, dropped}' \subseteq Counter
    BY MaxProcIsPositive, SubeventsIsPositive
       DEF CycIInv, CycTypeOK, None, Counter, Part, AnswerOk, Give, Tells,
           linkVars, procVars, dataVars, fetchVars, faultVars
  <2>8. local' \subseteq Counter \X Part
    BY DEF CycIInv, CycTypeOK, AnswerOk, Give, Tells, linkVars, procVars,
           dataVars, fetchVars, faultVars
  <2> QED BY <2>1, <2>5, <2>7, <2>8, <2>6 DEF CycTypeOK
<1>2. SUFFICES ASSUME harm' = {}
               PROVE  SetUp' /\ Procedure' /\ Turn' /\ Fetch'
  BY <1>1 DEF CycIInv
<1>3. CycTypeOK /\ SetUp /\ Procedure /\ Turn /\ Fetch
  BY <1>2
     DEF CycIInv, AnswerOk, Give, Tells, linkVars, procVars, dataVars,
         fetchVars, faultVars
<1>4. SetUp' /\ Procedure' /\ Turn' /\ Fetch'
  BY <1>2, <1>3, SubeventsIsPositive, SetUpNames
     DEF CycTypeOK, SetUp, Procedure, Turn, Fetch, Ended, KeptSoFar, AllKept,
         Resets, None, Part, AnswerOk, Give, Tells, linkVars, procVars,
         dataVars, fetchVars, faultVars
<1> QED BY <1>4

LEMMA AnswerFailedStep == CycIInv /\ AnswerFailed => CycIInv'
<1> SUFFICES ASSUME CycIInv, AnswerFailed PROVE CycIInv' OBVIOUS
<1>1. CycTypeOK'
  <2>1. /\ link' \in BOOLEAN /\ own' \in BOOLEAN /\ asked' \in BOOLEAN
        /\ start_ranging' \in BOOLEAN /\ ranging_data_err' \in BOOLEAN
    BY Zenon
       DEF CycIInv, CycTypeOK, AnswerFailed, Fault, Give, linkVars, procVars,
           dataVars, fetchVars
  <2>2. main' \in 1 .. Ready /\ sem' \subseteq Sems /\ acq' \in Idle \cup InTurn
    BY SetUpNames
       DEF CycIInv, CycTypeOK, InTurn, Idle, Resets, AnswerFailed, Fault,
           Give, linkVars, procVars, dataVars, fetchVars
  <2>3. faults' \in 0 .. Faults /\ harm' \subseteq {"lost", "late", "refused"}
    BY CycleFaultsIsNatural
       DEF CycIInv, CycTypeOK, AnswerFailed, Fault, Give, linkVars, procVars,
           dataVars, fetchVars
  <2>4. /\ running' \in Counter /\ issued' \in Counter
        /\ part' \in 1 .. Subevents + 1 /\ unusable' \subseteq Part
        /\ ready' \subseteq 1 .. MaxProc /\ fetching' \in Counter /\ peer' \in Counter
        /\ {most_recent_local, most_recent_peer, dropped}' \subseteq Counter
    BY MaxProcIsPositive, SubeventsIsPositive
       DEF CycIInv, CycTypeOK, None, Counter, Part, AnswerFailed, Fault, Give,
           linkVars, procVars, dataVars, fetchVars
  <2>5. local' \subseteq Counter \X Part
    BY DEF CycIInv, CycTypeOK, AnswerFailed, Fault, Give, linkVars, procVars,
           dataVars, fetchVars
  <2> QED BY <2>1, <2>2, <2>4, <2>5, <2>3 DEF CycTypeOK
<1>2. harm' # {}
  BY DEF AnswerFailed, Fault, Give, linkVars, procVars, dataVars, fetchVars
<1> QED BY <1>1, <1>2 DEF CycIInv

LEMMA SetUpStepStep == CycIInv /\ SetUpStep => CycIInv'
<1> SUFFICES ASSUME CycIInv, SetUpStep PROVE CycIInv' OBVIOUS
<1>1. CycTypeOK'
  <2>1. /\ link' \in BOOLEAN /\ own' \in BOOLEAN /\ asked' \in BOOLEAN
        /\ start_ranging' \in BOOLEAN /\ ranging_data_err' \in BOOLEAN
    BY Zenon
       DEF CycIInv, CycTypeOK, SetUpStep, Take, linkVars, procVars, dataVars,
           fetchVars, faultVars
  <2>2. main' \in 1 .. Ready
    BY SetUpNames
       DEF CycIInv, CycTypeOK, SetUpStep, Take, linkVars, procVars, dataVars,
           fetchVars, faultVars
  <2>3. main \in 1 .. 8
    BY SetUpNames
       DEF CycIInv, CycTypeOK, SetUpStep, Take, linkVars, procVars, dataVars,
           fetchVars, faultVars
  <2>4. SetUpWaits[main] \in Sems
    BY <2>3, SetUpNames
  <2>5. main' \in 1 .. Ready /\ sem' \subseteq Sems /\ acq' \in Idle \cup InTurn
    BY <2>2, <2>4
       DEF CycIInv, CycTypeOK, SetUpStep, Take, linkVars, procVars, dataVars,
           fetchVars, faultVars
  <2>6. faults' \in 0 .. Faults /\ harm' \subseteq {"lost", "late", "refused"}
    BY CycleFaultsIsNatural
       DEF CycIInv, CycTypeOK, SetUpStep, Take, linkVars, procVars, dataVars,
           fetchVars, faultVars
  <2>7. /\ running' \in Counter /\ issued' \in Counter
        /\ part' \in 1 .. Subevents + 1 /\ unusable' \subseteq Part
        /\ ready' \subseteq 1 .. MaxProc /\ fetching' \in Counter /\ peer' \in Counter
        /\ {most_recent_local, most_recent_peer, dropped}' \subseteq Counter
    BY MaxProcIsPositive, SubeventsIsPositive
       DEF CycIInv, CycTypeOK, None, Counter, Part, SetUpStep, Take, linkVars,
           procVars, dataVars, fetchVars, faultVars
  <2>8. local' \subseteq Counter \X Part
    BY DEF CycIInv, CycTypeOK, SetUpStep, Take, linkVars, procVars, dataVars,
           fetchVars, faultVars
  <2> QED BY <2>1, <2>5, <2>7, <2>8, <2>6 DEF CycTypeOK
<1>2. SUFFICES ASSUME harm' = {}
               PROVE  SetUp' /\ Procedure' /\ Turn' /\ Fetch'
  BY <1>1 DEF CycIInv
<1>3. CycTypeOK /\ SetUp /\ Procedure /\ Turn /\ Fetch
  BY <1>2
     DEF CycIInv, SetUpStep, Take, linkVars, procVars, dataVars, fetchVars,
         faultVars
<1>4. SetUp' /\ Procedure' /\ Turn' /\ Fetch'
  BY <1>2, <1>3, SubeventsIsPositive, SetUpNames
     DEF CycTypeOK, SetUp, Procedure, Turn, Fetch, Ended, KeptSoFar, AllKept,
         Resets, None, Part, SetUpStep, Take, linkVars, procVars, dataVars,
         fetchVars, faultVars
<1> QED BY <1>4

-----------------------------------------------------------------------------
(* The callbacks of the procedure's results.                                *)

LEMMA SubeventDroppedStep == CycIInv /\ SubeventDropped => CycIInv'
<1> SUFFICES ASSUME CycIInv, SubeventDropped PROVE CycIInv' OBVIOUS
<1>1. CycTypeOK'
  BY MaxProcIsPositive, SubeventsIsPositive, CycleFaultsIsNatural, SetUpNames
     DEF CycIInv, CycTypeOK, InTurn, Idle, Resets, None, Counter, Part,
         SubeventDropped, Within, linkVars, setupVars, fetchVars, faultVars
<1>2. SUFFICES ASSUME harm' = {}
               PROVE  SetUp' /\ Procedure' /\ Turn' /\ Fetch'
  BY <1>1 DEF CycIInv
<1>3. CycTypeOK /\ SetUp /\ Procedure /\ Turn /\ Fetch
  BY <1>2
     DEF CycIInv, SubeventDropped, Within, linkVars, setupVars, fetchVars,
         faultVars
<1>4. SetUp' /\ Procedure' /\ Turn' /\ Fetch'
  BY <1>2, <1>3, SubeventsIsPositive, SetUpNames
     DEF CycTypeOK, SetUp, Procedure, Turn, Fetch, Ended, KeptSoFar, AllKept,
         Resets, None, Part, SubeventDropped, Within, linkVars, setupVars,
         fetchVars, faultVars
<1> QED BY <1>4

LEMMA SubeventTooLongStep == CycIInv /\ SubeventTooLong => CycIInv'
<1> SUFFICES ASSUME CycIInv, SubeventTooLong PROVE CycIInv' OBVIOUS
<1>1. CycTypeOK'
  BY MaxProcIsPositive, SubeventsIsPositive, CycleFaultsIsNatural, SetUpNames
     DEF CycIInv, CycTypeOK, InTurn, Idle, Resets, None, Counter, Part,
         SubeventTooLong, Within, DropRemembered, linkVars, setupVars,
         fetchVars, faultVars
<1>2. SUFFICES ASSUME harm' = {}
               PROVE  SetUp' /\ Procedure' /\ Turn' /\ Fetch'
  BY <1>1 DEF CycIInv
<1>3. CycTypeOK /\ SetUp /\ Procedure /\ Turn /\ Fetch
  BY <1>2
     DEF CycIInv, SubeventTooLong, Within, DropRemembered, linkVars,
         setupVars, fetchVars, faultVars
<1>4. SetUp' /\ Procedure' /\ Turn' /\ Fetch'
  BY <1>2, <1>3, SubeventsIsPositive, SetUpNames
     DEF CycTypeOK, SetUp, Procedure, Turn, Fetch, Ended, KeptSoFar, AllKept,
         Resets, None, Part, SubeventTooLong, Within, DropRemembered,
         linkVars, setupVars, fetchVars, faultVars
<1> QED BY <1>4

LEMMA SubeventKeptStep == CycIInv /\ SubeventKept => CycIInv'
<1> SUFFICES ASSUME CycIInv, SubeventKept PROVE CycIInv' OBVIOUS
<1>1. /\ CycTypeOK /\ part \in 1 .. Subevents /\ running \in 1 .. MaxProc
      /\ dropped # running
  BY MaxProcIsPositive DEF CycIInv, CycTypeOK, SubeventKept, Within, Part,
     Counter, None
<1>2. /\ part' = part + 1 /\ dropped' = None
      /\ ready' \in {ready, ready \cup {running}}
      /\ part # Subevents => ready' = ready
      /\ UNCHANGED <<link, own, main, asked, start_ranging, acq, running, issued,
                    most_recent_peer, fetching, peer, ranging_data_err, faults,
                    harm>>
  BY <1>1, SubeventsIsPositive
     DEF SubeventKept, Within, linkVars, setupVars, fetchVars, faultVars
<1>3. \/ local' = local \cup {<<running, part>>} /\ unusable' = unusable
      \/ unusable' = unusable \cup {part} /\ local' = local
  BY DEF SubeventKept
<1>4. IF part = Subevents
        THEN most_recent_local' = running /\ sem' = sem \cup {"procedure_done"}
        ELSE most_recent_local' = most_recent_local /\ sem' = sem
  BY DEF SubeventKept, Give
<1>5. CycTypeOK'
  <2>1. running \in Counter /\ part \in Part
    BY <1>1 DEF Counter, Part, None
  <2>2. local' \subseteq Counter \X Part /\ unusable' \subseteq Part
    <3>1. <<running, part>> \in Counter \X Part
      BY <2>1
    <3>2. local \subseteq Counter \X Part /\ unusable \subseteq Part
      BY <1>1 DEF CycTypeOK
    <3> QED BY <1>3, <2>1, <3>1, <3>2
  <2>3. /\ part' \in 1 .. Subevents + 1 /\ ready' \subseteq 1 .. MaxProc
        /\ {most_recent_local, most_recent_peer, dropped}' \subseteq Counter
        /\ sem' \subseteq Sems
    BY <1>1, <1>2, <1>4, <2>1, SubeventsIsPositive, MaxProcIsPositive
       DEF CycTypeOK, Counter, None, Sems, CycleSems
  <2> QED BY <1>1, <1>2, <2>2, <2>3 DEF CycTypeOK
<1>6. SUFFICES ASSUME harm' = {}
               PROVE  SetUp' /\ Procedure' /\ Turn' /\ Fetch'
  BY <1>5 DEF CycIInv
<1>7. SetUp /\ Procedure /\ Turn /\ Fetch
  BY <1>6, <1>2 DEF CycIInv
<1>8. SetUp'
  BY <1>7, <1>2, <1>4, SetUpNames DEF SetUp
<1>9. Procedure'
  <2>1. /\ running = issued /\ unusable \subseteq 1 .. part - 1
        /\ local = KeptSoFar /\ most_recent_local # issued
    BY <1>7, <1>1, SubeventsIsPositive DEF Procedure, None, Part
  <2>2. local' = {<<running, k>> : k \in (1 .. part) \ unusable'}
    <3>1. CASE unusable' = unusable /\ local' = local \cup {<<running, part>>}
      <4>1. (1 .. part) \ unusable = ((1 .. part - 1) \ unusable) \cup {part}
        BY <2>1, <1>1, SubeventsIsPositive
      <4> QED BY <3>1, <4>1, <2>1 DEF KeptSoFar
    <3>2. CASE unusable' = unusable \cup {part} /\ local' = local
      <4>1. (1 .. part) \ (unusable \cup {part}) = (1 .. part - 1) \ unusable
        BY <2>1, <1>1, SubeventsIsPositive
      <4> QED BY <3>2, <4>1, <2>1 DEF KeptSoFar
    <3> QED BY <1>3, <3>1, <3>2
  <2>3. KeptSoFar' = local'
    <3>1. part' - 1 = part
      BY <1>1, <1>2, SubeventsIsPositive
    <3> QED BY <2>2, <3>1, <1>2 DEF KeptSoFar
  <2>4. part = Subevents => AllKept' = local'
    BY <2>1, <2>2, <1>2 DEF AllKept, Part
  <2>5. unusable' \subseteq 1 .. part' - 1
    <3>1. part' - 1 = part /\ 1 .. part - 1 \subseteq 1 .. part /\ part \in 1 .. part
      BY <1>1, <1>2, SubeventsIsPositive
    <3> QED BY <2>1, <1>3, <3>1
  <2>6. ready' \subseteq {issued'} /\ (ready' # {} => part' = Subevents' + 1)
    BY <1>7, <1>1, <1>2, <2>1, SubeventsIsPositive DEF Procedure
  <2>7. most_recent_local' = issued' => part' = Subevents + 1 /\ local' = AllKept'
    BY <1>2, <1>4, <2>1, <2>4
  <2> QED
    BY <1>7, <1>2, <2>3, <2>5, <2>6, <2>7 DEF Procedure, Part
<1>10. Turn'
  BY <1>7, <1>1, <1>2, <1>4, SubeventsIsPositive
     DEF Turn, Procedure, Ended, None
<1>11. Fetch'
  BY <1>7, <1>2, <1>4 DEF Fetch
<1> QED BY <1>8, <1>9, <1>10, <1>11

LEMMA ProcedureAbortedStep == CycIInv /\ ProcedureAborted => CycIInv'
<1> SUFFICES ASSUME CycIInv, ProcedureAborted PROVE CycIInv' OBVIOUS
<1>1. CycTypeOK'
  BY MaxProcIsPositive, SubeventsIsPositive, CycleFaultsIsNatural, SetUpNames
     DEF CycIInv, CycTypeOK, InTurn, Idle, Resets, None, Counter, Part,
         ProcedureAborted, Give, linkVars, setupVars, fetchVars, faultVars
<1>2. SUFFICES ASSUME harm' = {}
               PROVE  SetUp' /\ Procedure' /\ Turn' /\ Fetch'
  BY <1>1 DEF CycIInv
<1>3. CycTypeOK /\ SetUp /\ Procedure /\ Turn /\ Fetch
  BY <1>2
     DEF CycIInv, ProcedureAborted, Give, linkVars, setupVars, fetchVars,
         faultVars
<1>4. SetUp' /\ Procedure' /\ Turn' /\ Fetch'
  BY <1>2, <1>3, SubeventsIsPositive, SetUpNames
     DEF CycTypeOK, SetUp, Procedure, Turn, Fetch, Ended, KeptSoFar, AllKept,
         Resets, None, Part, ProcedureAborted, Give, linkVars, setupVars,
         fetchVars, faultVars
<1> QED BY <1>4

LEMMA ProcedureDisabledStep == CycIInv /\ ProcedureDisabled => CycIInv'
<1> SUFFICES ASSUME CycIInv, ProcedureDisabled PROVE CycIInv' OBVIOUS
<1>1. CycTypeOK'
  BY MaxProcIsPositive, SubeventsIsPositive, CycleFaultsIsNatural, SetUpNames
     DEF CycIInv, CycTypeOK, InTurn, Idle, Resets, None, Counter, Part,
         ProcedureDisabled, Give, linkVars, setupVars, dataVars, fetchVars,
         faultVars
<1>2. SUFFICES ASSUME harm' = {}
               PROVE  SetUp' /\ Procedure' /\ Turn' /\ Fetch'
  BY <1>1 DEF CycIInv
<1>3. CycTypeOK /\ SetUp /\ Procedure /\ Turn /\ Fetch
  BY <1>2
     DEF CycIInv, ProcedureDisabled, Give, linkVars, setupVars, dataVars,
         fetchVars, faultVars
<1>4. SetUp' /\ Procedure' /\ Turn' /\ Fetch'
  BY <1>2, <1>3, SubeventsIsPositive, SetUpNames
     DEF CycTypeOK, SetUp, Procedure, Turn, Fetch, Ended, KeptSoFar, AllKept,
         Resets, None, Part, ProcedureDisabled, Give, linkVars, setupVars,
         dataVars, fetchVars, faultVars
<1> QED BY <1>4

LEMMA EnableFailedStep == CycIInv /\ EnableFailed => CycIInv'
<1> SUFFICES ASSUME CycIInv, EnableFailed PROVE CycIInv' OBVIOUS
<1>1. CycTypeOK'
  BY MaxProcIsPositive, SubeventsIsPositive, CycleFaultsIsNatural, SetUpNames
     DEF CycIInv, CycTypeOK, InTurn, Idle, Resets, None, Counter, Part,
         EnableFailed, Give, Fault, linkVars, setupVars, dataVars, fetchVars
<1>2. harm' # {}
  BY DEF EnableFailed, Give, Fault, linkVars, setupVars, dataVars, fetchVars
<1> QED BY <1>1, <1>2 DEF CycIInv

LEMMA RangingDataReadyStep == CycIInv /\ RangingDataReady => CycIInv'
<1> SUFFICES ASSUME CycIInv, RangingDataReady PROVE CycIInv' OBVIOUS
<1>1. CycTypeOK'
  BY MaxProcIsPositive, SubeventsIsPositive, CycleFaultsIsNatural, SetUpNames
     DEF CycIInv, CycTypeOK, InTurn, Idle, Resets, None, Counter, Part,
         RangingDataReady, Give, linkVars, setupVars, fetchVars, faultVars
<1>2. SUFFICES ASSUME harm' = {}
               PROVE  SetUp' /\ Procedure' /\ Turn' /\ Fetch'
  BY <1>1 DEF CycIInv
<1>3. CycTypeOK /\ SetUp /\ Procedure /\ Turn /\ Fetch
  BY <1>2
     DEF CycIInv, RangingDataReady, Give, linkVars, setupVars, fetchVars,
         faultVars
<1>4. SetUp' /\ Procedure' /\ Turn' /\ Fetch'
  BY <1>2, <1>3, SubeventsIsPositive, SetUpNames
     DEF CycTypeOK, SetUp, Procedure, Turn, Fetch, Ended, KeptSoFar, AllKept,
         Resets, None, Part, RangingDataReady, Give, linkVars, setupVars,
         fetchVars, faultVars
<1> QED BY <1>4

LEMMA RangingDataGotStep == CycIInv /\ RangingDataGot => CycIInv'
<1> SUFFICES ASSUME CycIInv, RangingDataGot PROVE CycIInv' OBVIOUS
<1>1. CycTypeOK'
  <2>1. /\ link' \in BOOLEAN /\ own' \in BOOLEAN /\ asked' \in BOOLEAN
        /\ start_ranging' \in BOOLEAN /\ ranging_data_err' \in BOOLEAN
    BY Zenon
       DEF CycIInv, CycTypeOK, RangingDataGot, Give, linkVars, setupVars,
           procVars, dataVars, faultVars
  <2>2. main' \in 1 .. Ready /\ sem' \subseteq Sems /\ acq' \in Idle \cup InTurn
    BY SetUpNames
       DEF CycIInv, CycTypeOK, InTurn, Idle, Resets, RangingDataGot, Give,
           linkVars, setupVars, procVars, dataVars, faultVars
  <2>3. faults' \in 0 .. Faults /\ harm' \subseteq {"lost", "late", "refused"}
    BY CycleFaultsIsNatural
       DEF CycIInv, CycTypeOK, RangingDataGot, Give, linkVars, setupVars,
           procVars, dataVars, faultVars
  <2>4. /\ running' \in Counter /\ issued' \in Counter
        /\ part' \in 1 .. Subevents + 1 /\ unusable' \subseteq Part
        /\ ready' \subseteq 1 .. MaxProc /\ fetching' \in Counter /\ peer' \in Counter
        /\ {most_recent_local, most_recent_peer, dropped}' \subseteq Counter
    BY MaxProcIsPositive, SubeventsIsPositive
       DEF CycIInv, CycTypeOK, None, Counter, Part, RangingDataGot, Give,
           linkVars, setupVars, procVars, dataVars, faultVars
  <2>5. local' \subseteq Counter \X Part
    BY DEF CycIInv, CycTypeOK, RangingDataGot, Give, linkVars, setupVars,
           procVars, dataVars, faultVars
  <2> QED BY <2>1, <2>2, <2>4, <2>5, <2>3 DEF CycTypeOK
<1>2. SUFFICES ASSUME harm' = {}
               PROVE  SetUp' /\ Procedure' /\ Turn' /\ Fetch'
  BY <1>1 DEF CycIInv
<1>3. CycTypeOK /\ SetUp /\ Procedure /\ Turn /\ Fetch
  BY <1>2
     DEF CycIInv, RangingDataGot, Give, linkVars, setupVars, procVars,
         dataVars, faultVars
<1>4. SetUp' /\ Procedure' /\ Turn' /\ Fetch'
  BY <1>2, <1>3, SubeventsIsPositive, SetUpNames
     DEF CycTypeOK, SetUp, Procedure, Turn, Fetch, Ended, KeptSoFar, AllKept,
         Resets, None, Part, RangingDataGot, Give, linkVars, setupVars,
         procVars, dataVars, faultVars
<1> QED BY <1>4

-----------------------------------------------------------------------------
(* The acquisition thread.                                                  *)

LEMMA TurnGrantedStep == CycIInv /\ TurnGranted => CycIInv'
<1> SUFFICES ASSUME CycIInv, TurnGranted PROVE CycIInv' OBVIOUS
<1>1. CycTypeOK'
  BY MaxProcIsPositive, SubeventsIsPositive, CycleFaultsIsNatural, SetUpNames
     DEF CycIInv, CycTypeOK, InTurn, Idle, Resets, None, Counter, Part,
         TurnGranted, linkVars, setupVars, procVars, dataVars, fetchVars,
         faultVars
<1>2. SUFFICES ASSUME harm' = {}
               PROVE  SetUp' /\ Procedure' /\ Turn' /\ Fetch'
  BY <1>1 DEF CycIInv
<1>3. CycTypeOK /\ SetUp /\ Procedure /\ Turn /\ Fetch
  BY <1>2
     DEF CycIInv, TurnGranted, linkVars, setupVars, procVars, dataVars,
         fetchVars, faultVars
<1>4. SetUp' /\ Procedure' /\ Turn' /\ Fetch'
  BY <1>2, <1>3, SubeventsIsPositive, SetUpNames
     DEF CycTypeOK, SetUp, Procedure, Turn, Fetch, Ended, KeptSoFar, AllKept,
         Resets, None, Part, TurnGranted, linkVars, setupVars, procVars,
         dataVars, fetchVars, faultVars
<1> QED BY <1>4

LEMMA TurnTakenStep == CycIInv /\ TurnTaken => CycIInv'
<1> SUFFICES ASSUME CycIInv, TurnTaken PROVE CycIInv' OBVIOUS
<1>1. CycTypeOK'
  <2>1. /\ link' \in BOOLEAN /\ own' \in BOOLEAN /\ asked' \in BOOLEAN
        /\ start_ranging' \in BOOLEAN /\ ranging_data_err' \in BOOLEAN
    BY Zenon
       DEF CycIInv, CycTypeOK, TurnTaken, Goes, AcqFrame, TimeUp, procVars,
           linkVars, setupVars, Fault, faultVars
  <2>2. main' \in 1 .. Ready /\ sem' \subseteq Sems /\ acq' \in Idle \cup InTurn
    BY SetUpNames
       DEF CycIInv, CycTypeOK, InTurn, Idle, Resets, TurnTaken, Goes,
           AcqFrame, TimeUp, procVars, linkVars, setupVars, Fault, faultVars
  <2>3. faults' \in 0 .. Faults /\ harm' \subseteq {"lost", "late", "refused"}
    BY TimeIsUp
       DEF CycIInv, TurnTaken, Goes, AcqFrame
  <2>4. /\ running' \in Counter /\ issued' \in Counter
        /\ part' \in 1 .. Subevents + 1 /\ unusable' \subseteq Part
        /\ ready' \subseteq 1 .. MaxProc /\ fetching' \in Counter /\ peer' \in Counter
        /\ {most_recent_local, most_recent_peer, dropped}' \subseteq Counter
    BY MaxProcIsPositive, SubeventsIsPositive
       DEF CycIInv, CycTypeOK, None, Counter, Part, TurnTaken, Goes, AcqFrame,
           TimeUp, procVars, linkVars, setupVars, Fault, faultVars
  <2>5. local' \subseteq Counter \X Part
    BY DEF CycIInv, CycTypeOK, TurnTaken, Goes, AcqFrame, TimeUp, procVars,
           linkVars, setupVars, Fault, faultVars
  <2> QED BY <2>1, <2>2, <2>4, <2>5, <2>3 DEF CycTypeOK
<1>2. SUFFICES ASSUME harm' = {}
               PROVE  SetUp' /\ Procedure' /\ Turn' /\ Fetch'
  BY <1>1 DEF CycIInv
<1>3. CycTypeOK /\ SetUp /\ Procedure /\ Turn /\ Fetch
  BY <1>2
     DEF CycIInv, TurnTaken, Goes, AcqFrame, TimeUp, procVars, linkVars,
         setupVars, Fault, faultVars
<1>4. SetUp' /\ Procedure' /\ Turn' /\ Fetch'
  BY <1>2, <1>3, SubeventsIsPositive, SetUpNames
     DEF CycTypeOK, SetUp, Procedure, Turn, Fetch, Ended, KeptSoFar, AllKept,
         Resets, None, Part, TurnTaken, Goes, AcqFrame, TimeUp, procVars,
         linkVars, setupVars, Fault, faultVars
<1> QED BY <1>4

LEMMA StartRangingStep == CycIInv /\ StartRanging => CycIInv'
<1> SUFFICES ASSUME CycIInv, StartRanging PROVE CycIInv' OBVIOUS
<1>1. /\ acq = "start" /\ acq' = "done"
      /\ local' = {} /\ peer' = None /\ dropped' = None
      /\ UNCHANGED <<link, own, main, asked, sem, start_ranging, ready,
                    most_recent_local, most_recent_peer, fetching,
                    ranging_data_err, faults, harm>>
  BY DEF StartRanging, Goes, AcqFrame, linkVars, setupVars, faultVars
<1>2. CASE /\ issued < MaxProc
           /\ issued' = issued + 1 /\ running' = issued + 1
           /\ part' = 1 /\ unusable' = {}
  <2>1. CycTypeOK'
    BY <1>1, <1>2, MaxProcIsPositive, SubeventsIsPositive
       DEF CycIInv, CycTypeOK, Counter, None, Part, InTurn
  <2>2. SUFFICES ASSUME harm' = {}
                 PROVE  SetUp' /\ Procedure' /\ Turn' /\ Fetch'
    BY <2>1 DEF CycIInv
  <2>3. /\ CycTypeOK /\ SetUp /\ Turn /\ Fetch
        /\ ready = {} /\ most_recent_local = None
        /\ sem \cap Resets = {}
    BY <1>1, <2>2 DEF CycIInv, Turn
  <2>4. issued \in Nat /\ 1 - 1 = 0 /\ (1 .. 0) \ {} = {}
    BY <2>3 DEF CycTypeOK, Counter, None
  <2>5. KeptSoFar' = {}
    <3>1. (1 .. part' - 1) \ unusable' = {}
      BY <1>2, <2>4
    <3> QED BY <3>1 DEF KeptSoFar
  <2>6. Procedure'
    BY <1>1, <1>2, <2>3, <2>4, <2>5 DEF Procedure, None
  <2>7. SetUp' /\ Turn' /\ Fetch'
    BY <1>1, <1>2, <2>3 DEF SetUp, Turn, Fetch, Resets
  <2> QED BY <2>6, <2>7
<1>3. CASE UNCHANGED <<issued, running, part, unusable>>
  <2>1. CycTypeOK'
    BY <1>1, <1>3, MaxProcIsPositive
       DEF CycIInv, CycTypeOK, Counter, None, Part, InTurn
  <2>2. SUFFICES ASSUME harm' = {}
                 PROVE  SetUp' /\ Procedure' /\ Turn' /\ Fetch'
    BY <2>1 DEF CycIInv
  <2>3. /\ CycTypeOK /\ SetUp /\ Procedure /\ Turn /\ Fetch
        /\ ready = {} /\ most_recent_local = None /\ running = None
        /\ sem \cap Resets = {}
    BY <1>1, <2>2 DEF CycIInv, Turn
  <2>4. Procedure'
    BY <1>1, <1>3, <2>3 DEF Procedure
  <2>5. SetUp' /\ Turn' /\ Fetch'
    BY <1>1, <1>3, <2>3 DEF SetUp, Turn, Fetch, Resets, Ended
  <2> QED BY <2>4, <2>5
<1> QED BY <1>2, <1>3 DEF StartRanging

LEMMA DoneOverStep ==
  CycIInv /\ WaitOver("done", "procedure_done", "ready") => CycIInv'
<1> SUFFICES ASSUME CycIInv, WaitOver("done", "procedure_done", "ready")
             PROVE  CycIInv'
  OBVIOUS
<1>1. CycTypeOK'
  BY MaxProcIsPositive, SubeventsIsPositive, CycleFaultsIsNatural, SetUpNames
     DEF CycIInv, CycTypeOK, InTurn, Idle, Resets, None, Counter, Part,
         WaitOver, Goes, Take, CalcFrame, fetchVars, faultVars, AcqFrame,
         procVars, dataVars, linkVars, setupVars
<1>2. SUFFICES ASSUME harm' = {}
               PROVE  SetUp' /\ Procedure' /\ Turn' /\ Fetch'
  BY <1>1 DEF CycIInv
<1>3. CycTypeOK /\ SetUp /\ Procedure /\ Turn /\ Fetch
  BY <1>2
     DEF CycIInv, WaitOver, Goes, Take, CalcFrame, fetchVars, faultVars,
         AcqFrame, procVars, dataVars, linkVars, setupVars
<1>4. SetUp' /\ Procedure' /\ Turn' /\ Fetch'
  BY <1>2, <1>3, SubeventsIsPositive, SetUpNames
     DEF CycTypeOK, SetUp, Procedure, Turn, Fetch, Ended, KeptSoFar, AllKept,
         Resets, None, Part, WaitOver, Goes, Take, CalcFrame, fetchVars,
         faultVars, AcqFrame, procVars, dataVars, linkVars, setupVars
<1> QED BY <1>4

LEMMA DoneTimeoutStep ==
  CycIInv /\ WaitFails("done", "procedure_done", running # None) => CycIInv'
<1> SUFFICES ASSUME CycIInv, WaitFails("done", "procedure_done", running # None)
             PROVE  CycIInv'
  OBVIOUS
<1>1. CycTypeOK'
  <2>1. /\ link' \in BOOLEAN /\ own' \in BOOLEAN /\ asked' \in BOOLEAN
        /\ start_ranging' \in BOOLEAN /\ ranging_data_err' \in BOOLEAN
    BY Zenon
       DEF CycIInv, CycTypeOK, WaitFails, WaitTimeout, Goes, TimeUp,
           CalcFrame, fetchVars, Fault, faultVars, AcqFrame, procVars,
           dataVars, linkVars, setupVars
  <2>2. main' \in 1 .. Ready /\ sem' \subseteq Sems /\ acq' \in Idle \cup InTurn
    BY SetUpNames
       DEF CycIInv, CycTypeOK, InTurn, Idle, Resets, WaitFails, WaitTimeout,
           Goes, TimeUp, CalcFrame, fetchVars, Fault, faultVars, AcqFrame,
           procVars, dataVars, linkVars, setupVars
  <2>3. faults' \in 0 .. Faults /\ harm' \subseteq {"lost", "late", "refused"}
    BY TimeIsUp
       DEF CycIInv, WaitFails, WaitTimeout, Goes
  <2>4. /\ running' \in Counter /\ issued' \in Counter
        /\ part' \in 1 .. Subevents + 1 /\ unusable' \subseteq Part
        /\ ready' \subseteq 1 .. MaxProc /\ fetching' \in Counter /\ peer' \in Counter
        /\ {most_recent_local, most_recent_peer, dropped}' \subseteq Counter
    BY MaxProcIsPositive, SubeventsIsPositive
       DEF CycIInv, CycTypeOK, None, Counter, Part, WaitFails, WaitTimeout,
           Goes, TimeUp, CalcFrame, fetchVars, Fault, faultVars, AcqFrame,
           procVars, dataVars, linkVars, setupVars
  <2>5. local' \subseteq Counter \X Part
    BY DEF CycIInv, CycTypeOK, WaitFails, WaitTimeout, Goes, TimeUp,
           CalcFrame, fetchVars, Fault, faultVars, AcqFrame, procVars,
           dataVars, linkVars, setupVars
  <2> QED BY <2>1, <2>2, <2>4, <2>5, <2>3 DEF CycTypeOK
<1>2. SUFFICES ASSUME harm' = {}
               PROVE  SetUp' /\ Procedure' /\ Turn' /\ Fetch'
  BY <1>1 DEF CycIInv
<1>3. CycTypeOK /\ SetUp /\ Procedure /\ Turn /\ Fetch
  BY <1>2
     DEF CycIInv, WaitFails, WaitTimeout, Goes, TimeUp, CalcFrame, fetchVars,
         Fault, faultVars, AcqFrame, procVars, dataVars, linkVars, setupVars
<1>4. SetUp' /\ Procedure' /\ Turn' /\ Fetch'
  BY <1>2, <1>3, SubeventsIsPositive, SetUpNames
     DEF CycTypeOK, SetUp, Procedure, Turn, Fetch, Ended, KeptSoFar, AllKept,
         Resets, None, Part, WaitFails, WaitTimeout, Goes, TimeUp, CalcFrame,
         fetchVars, Fault, faultVars, AcqFrame, procVars, dataVars, linkVars,
         setupVars
<1> QED BY <1>4

LEMMA ReadyOverStep ==
  CycIInv /\ WaitOver("ready", "rd_ready", "match") => CycIInv'
<1> SUFFICES ASSUME CycIInv, WaitOver("ready", "rd_ready", "match")
             PROVE  CycIInv'
  OBVIOUS
<1>1. CycTypeOK'
  BY MaxProcIsPositive, SubeventsIsPositive, CycleFaultsIsNatural, SetUpNames
     DEF CycIInv, CycTypeOK, InTurn, Idle, Resets, None, Counter, Part,
         WaitOver, Goes, Take, CalcFrame, fetchVars, faultVars, AcqFrame,
         procVars, dataVars, linkVars, setupVars
<1>2. SUFFICES ASSUME harm' = {}
               PROVE  SetUp' /\ Procedure' /\ Turn' /\ Fetch'
  BY <1>1 DEF CycIInv
<1>3. CycTypeOK /\ SetUp /\ Procedure /\ Turn /\ Fetch
  BY <1>2
     DEF CycIInv, WaitOver, Goes, Take, CalcFrame, fetchVars, faultVars,
         AcqFrame, procVars, dataVars, linkVars, setupVars
<1>4. SetUp' /\ Procedure' /\ Turn' /\ Fetch'
  BY <1>2, <1>3, SubeventsIsPositive, SetUpNames
     DEF CycTypeOK, SetUp, Procedure, Turn, Fetch, Ended, KeptSoFar, AllKept,
         Resets, None, Part, WaitOver, Goes, Take, CalcFrame, fetchVars,
         faultVars, AcqFrame, procVars, dataVars, linkVars, setupVars
<1> QED BY <1>4

LEMMA ReadyTimeoutStep ==
  CycIInv /\ WaitFails("ready", "rd_ready", ready # {}) => CycIInv'
<1> SUFFICES ASSUME CycIInv, WaitFails("ready", "rd_ready", ready # {})
             PROVE  CycIInv'
  OBVIOUS
<1>1. CycTypeOK'
  <2>1. /\ link' \in BOOLEAN /\ own' \in BOOLEAN /\ asked' \in BOOLEAN
        /\ start_ranging' \in BOOLEAN /\ ranging_data_err' \in BOOLEAN
    BY Zenon
       DEF CycIInv, CycTypeOK, WaitFails, WaitTimeout, Goes, TimeUp,
           CalcFrame, fetchVars, Fault, faultVars, AcqFrame, procVars,
           dataVars, linkVars, setupVars
  <2>2. main' \in 1 .. Ready /\ sem' \subseteq Sems /\ acq' \in Idle \cup InTurn
    BY SetUpNames
       DEF CycIInv, CycTypeOK, InTurn, Idle, Resets, WaitFails, WaitTimeout,
           Goes, TimeUp, CalcFrame, fetchVars, Fault, faultVars, AcqFrame,
           procVars, dataVars, linkVars, setupVars
  <2>3. faults' \in 0 .. Faults /\ harm' \subseteq {"lost", "late", "refused"}
    BY TimeIsUp
       DEF CycIInv, WaitFails, WaitTimeout, Goes
  <2>4. /\ running' \in Counter /\ issued' \in Counter
        /\ part' \in 1 .. Subevents + 1 /\ unusable' \subseteq Part
        /\ ready' \subseteq 1 .. MaxProc /\ fetching' \in Counter /\ peer' \in Counter
        /\ {most_recent_local, most_recent_peer, dropped}' \subseteq Counter
    BY MaxProcIsPositive, SubeventsIsPositive
       DEF CycIInv, CycTypeOK, None, Counter, Part, WaitFails, WaitTimeout,
           Goes, TimeUp, CalcFrame, fetchVars, Fault, faultVars, AcqFrame,
           procVars, dataVars, linkVars, setupVars
  <2>5. local' \subseteq Counter \X Part
    BY DEF CycIInv, CycTypeOK, WaitFails, WaitTimeout, Goes, TimeUp,
           CalcFrame, fetchVars, Fault, faultVars, AcqFrame, procVars,
           dataVars, linkVars, setupVars
  <2> QED BY <2>1, <2>2, <2>4, <2>5, <2>3 DEF CycTypeOK
<1>2. SUFFICES ASSUME harm' = {}
               PROVE  SetUp' /\ Procedure' /\ Turn' /\ Fetch'
  BY <1>1 DEF CycIInv
<1>3. CycTypeOK /\ SetUp /\ Procedure /\ Turn /\ Fetch
  BY <1>2
     DEF CycIInv, WaitFails, WaitTimeout, Goes, TimeUp, CalcFrame, fetchVars,
         Fault, faultVars, AcqFrame, procVars, dataVars, linkVars, setupVars
<1>4. SetUp' /\ Procedure' /\ Turn' /\ Fetch'
  BY <1>2, <1>3, SubeventsIsPositive, SetUpNames
     DEF CycTypeOK, SetUp, Procedure, Turn, Fetch, Ended, KeptSoFar, AllKept,
         Resets, None, Part, WaitFails, WaitTimeout, Goes, TimeUp, CalcFrame,
         fetchVars, Fault, faultVars, AcqFrame, procVars, dataVars, linkVars,
         setupVars
<1> QED BY <1>4

LEMMA MatchStep == CycIInv /\ Match => CycIInv'
<1> SUFFICES ASSUME CycIInv, Match PROVE CycIInv' OBVIOUS
<1>1. CycTypeOK'
  BY MaxProcIsPositive, SubeventsIsPositive, CycleFaultsIsNatural, SetUpNames
     DEF CycIInv, CycTypeOK, InTurn, Idle, Resets, None, Counter, Part, Match,
         SameCounter, CalcFrame, fetchVars, faultVars, AcqFrame, procVars,
         dataVars, linkVars, setupVars
<1>2. SUFFICES ASSUME harm' = {}
               PROVE  SetUp' /\ Procedure' /\ Turn' /\ Fetch'
  BY <1>1 DEF CycIInv
<1>3. CycTypeOK /\ SetUp /\ Procedure /\ Turn /\ Fetch
  BY <1>2
     DEF CycIInv, Match, SameCounter, CalcFrame, fetchVars, faultVars,
         AcqFrame, procVars, dataVars, linkVars, setupVars
<1>4. SetUp' /\ Procedure' /\ Turn' /\ Fetch'
  BY <1>2, <1>3, SubeventsIsPositive, SetUpNames
     DEF CycTypeOK, SetUp, Procedure, Turn, Fetch, Ended, KeptSoFar, AllKept,
         Resets, None, Part, Match, SameCounter, CalcFrame, fetchVars,
         faultVars, AcqFrame, procVars, dataVars, linkVars, setupVars
<1> QED BY <1>4

LEMMA GetStep == CycIInv /\ Get => CycIInv'
<1> SUFFICES ASSUME CycIInv, Get PROVE CycIInv' OBVIOUS
<1>1. CycTypeOK'
  BY MaxProcIsPositive, SubeventsIsPositive, CycleFaultsIsNatural, SetUpNames
     DEF CycIInv, CycTypeOK, InTurn, Idle, Resets, None, Counter, Part, Get,
         CalcFrame, faultVars, AcqFrame, procVars, dataVars, linkVars,
         setupVars
<1>2. SUFFICES ASSUME harm' = {}
               PROVE  SetUp' /\ Procedure' /\ Turn' /\ Fetch'
  BY <1>1 DEF CycIInv
<1>3. CycTypeOK /\ SetUp /\ Procedure /\ Turn /\ Fetch
  BY <1>2
     DEF CycIInv, Get, CalcFrame, faultVars, AcqFrame, procVars, dataVars,
         linkVars, setupVars
<1>4. SetUp' /\ Procedure' /\ Turn' /\ Fetch'
  BY <1>2, <1>3, SubeventsIsPositive, SetUpNames
     DEF CycTypeOK, SetUp, Procedure, Turn, Fetch, Ended, KeptSoFar, AllKept,
         Resets, None, Part, Get, CalcFrame, faultVars, AcqFrame, procVars,
         dataVars, linkVars, setupVars
<1> QED BY <1>4

LEMMA CompleteStep == CycIInv /\ Complete => CycIInv'
<1> SUFFICES ASSUME CycIInv, Complete PROVE CycIInv' OBVIOUS
<1>1. CycTypeOK'
  BY MaxProcIsPositive, SubeventsIsPositive, CycleFaultsIsNatural, SetUpNames
     DEF CycIInv, CycTypeOK, InTurn, Idle, Resets, None, Counter, Part,
         Complete, Take, CalcFrame, fetchVars, faultVars, AcqFrame, procVars,
         dataVars, linkVars, setupVars
<1>2. SUFFICES ASSUME harm' = {}
               PROVE  SetUp' /\ Procedure' /\ Turn' /\ Fetch'
  BY <1>1 DEF CycIInv
<1>3. CycTypeOK /\ SetUp /\ Procedure /\ Turn /\ Fetch
  BY <1>2
     DEF CycIInv, Complete, Take, CalcFrame, fetchVars, faultVars, AcqFrame,
         procVars, dataVars, linkVars, setupVars
<1>4. SetUp' /\ Procedure' /\ Turn' /\ Fetch'
  BY <1>2, <1>3, SubeventsIsPositive, SetUpNames
     DEF CycTypeOK, SetUp, Procedure, Turn, Fetch, Ended, KeptSoFar, AllKept,
         Resets, None, Part, Complete, Take, CalcFrame, fetchVars, faultVars,
         AcqFrame, procVars, dataVars, linkVars, setupVars
<1> QED BY <1>4

LEMMA CompleteTimeoutStep ==
  CycIInv /\ WaitFails("complete", "rd_complete", fetching # None) => CycIInv'
<1> SUFFICES ASSUME CycIInv, WaitFails("complete", "rd_complete", fetching # None)
             PROVE  CycIInv'
  OBVIOUS
<1>1. CycTypeOK'
  <2>1. /\ link' \in BOOLEAN /\ own' \in BOOLEAN /\ asked' \in BOOLEAN
        /\ start_ranging' \in BOOLEAN /\ ranging_data_err' \in BOOLEAN
    BY Zenon
       DEF CycIInv, CycTypeOK, WaitFails, WaitTimeout, Goes, TimeUp,
           CalcFrame, fetchVars, Fault, faultVars, AcqFrame, procVars,
           dataVars, linkVars, setupVars
  <2>2. main' \in 1 .. Ready /\ sem' \subseteq Sems /\ acq' \in Idle \cup InTurn
    BY SetUpNames
       DEF CycIInv, CycTypeOK, InTurn, Idle, Resets, WaitFails, WaitTimeout,
           Goes, TimeUp, CalcFrame, fetchVars, Fault, faultVars, AcqFrame,
           procVars, dataVars, linkVars, setupVars
  <2>3. faults' \in 0 .. Faults /\ harm' \subseteq {"lost", "late", "refused"}
    BY TimeIsUp
       DEF CycIInv, WaitFails, WaitTimeout, Goes
  <2>4. /\ running' \in Counter /\ issued' \in Counter
        /\ part' \in 1 .. Subevents + 1 /\ unusable' \subseteq Part
        /\ ready' \subseteq 1 .. MaxProc /\ fetching' \in Counter /\ peer' \in Counter
        /\ {most_recent_local, most_recent_peer, dropped}' \subseteq Counter
    BY MaxProcIsPositive, SubeventsIsPositive
       DEF CycIInv, CycTypeOK, None, Counter, Part, WaitFails, WaitTimeout,
           Goes, TimeUp, CalcFrame, fetchVars, Fault, faultVars, AcqFrame,
           procVars, dataVars, linkVars, setupVars
  <2>5. local' \subseteq Counter \X Part
    BY DEF CycIInv, CycTypeOK, WaitFails, WaitTimeout, Goes, TimeUp,
           CalcFrame, fetchVars, Fault, faultVars, AcqFrame, procVars,
           dataVars, linkVars, setupVars
  <2> QED BY <2>1, <2>2, <2>4, <2>5, <2>3 DEF CycTypeOK
<1>2. SUFFICES ASSUME harm' = {}
               PROVE  SetUp' /\ Procedure' /\ Turn' /\ Fetch'
  BY <1>1 DEF CycIInv
<1>3. CycTypeOK /\ SetUp /\ Procedure /\ Turn /\ Fetch
  BY <1>2
     DEF CycIInv, WaitFails, WaitTimeout, Goes, TimeUp, CalcFrame, fetchVars,
         Fault, faultVars, AcqFrame, procVars, dataVars, linkVars, setupVars
<1>4. SetUp' /\ Procedure' /\ Turn' /\ Fetch'
  BY <1>2, <1>3, SubeventsIsPositive, SetUpNames
     DEF CycTypeOK, SetUp, Procedure, Turn, Fetch, Ended, KeptSoFar, AllKept,
         Resets, None, Part, WaitFails, WaitTimeout, Goes, TimeUp, CalcFrame,
         fetchVars, Fault, faultVars, AcqFrame, procVars, dataVars, linkVars,
         setupVars
<1> QED BY <1>4

LEMMA EstimateStep == CycIInv /\ Estimate => CycIInv'
<1> SUFFICES ASSUME CycIInv, Estimate PROVE CycIInv' OBVIOUS
<1>1. CycTypeOK'
  BY MaxProcIsPositive, SubeventsIsPositive, CycleFaultsIsNatural, SetUpNames
     DEF CycIInv, CycTypeOK, InTurn, Idle, Resets, None, Counter, Part,
         Estimate, Goes, CalcFrame, fetchVars, faultVars, AcqFrame, procVars,
         dataVars, linkVars, setupVars
<1>2. SUFFICES ASSUME harm' = {}
               PROVE  SetUp' /\ Procedure' /\ Turn' /\ Fetch'
  BY <1>1 DEF CycIInv
<1>3. CycTypeOK /\ SetUp /\ Procedure /\ Turn /\ Fetch
  BY <1>2
     DEF CycIInv, Estimate, Goes, CalcFrame, fetchVars, faultVars, AcqFrame,
         procVars, dataVars, linkVars, setupVars
<1>4. SetUp' /\ Procedure' /\ Turn' /\ Fetch'
  BY <1>2, <1>3, SubeventsIsPositive, SetUpNames
     DEF CycTypeOK, SetUp, Procedure, Turn, Fetch, Ended, KeptSoFar, AllKept,
         Resets, None, Part, Estimate, Goes, CalcFrame, fetchVars, faultVars,
         AcqFrame, procVars, dataVars, linkVars, setupVars
<1> QED BY <1>4

LEMMA SignalStep == CycIInv /\ Signal => CycIInv'
<1> SUFFICES ASSUME CycIInv, Signal PROVE CycIInv' OBVIOUS
<1>1. CycTypeOK'
  BY MaxProcIsPositive, SubeventsIsPositive, CycleFaultsIsNatural, SetUpNames
     DEF CycIInv, CycTypeOK, InTurn, Idle, Resets, None, Counter, Part,
         Signal, Goes, CalcFrame, fetchVars, faultVars, AcqFrame, procVars,
         dataVars, linkVars, setupVars
<1>2. SUFFICES ASSUME harm' = {}
               PROVE  SetUp' /\ Procedure' /\ Turn' /\ Fetch'
  BY <1>1 DEF CycIInv
<1>3. CycTypeOK /\ SetUp /\ Procedure /\ Turn /\ Fetch
  BY <1>2
     DEF CycIInv, Signal, Goes, CalcFrame, fetchVars, faultVars, AcqFrame,
         procVars, dataVars, linkVars, setupVars
<1>4. SetUp' /\ Procedure' /\ Turn' /\ Fetch'
  BY <1>2, <1>3, SubeventsIsPositive, SetUpNames
     DEF CycTypeOK, SetUp, Procedure, Turn, Fetch, Ended, KeptSoFar, AllKept,
         Resets, None, Part, Signal, Goes, CalcFrame, fetchVars, faultVars,
         AcqFrame, procVars, dataVars, linkVars, setupVars
<1> QED BY <1>4

LEMMA RebootStep == CycIInv /\ Reboot => CycIInv'
<1> SUFFICES ASSUME CycIInv, Reboot PROVE CycIInv' OBVIOUS
<1>1. CycTypeOK'
  <2>1. /\ link' \in BOOLEAN /\ own' \in BOOLEAN /\ asked' \in BOOLEAN
        /\ start_ranging' \in BOOLEAN /\ ranging_data_err' \in BOOLEAN
    BY Zenon
       DEF CycIInv, CycTypeOK, Reboot, Goes, linkVars, procVars, faultVars
  <2>2. main' \in 1 .. Ready /\ sem' \subseteq Sems /\ acq' \in Idle \cup InTurn
    BY SetUpNames
       DEF CycIInv, CycTypeOK, InTurn, Idle, Resets, Reboot, Goes, linkVars,
           procVars, faultVars
  <2>3. faults' \in 0 .. Faults /\ harm' \subseteq {"lost", "late", "refused"}
    BY CycleFaultsIsNatural
       DEF CycIInv, CycTypeOK, Reboot, Goes, linkVars, procVars, faultVars
  <2>4. /\ running' \in Counter /\ issued' \in Counter
        /\ part' \in 1 .. Subevents + 1 /\ unusable' \subseteq Part
        /\ ready' \subseteq 1 .. MaxProc /\ fetching' \in Counter /\ peer' \in Counter
        /\ {most_recent_local, most_recent_peer, dropped}' \subseteq Counter
    BY MaxProcIsPositive, SubeventsIsPositive
       DEF CycIInv, CycTypeOK, None, Counter, Part, Reboot, Goes, linkVars,
           procVars, faultVars
  <2>5. local' \subseteq Counter \X Part
    BY DEF CycIInv, CycTypeOK, Reboot, Goes, linkVars, procVars, faultVars
  <2> QED BY <2>1, <2>2, <2>4, <2>5, <2>3 DEF CycTypeOK
<1>2. SUFFICES ASSUME harm' = {}
               PROVE  SetUp' /\ Procedure' /\ Turn' /\ Fetch'
  BY <1>1 DEF CycIInv
<1>3. CycTypeOK /\ SetUp /\ Procedure /\ Turn /\ Fetch
  BY <1>2
     DEF CycIInv, Reboot, Goes, linkVars, procVars, faultVars
<1>4. SetUp' /\ Procedure' /\ Turn' /\ Fetch'
  BY <1>2, <1>3, SubeventsIsPositive, SetUpNames
     DEF CycTypeOK, SetUp, Procedure, Turn, Fetch, Ended, KeptSoFar, AllKept,
         Resets, None, Part, Reboot, Goes, linkVars, procVars, faultVars
<1> QED BY <1>4

-----------------------------------------------------------------------------
(* What these show of the specification.                                    *)

LEMMA CycStutter == CycIInv /\ UNCHANGED cycleVars => CycIInv'
BY DEF CycIInv, CycTypeOK, SetUp, Procedure, Turn, Fetch, Ended, KeptSoFar,
       AllKept, cycleVars, linkVars, setupVars, procVars, dataVars, fetchVars,
       faultVars

LEMMA CycInductive == CycSpec => []CycIInv
<1>1. CycIInv /\ [CycNext]_cycleVars => CycIInv'
  BY ConnectedStep, DisconnectedStep, AnswerOkStep, AnswerFailedStep,
     SetUpStepStep, SubeventDroppedStep, SubeventTooLongStep,
     SubeventKeptStep, ProcedureAbortedStep, ProcedureDisabledStep,
     EnableFailedStep, RangingDataReadyStep, RangingDataGotStep,
     TurnGrantedStep, TurnTakenStep, StartRangingStep, DoneOverStep,
     DoneTimeoutStep, ReadyOverStep, ReadyTimeoutStep, MatchStep, GetStep,
     CompleteStep, CompleteTimeoutStep, EstimateStep, SignalStep,
     RebootStep, CycStutter
     DEF CycNext, Callbacks, Acquisition
<1> QED BY CycInitInv, <1>1, PTL DEF CycSpec

\* Type correctness of the initiator and its controller.
THEOREM CycTypeCorrect == CycSpec => []CycTypeOK
<1>1. CycIInv => CycTypeOK
  BY DEF CycIInv
<1> QED BY CycInductive, <1>1, PTL

\* When no answer is late, nothing refused and no link lost, a distance is
\* estimated from the steps of one procedure, this turn's, on both sides, and
\* from all its usable subevents, however many procedures went before.
THEOREM EstimatesFromOneProcedure == CycSpec => []CycSafe
<1>1. CycIInv => WholeProcedure
  <2> SUFFICES ASSUME CycIInv, acq = "estimate", harm = {}
               PROVE  peer = issued /\ local = AllKept
    BY DEF WholeProcedure, AllKept
  <2>1. Procedure /\ Turn /\ Fetch
    BY DEF CycIInv
  <2> QED BY <2>1 DEF Procedure, Turn, Fetch
<1>2. CycIInv => CycSafe
  BY <1>1 DEF CycIInv, CycSafe
<1> QED BY CycInductive, <1>2, PTL

-----------------------------------------------------------------------------
(* THE WINDOW of estimates (RangeEstimate), of any size, is a ring: by its  *)
(* index the latest estimates can be counted backwards.                     *)

\* Where the k-th latest estimate of a window is.
Place(w, k) == IF k <= w.index THEN w.index - k ELSE w.index + Size(w) - k

\* A window of size after the estimates s: the place of the next one goes round,
\* and the places behind it hold the latest ones.
Ring(w, size, s) ==
  /\ w = [estimates |-> w.estimates, num_valid |-> w.num_valid, index |-> w.index]
  /\ w.estimates = [i \in 0 .. size - 1 |-> w.estimates[i]]
  /\ w.index \in 0 .. size - 1
  /\ w.num_valid = IF Len(s) < size THEN Len(s) ELSE size
  /\ Len(s) < size => w.index = Len(s)
  /\ \A k \in 1 .. w.num_valid : w.estimates[Place(w, k)] = s[Len(s) - k + 1]

LEMMA SizeOfWindow ==
  ASSUME NEW size \in Nat \ {0}, NEW w, NEW s, Ring(w, size, s)
  PROVE  Size(w) = size
<1>1. DOMAIN w.estimates = 0 .. size - 1
  BY DEF Ring
<1>2. Cardinality(0 .. size - 1) = size
  BY FS_Interval
<1> QED BY <1>1, <1>2 DEF Size

LEMMA RingEmpty ==
  ASSUME NEW size \in Nat \ {0}
  PROVE  Ring(Empty(size), size, <<>>)
BY DEF Ring, Empty

LEMMA RingStored ==
  ASSUME NEW size \in Nat \ {0}, NEW V, NEW s \in Seq(V), NEW d \in V,
         NEW w, Ring(w, size, s)
  PROVE  Ring(Stored(w, d), size, Append(s, d))
<1> DEFINE u == Stored(w, d)
           t == Append(s, d)
<1>1. Size(w) = size
  BY SizeOfWindow
<1>2. /\ Len(s) \in Nat /\ Len(t) = Len(s) + 1 /\ t[Len(s) + 1] = d
      /\ \A k \in 1 .. Len(s) : t[k] = s[k]
  BY AppendProperties
<1>3. /\ w.index \in 0 .. size - 1
      /\ w.num_valid = IF Len(s) < size THEN Len(s) ELSE size
      /\ Len(s) < size => w.index = Len(s)
      /\ w.estimates = [i \in 0 .. size - 1 |-> w.estimates[i]]
  BY DEF Ring
<1>4. /\ u.estimates = [w.estimates EXCEPT ![w.index] = d]
      /\ u.num_valid = IF w.num_valid < size THEN w.num_valid + 1 ELSE w.num_valid
      /\ u.index = (w.index + 1) % size
      /\ u = [estimates |-> u.estimates, num_valid |-> u.num_valid,
              index |-> u.index]
  BY <1>1 DEF Stored
<1>5. u.index = IF w.index + 1 = size THEN 0 ELSE w.index + 1
  <2>1. \A x \in 0 .. size - 1 : x % size = x
    OBVIOUS
  <2>2. size % size = 0
    OBVIOUS
  <2>3. CASE w.index + 1 = size
    BY <1>4, <2>2, <2>3
  <2>4. CASE w.index + 1 # size
    <3>1. w.index + 1 \in 0 .. size - 1
      BY <1>3, <2>4
    <3>2. (w.index + 1) % size = w.index + 1
      BY <2>1, <3>1
    <3> QED BY <1>4, <2>4, <3>2
  <2> QED BY <2>3, <2>4
<1> HIDE DEF u, t
<1>6. u.num_valid = IF Len(t) < size THEN Len(t) ELSE size
  BY <1>2, <1>3, <1>4
<1>7. u.index \in 0 .. size - 1 /\ (Len(t) < size => u.index = Len(t))
  BY <1>2, <1>3, <1>5
<1>8. /\ u.estimates = [i \in 0 .. size - 1 |-> u.estimates[i]]
      /\ u.estimates[w.index] = d
      /\ \A i \in 0 .. size - 1 : i # w.index => u.estimates[i] = w.estimates[i]
  BY <1>3, <1>4
<1>9. Size(u) = size
  <2>1. DOMAIN u.estimates = 0 .. size - 1
    BY <1>8
  <2>2. Cardinality(0 .. size - 1) = size
    BY FS_Interval
  <2> QED BY <2>1, <2>2 DEF Size
<1>10. ASSUME NEW k \in 1 .. u.num_valid
       PROVE  u.estimates[Place(u, k)] = t[Len(t) - k + 1]
  <2>1. CASE k = 1
    <3>1. Place(u, 1) = w.index
      BY <1>3, <1>5, <1>9 DEF Place
    <3> QED BY <1>2, <1>8, <2>1, <3>1
  <2>2. CASE k > 1
    <3>1. k - 1 \in 1 .. w.num_valid /\ k <= size
      BY <1>2, <1>3, <1>6, <2>2
    <3>2. Place(u, k) = Place(w, k - 1)
      <4>1. CASE w.index + 1 = size
        BY <1>1, <1>3, <1>5, <1>9, <2>2, <3>1, <4>1 DEF Place
      <4>2. CASE w.index + 1 # size
        BY <1>1, <1>3, <1>5, <1>9, <2>2, <3>1, <4>2 DEF Place
      <4> QED BY <4>1, <4>2
    <3>3. Place(w, k - 1) \in 0 .. size - 1 /\ Place(w, k - 1) # w.index
      BY <1>1, <1>3, <3>1 DEF Place
    <3>4. w.estimates[Place(w, k - 1)] = s[Len(s) - (k - 1) + 1]
      BY <3>1 DEF Ring
    <3>5. /\ Len(t) - k + 1 = Len(s) - (k - 1) + 1
          /\ Len(s) - (k - 1) + 1 \in 1 .. Len(s)
      BY <1>2, <1>3, <2>2, <3>1
    <3> QED BY <1>2, <1>8, <3>2, <3>3, <3>4, <3>5
  <2>3. k \in Nat /\ k >= 1
    BY <1>2, <1>6
  <2> QED BY <2>1, <2>2, <2>3
<1>11. Ring(u, size, t)
  BY <1>4, <1>6, <1>7, <1>8, <1>10 DEF Ring
<1> QED BY <1>11 DEF u, t

\* What Filtered reads, of any size: the latest estimates, each once.
LatestOnce(w, size, s) ==
  LET n == IF Len(s) < size THEN Len(s) ELSE size
  IN  /\ w.num_valid = n
      /\ \E place \in [1 .. n -> 0 .. n - 1] :
           /\ \A i \in 0 .. n - 1 : \E k \in 1 .. n : place[k] = i
           /\ \A j, k \in 1 .. n : place[j] = place[k] => j = k
           /\ \A k \in 1 .. n : w.estimates[place[k]] = s[Len(s) - k + 1]

LEMMA WindowHoldsLatest ==
  ASSUME NEW size \in Nat \ {0}, NEW V, NEW s \in Seq(V), NEW w,
         Ring(w, size, s)
  PROVE  LatestOnce(w, size, s)
<1> DEFINE n == IF Len(s) < size THEN Len(s) ELSE size
           place == [k \in 1 .. n |-> Place(w, k)]
<1>1. Size(w) = size /\ Len(s) \in Nat
  BY SizeOfWindow
<1>2. /\ w.num_valid = n /\ w.index \in 0 .. size - 1
      /\ Len(s) < size => w.index = Len(s)
      /\ \A k \in 1 .. n : w.estimates[Place(w, k)] = s[Len(s) - k + 1]
  BY DEF Ring
<1>3. \A k \in 1 .. n : Place(w, k) \in 0 .. n - 1
  BY <1>1, <1>2 DEF Place
<1>4. ASSUME NEW i \in 0 .. n - 1 PROVE \E k \in 1 .. n : Place(w, k) = i
  <2>1. CASE i < w.index
    <3>1. w.index - i \in 1 .. n /\ Place(w, w.index - i) = i
      BY <1>1, <1>2, <2>1 DEF Place
    <3> QED BY <3>1
  <2>2. CASE i >= w.index
    <3>1. w.index + size - i \in 1 .. n /\ Place(w, w.index + size - i) = i
      BY <1>1, <1>2, <2>2 DEF Place
    <3> QED BY <3>1
  <2> QED BY <1>1, <1>2, <2>1, <2>2
<1>5. ASSUME NEW j \in 1 .. n, NEW k \in 1 .. n, Place(w, j) = Place(w, k)
      PROVE  j = k
  <2>1. n \in Nat /\ n <= size /\ w.index \in Int /\ j \in Int /\ k \in Int
    BY <1>1, <1>2
  <2>2. CASE j <= w.index
    BY <1>1, <1>5, <2>1, <2>2 DEF Place
  <2>3. CASE j > w.index
    BY <1>1, <1>5, <2>1, <2>3 DEF Place
  <2> QED BY <2>1, <2>2, <2>3
<1> HIDE DEF n
<1>6. \A k \in 1 .. n : place[k] = Place(w, k)
  OBVIOUS
<1>7. place \in [1 .. n -> 0 .. n - 1]
  BY <1>3
<1> HIDE DEF place
<1>8. \A i \in 0 .. n - 1 : \E k \in 1 .. n : place[k] = i
  BY <1>4, <1>6
<1>9. \A j, k \in 1 .. n : place[j] = place[k] => j = k
  BY <1>5, <1>6
<1>10. \A k \in 1 .. n : w.estimates[place[k]] = s[Len(s) - k + 1]
  BY <1>2, <1>6
<1> QED BY <1>2, <1>7, <1>8, <1>9, <1>10 DEF LatestOnce, n

-----------------------------------------------------------------------------
(* The window, in the course of time.                                       *)

VARIABLES window,
          stored   \* history: the estimates that were not dropped

\* Whatever tones a procedure had, and whatever was estimated from them.
Estimated(gate) ==
  \E tones \in SUBSET Nat, d \in Int :
    LET u == Update(window, tones, gate, d)
    IN  /\ window' = u.window
        /\ stored' = IF u.dropped THEN stored ELSE Append(stored, d)

WindowSpec(size, gate) == /\ window = Empty(size) /\ stored = <<>>
                          /\ [][Estimated(gate)]_<<window, stored>>

\* The window holds the latest finite estimates of enough tones, each once.
HoldsLatest(size) == /\ LatestOnce(window, size, stored)
                     /\ \A i \in 1 .. Len(stored) : Finite(stored[i])

WindowIInv(size) == /\ stored \in Seq({d \in Int : Finite(d)})
                    /\ Ring(window, size, stored)

\* WindowIsLatest and GateHolds for windows of any size, after any number of
\* estimates: the median that is printed is one of the latest finite estimates
\* that passed the gate, and no older one is left among them.
THEOREM WindowIsOfLatest ==
  ASSUME NEW CONSTANT size \in Nat \ {0}, NEW CONSTANT gate \in Nat
  PROVE  WindowSpec(size, gate) => []HoldsLatest(size)
<1> DEFINE V == {d \in Int : Finite(d)}
<1>1. window = Empty(size) /\ stored = <<>> => WindowIInv(size)
  BY RingEmpty, EmptySeq DEF WindowIInv
<1>2. WindowIInv(size) /\ [Estimated(gate)]_<<window, stored>>
        => WindowIInv(size)'
  <2>1. ASSUME WindowIInv(size), Estimated(gate)
        PROVE  WindowIInv(size)'
    <3>1. PICK tones \in SUBSET Nat, d \in Int :
            LET u == Update(window, tones, gate, d)
            IN  /\ window' = u.window
                /\ stored' = IF u.dropped THEN stored ELSE Append(stored, d)
      BY <2>1 DEF Estimated
    <3>2. CASE Gated(tones, gate) \/ ~Finite(d)
      <4>1. window' = window /\ stored' = stored
        BY <3>1, <3>2 DEF Update, Dropped
      <4> QED BY <2>1, <4>1 DEF WindowIInv
    <3>3. CASE ~Gated(tones, gate) /\ Finite(d)
      <4>1. window' = Stored(window, d) /\ stored' = Append(stored, d)
        BY <3>1, <3>3 DEF Update, Printed
      <4>2. d \in V /\ stored \in Seq(V) /\ Ring(window, size, stored)
        BY <2>1, <3>3 DEF WindowIInv
      <4> HIDE DEF V
      <4>3. Ring(Stored(window, d), size, Append(stored, d))
        BY <4>2, RingStored
      <4>4. Append(stored, d) \in Seq(V)
        BY <4>2, AppendProperties
      <4> QED BY <4>1, <4>3, <4>4 DEF WindowIInv, V
    <3> QED BY <3>2, <3>3
  <2>2. CASE UNCHANGED <<window, stored>>
    BY <2>2 DEF WindowIInv
  <2> QED BY <2>1, <2>2
<1>3. WindowIInv(size) => HoldsLatest(size)
  <2> SUFFICES ASSUME WindowIInv(size) PROVE HoldsLatest(size)
    OBVIOUS
  <2>1. stored \in Seq(V) /\ Ring(window, size, stored)
    BY DEF WindowIInv
  <2>2. \A i \in 1 .. Len(stored) : stored[i] \in V
    <3> HIDE DEF V
    <3> QED BY <2>1, ElementOfSeq
  <2>3. LatestOnce(window, size, stored)
    <3> HIDE DEF V
    <3> QED BY <2>1, WindowHoldsLatest
  <2> QED BY <2>2, <2>3 DEF HoldsLatest
<1> QED BY <1>1, <1>2, <1>3, PTL DEF WindowSpec

-----------------------------------------------------------------------------
\* What follows a malformed step adds no tone, however many steps there are.
THEOREM MalformedEnds ==
  \A length \in Nat : \A channels : MalformedEndsParsing(length, channels)
<1> DEFINE Step(C) == [channel : C, tone : {"high", "low", "none", "malformed"}]
<1>1. ASSUME NEW channels, NEW n \in Nat, NEW s \in [1 .. n -> Step(channels)],
             NEW k \in 1 .. n, s[k].tone = "malformed"
      PROVE  Parsed(s) = Parsed(SubSeq(s, 1, k))
  <2>1. PICK t : t = SubSeq(s, 1, k)
    OBVIOUS
  <2> HIDE DEF Step
  <2>2. \A i \in 1 .. k : s[i] \in Step(channels)
    OBVIOUS
  <2>3. /\ t \in Seq(Step(channels)) /\ Len(t) = k
        /\ \A i \in 1 .. k : t[i] = s[i]
    <3>1. /\ SubSeq(s, 1, k) \in Seq(Step(channels))
          /\ Len(SubSeq(s, 1, k)) = IF 1 <= k THEN k - 1 + 1 ELSE 0
          /\ \A i \in 1 .. k - 1 + 1 : SubSeq(s, 1, k)[i] = s[1 + i - 1]
      BY <2>2, SubSeqProperties
    <3> QED BY <2>1, <3>1
  <2>4. DOMAIN t = 1 .. k /\ DOMAIN s = 1 .. n
    BY <2>3, LenProperties
  <2>5. \A i \in 1 .. n : (\A j \in 1 .. i : s[j].tone # "malformed") => i < k
    BY <1>1
  <2>6. Parsed(s) = Parsed(t)
    <3> DEFINE Good(u, i) == /\ u[i].tone = "high"
                             /\ \A j \in 1 .. i : u[j].tone # "malformed"
    <3>1. \A i \in 1 .. k : Good(s, i) <=> Good(t, i)
      <4>1. \A i \in 1 .. k : \A j \in 1 .. i : j \in 1 .. k
        OBVIOUS
      <4> QED BY <2>3, <4>1
    <3>2. \A i \in 1 .. n : Good(s, i) => i \in 1 .. k
      BY <2>5
    <3>3. 1 .. k \subseteq 1 .. n
      OBVIOUS
    <3>4. /\ Parsed(s) = {s[i].channel : i \in {i \in 1 .. n : Good(s, i)}}
          /\ Parsed(t) = {t[i].channel : i \in {i \in 1 .. k : Good(t, i)}}
      BY <2>4 DEF Parsed
    <3> HIDE DEF Good
    <3>5. {i \in 1 .. n : Good(s, i)} = {i \in 1 .. k : Good(t, i)}
      BY <3>1, <3>2, <3>3
    <3> QED BY <2>3, <3>4, <3>5
  <2> QED BY <2>1, <2>6
<1>2. ASSUME NEW length \in Nat, NEW channels
      PROVE  MalformedEndsParsing(length, channels)
  <2> HIDE DEF Step
  <2>1. \A n \in 0 .. length : n \in Nat
    OBVIOUS
  <2>2. \A n \in 0 .. length : \A s \in [1 .. n -> Step(channels)] :
          \A k \in 1 .. n :
            s[k].tone = "malformed" => Parsed(s) = Parsed(SubSeq(s, 1, k))
    BY <1>1, <2>1
  <2> QED BY <2>2 DEF MalformedEndsParsing, Step
<1> QED BY <1>2

\* With a path loss that does not fall with the power, for every RSSI and not
\* only those that are not clamped, a stronger signal is no farther.
THEOREM RssiIsMonotone ==
  ASSUME NEW power \in [-90 .. -30 -> Int],
         \A r \in -90 .. -31 : power[r + 1] <= power[r]
  PROVE  WeakerIsFarther(power)
<1> SUFFICES ASSUME NEW r \in -128 .. 126
             PROVE  RssiDistance(r + 1, power) <= RssiDistance(r, power)
  BY DEF WeakerIsFarther
<1>1. \/ Clamp(r + 1, -90, -30) = Clamp(r, -90, -30)
      \/ r \in -90 .. -31 /\ Clamp(r + 1, -90, -30) = r + 1
                          /\ Clamp(r, -90, -30) = r
  BY DEF Clamp
<1>2. \A x, y \in Int : x <= y => Clamp(x, 1, 100) <= Clamp(y, 1, 100)
  BY DEF Clamp
<1>3. \A x \in Int : Clamp(x, -90, -30) \in -90 .. -30 /\ Clamp(x, 1, 100) \in Int
  BY DEF Clamp
<1>4. \A q \in -90 .. -30 : power[q] \in Int
  OBVIOUS
<1>5. PICK a, b \in -90 .. -30 :
        a = Clamp(r + 1, -90, -30) /\ b = Clamp(r, -90, -30)
  BY <1>3
<1>6. power[a] <= power[b] /\ power[a] \in Int /\ power[b] \in Int
  BY <1>1, <1>4, <1>5
<1> QED BY <1>2, <1>5, <1>6 DEF RssiDistance
=============================================================================
