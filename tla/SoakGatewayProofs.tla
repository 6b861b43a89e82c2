-------------------------- MODULE SoakGatewayProofs --------------------------
(***************************************************************************)
(* scan_cs_soak, for any number of faults: what a cycle counts and         *)
(* computes is its own link's, though no semaphore is reset and no buffer  *)
(* emptied between two links.                                              *)
(***************************************************************************)
EXTENDS SoakGateway, FiniteSetTheorems, TLAPS

\* One link at a time, and one place of it in the gateway: a connection that
\* is under way, one that main has yet to hear of, or main's cycle.
\* `connecting` keeps the next one away until the cycle is over.  An answer's
\* semaphore is given to the wait for it only, and taken there.
OneCycle ==
  /\ connection <=> link # "none"
  /\ main # "idle" \/ "connected" \in sem \/ link = "creating" => connecting
  /\ main # "idle" => "connected" \notin sem /\ link # "creating"
  /\ "connected" \in sem => link # "creating"
  /\ link = "closing" => main \in {"gone", "idle"} /\ "connected" \notin sem
  /\ link \notin {"up", "closing"} => proc = "none" /\ ~due
  /\ due => main \in {"wait1", "wait2", "wait3", "wait4"}
  /\ "acl_encrypted" \in sem => main = "wait1" /\ ~due
  /\ "remote_caps" \in sem => main = "wait2" /\ ~due
  /\ "config_created" \in sem => main = "wait3" /\ ~due
  /\ "cs_security" \in sem => main = "wait4" /\ ~due

\* The target's threads are asked for something by a reflector gateway's
\* procedures only, and the gateway computes its own only.
Roles ==
  /\ role = "initiator" => enabler = {}
  /\ role = "reflector" => main \notin {"compute", "disable", "disabled"}

\* A procedure is about to run, runs, or has left its semaphore to main.
Active == \/ "enable" \in enabler \/ proc \in {"first", "last"}
          \/ "procedure_done" \in sem

\* If main gives up no wait whose answer comes later, it is there to take what
\* the procedure gives: so nothing is left over for the next cycle.
TakesItsOwn ==
  /\ Active => \/ main = "procedure"
               \/ main = "enable" /\ role = "reflector"
               \/ /\ main = "wait4" /\ role = "reflector"
                  /\ "cs_security" \in sem /\ ~due
  /\ "procedure_done" \in sem =>
       completed /\ "enable" \notin enabler /\ proc \notin {"first", "last"}
  /\ "enable" \in enabler => proc \notin {"first", "last"}
  /\ main # "idle" /\ done => completed

\* If besides no link is lost and no procedure aborted, the tones of a
\* procedure are computed in its cycle.
Unharmed == harm \cap {"lost", "late", "aborted"} = {}
TonesLeave ==
  /\ iq # {} => iq = {"this"} /\ main \in {"procedure", "compute"}
  /\ main = "compute" \/ "procedure_done" \in sem \/ proc = "last" => iq = {"this"}
  /\ main = "procedure" => proc \in {"first", "last"} \/ "procedure_done" \in sem

SoakIInv ==
  /\ SoakTypeOK /\ OneCycle /\ Roles
  /\ "late" \notin harm => TakesItsOwn
  /\ Unharmed /\ role = "initiator" => TonesLeave

-----------------------------------------------------------------------------
(* Faults, and the stages of a cycle.                                       *)

FaultKind == {"lost", "late", "refused", "aborted", "scan"}

LEMMA SmallSets ==
  ASSUME NEW kinds \in SUBSET FaultKind
  PROVE  Cardinality(kinds) \in Nat
<1>1. IsFiniteSet({"lost"})
  BY FS_EmptySet, FS_AddElement
<1>2. IsFiniteSet({"lost"} \cup {"late"})
  BY <1>1, FS_AddElement
<1>3. IsFiniteSet(({"lost"} \cup {"late"}) \cup {"refused"})
  BY <1>2, FS_AddElement
<1>4. IsFiniteSet((({"lost"} \cup {"late"}) \cup {"refused"}) \cup {"aborted"})
  BY <1>3, FS_AddElement
<1>5. IsFiniteSet(((({"lost"} \cup {"late"}) \cup {"refused"})
                     \cup {"aborted"}) \cup {"scan"})
  BY <1>4, FS_AddElement
<1>6. FaultKind = ((({"lost"} \cup {"late"}) \cup {"refused"})
                     \cup {"aborted"}) \cup {"scan"}
  BY DEF FaultKind
<1> QED BY <1>5, <1>6, FS_Subset, FS_CardinalityType

\* A step counts its faults within the bound and remembers their kinds.
LEMMA FaultCounts ==
  ASSUME faults \in 0 .. Faults, harm \subseteq FaultKind,
         NEW kinds \in SUBSET FaultKind, Faulty(kinds)
  PROVE  /\ faults' \in 0 .. Faults
         /\ harm' = harm \cup kinds
BY SmallSets, SoakFaultsIsNatural DEF Faulty

LEMMA OneFault ==
  ASSUME SoakTypeOK, NEW kind \in FaultKind, Fault(kind)
  PROVE  /\ faults' \in 0 .. Faults
         /\ harm' = harm \cup {kind}
BY FaultCounts DEF Fault, SoakTypeOK, FaultKind

LEMMA StageNames ==
  /\ DOMAIN Stages = {1, 2, 3, 4}
  /\ Stages[1] = "acl_encrypted" /\ Stages[2] = "remote_caps"
  /\ Stages[3] = "config_created" /\ Stages[4] = "cs_security"
  /\ WaitAt(1) = "wait1" /\ WaitAt(2) = "wait2"
  /\ WaitAt(3) = "wait3" /\ WaitAt(4) = "wait4"
  /\ AskAt(1) = "ask1" /\ AskAt(2) = "ask2" /\ AskAt(3) = "ask3"
  /\ AskAt(4) = "ask4" /\ AskAt(5) = "enable"
BY DEF Stages, WaitAt, AskAt

LEMMA Names ==
  /\ Sems = {"acl_encrypted", "remote_caps", "config_created", "cs_security",
             "connected", "disconnected", "procedure_done",
             "procedure_disabled"}
  /\ {WaitAt(n) : n \in DOMAIN Stages} = {"wait1", "wait2", "wait3", "wait4"}
BY StageNames DEF Sems

LEMMA SoakInitInv == SoakInit => SoakIInv
<1> SUFFICES ASSUME SoakInit PROVE SoakIInv OBVIOUS
<1>1. SoakTypeOK
  <2>1. /\ mode_switch \in BOOLEAN /\ scanning \in BOOLEAN /\ want_cs \in BOOLEAN
        /\ connecting \in BOOLEAN /\ connection \in BOOLEAN /\ arg \in BOOLEAN
        /\ due \in BOOLEAN /\ done \in BOOLEAN /\ completed \in BOOLEAN
        /\ adv \in BOOLEAN
    BY Zenon DEF SoakInit
  <2> QED
    BY <2>1, SoakFaultsIsNatural DEF SoakInit, SoakTypeOK
<1>2. OneCycle /\ Roles
  BY DEF SoakInit, OneCycle, Roles
<1>3. TakesItsOwn
  BY DEF SoakInit, TakesItsOwn, Active
<1>4. TonesLeave
  BY DEF SoakInit, TonesLeave
<1> QED BY <1>1, <1>2, <1>3, <1>4 DEF SoakIInv

-----------------------------------------------------------------------------
(* The timer, and a device that is found.                                  *)

LEMMA TriggerStep == SoakIInv /\ Trigger => SoakIInv'
BY Names
   DEF SoakIInv, SoakTypeOK, OneCycle, Roles, TakesItsOwn, TonesLeave, Active,
       Unharmed, Trigger, buildVars, linkVars, mainVars, procVars, targetVars,
       faultVars

LEMMA DeviceFoundStep == SoakIInv /\ DeviceFound => SoakIInv'
BY Names
   DEF SoakIInv, SoakTypeOK, OneCycle, Roles, TakesItsOwn, TonesLeave, Active,
       Unharmed, DeviceFound, Found, FoundFrame, NoFault, buildVars, mainVars,
       procVars, targetVars, faultVars

LEMMA CreateFailsStep == SoakIInv /\ CreateFails => SoakIInv'
<1> SUFFICES ASSUME SoakIInv, CreateFails PROVE SoakIInv' OBVIOUS
<1>1. /\ faults' \in 0 .. Faults
     /\ (harm' = harm \cup {"refused"}
         \/ harm' = harm \cup {"refused", "scan"})
  BY OneFault, FaultCounts
     DEF SoakIInv, SoakTypeOK, FaultKind, CreateFails, Found, NoConnection,
         FoundFrame, linkVars, buildVars, mainVars, procVars, targetVars
<1>2. SoakTypeOK'
  <2>1. /\ mode_switch' \in BOOLEAN /\ scanning' \in BOOLEAN /\ want_cs' \in BOOLEAN
        /\ connecting' \in BOOLEAN /\ connection' \in BOOLEAN /\ arg' \in BOOLEAN
        /\ due' \in BOOLEAN /\ done' \in BOOLEAN /\ completed' \in BOOLEAN
        /\ adv' \in BOOLEAN
    BY Zenon DEF SoakIInv, SoakTypeOK, CreateFails, Found, NoConnection,
           FoundFrame, linkVars, buildVars, mainVars, procVars, targetVars
  <2>2. /\ role' \in {"initiator", "reflector"}
        /\ link' \in {"none", "creating", "up", "closing"}
        /\ sem' \subseteq Sems /\ proc' \in {"none", "ready", "first", "last", "ending"}
        /\ main' = main
        /\ iq' \subseteq {"this", "former"} /\ enabler' \subseteq {"enable", "compute"}
        /\ target' \in {"connected", "disconnected"}
        /\ harm' \subseteq {"lost", "late", "refused", "aborted", "scan"}
    BY <1>1, Names DEF SoakIInv, SoakTypeOK, CreateFails, Found, NoConnection,
           FoundFrame, linkVars, buildVars, mainVars, procVars, targetVars
  <2> QED BY <1>1, <2>1, <2>2 DEF SoakIInv, SoakTypeOK, Ask
<1>3. OneCycle' /\ Roles'
  BY <1>1
     DEF SoakIInv, SoakTypeOK, OneCycle, Roles, CreateFails, Found,
         NoConnection, FoundFrame, linkVars, buildVars, mainVars, procVars,
         targetVars
<1>4. "late" \notin harm' => TakesItsOwn'
  BY <1>1
     DEF SoakIInv, SoakTypeOK, OneCycle, Roles, TakesItsOwn, Active,
         CreateFails, Found, NoConnection, FoundFrame, linkVars, buildVars,
         mainVars, procVars, targetVars
<1>5. Unharmed' /\ role' = "initiator" => TonesLeave'
  BY <1>1
     DEF SoakIInv, SoakTypeOK, OneCycle, Roles, TakesItsOwn, TonesLeave,
         Active, Unharmed, CreateFails, Found, NoConnection, FoundFrame,
         linkVars, buildVars, mainVars, procVars, targetVars
<1> QED BY <1>2, <1>3, <1>4, <1>5 DEF SoakIInv

-----------------------------------------------------------------------------
(* The link comes up, or does not, and goes.                               *)

LEMMA ConnectedStep == SoakIInv /\ Connected => SoakIInv'
<1> SUFFICES ASSUME SoakIInv, Connected PROVE SoakIInv' OBVIOUS
<1>1. /\ faults' \in 0 .. Faults
     /\ harm' = harm
  BY DEF SoakIInv, SoakTypeOK, FaultKind, Connected, Give, buildVars,
         scanVars, faultVars
<1>2. SoakTypeOK'
  BY <1>1, Names
     DEF SoakIInv, SoakTypeOK, Connected, Give, buildVars, scanVars, faultVars
<1>3. OneCycle' /\ Roles'
  BY <1>1
     DEF SoakIInv, SoakTypeOK, OneCycle, Roles, Connected, Give, buildVars,
         scanVars, faultVars
<1>4. "late" \notin harm' => TakesItsOwn'
  BY <1>1
     DEF SoakIInv, SoakTypeOK, OneCycle, Roles, TakesItsOwn, Active,
         Connected, Give, buildVars, scanVars, faultVars
<1>5. Unharmed' /\ role' = "initiator" => TonesLeave'
  BY <1>1
     DEF SoakIInv, SoakTypeOK, OneCycle, Roles, TakesItsOwn, TonesLeave,
         Active, Unharmed, Connected, Give, buildVars, scanVars, faultVars
<1> QED BY <1>2, <1>3, <1>4, <1>5 DEF SoakIInv

LEMMA ConnectFailsStep == SoakIInv /\ ConnectFails => SoakIInv'
<1> SUFFICES ASSUME SoakIInv, ConnectFails PROVE SoakIInv' OBVIOUS
<1>1. /\ faults' \in 0 .. Faults
     /\ (harm' = harm \cup {"refused"}
         \/ harm' = harm \cup {"refused", "scan"})
  BY OneFault, FaultCounts
     DEF SoakIInv, SoakTypeOK, FaultKind, ConnectFails, NoConnection,
         buildVars, mainVars, procVars, targetVars
<1>2. SoakTypeOK'
  <2>1. /\ mode_switch' \in BOOLEAN /\ scanning' \in BOOLEAN /\ want_cs' \in BOOLEAN
        /\ connecting' \in BOOLEAN /\ connection' \in BOOLEAN /\ arg' \in BOOLEAN
        /\ due' \in BOOLEAN /\ done' \in BOOLEAN /\ completed' \in BOOLEAN
        /\ adv' \in BOOLEAN
    BY Zenon
       DEF SoakIInv, SoakTypeOK, ConnectFails, NoConnection, buildVars,
           mainVars, procVars, targetVars
  <2>2. /\ role' \in {"initiator", "reflector"}
        /\ link' \in {"none", "creating", "up", "closing"}
        /\ sem' \subseteq Sems /\ proc' \in {"none", "ready", "first", "last", "ending"}
        /\ main' = main
        /\ iq' \subseteq {"this", "former"} /\ enabler' \subseteq {"enable", "compute"}
        /\ target' \in {"connected", "disconnected"}
        /\ harm' \subseteq {"lost", "late", "refused", "aborted", "scan"}
    BY <1>1, Names
       DEF SoakIInv, SoakTypeOK, ConnectFails, NoConnection, buildVars,
           mainVars, procVars, targetVars
  <2> QED BY <1>1, <2>1, <2>2 DEF SoakIInv, SoakTypeOK, Ask
<1>3. OneCycle' /\ Roles'
  BY <1>1
     DEF SoakIInv, SoakTypeOK, OneCycle, Roles, ConnectFails, NoConnection,
         buildVars, mainVars, procVars, targetVars
<1>4. "late" \notin harm' => TakesItsOwn'
  BY <1>1
     DEF SoakIInv, SoakTypeOK, OneCycle, Roles, TakesItsOwn, Active,
         ConnectFails, NoConnection, buildVars, mainVars, procVars, targetVars
<1>5. Unharmed' /\ role' = "initiator" => TonesLeave'
  BY <1>1
     DEF SoakIInv, SoakTypeOK, OneCycle, Roles, TakesItsOwn, TonesLeave,
         Active, Unharmed, ConnectFails, NoConnection, buildVars, mainVars,
         procVars, targetVars
<1> QED BY <1>2, <1>3, <1>4, <1>5 DEF SoakIInv

LEMMA DisconnectedStep == SoakIInv /\ Disconnected => SoakIInv'
<1> SUFFICES ASSUME SoakIInv, Disconnected PROVE SoakIInv' OBVIOUS
<1>1. /\ faults' \in 0 .. Faults
     /\ harm' = IF link = "up" THEN harm \cup {"lost"} ELSE harm
  BY OneFault
     DEF SoakIInv, SoakTypeOK, FaultKind, Disconnected, NoFault, buildVars,
         scanVars, mainVars, targetVars, faultVars
<1>2. SoakTypeOK'
  <2>1. /\ mode_switch' \in BOOLEAN /\ scanning' \in BOOLEAN /\ want_cs' \in BOOLEAN
        /\ connecting' \in BOOLEAN /\ connection' \in BOOLEAN /\ arg' \in BOOLEAN
        /\ due' \in BOOLEAN /\ done' \in BOOLEAN /\ completed' \in BOOLEAN
        /\ adv' \in BOOLEAN
    BY Zenon DEF SoakIInv, SoakTypeOK, Disconnected, NoFault, buildVars,
           scanVars, mainVars, procVars, targetVars
  <2>2. /\ role' \in {"initiator", "reflector"}
        /\ link' \in {"none", "creating", "up", "closing"}
        /\ sem' \subseteq Sems /\ proc' \in {"none", "ready", "first", "last", "ending"}
        /\ main' = main
        /\ iq' \subseteq {"this", "former"} /\ enabler' \subseteq {"enable", "compute"}
        /\ target' \in {"connected", "disconnected"}
        /\ harm' \subseteq {"lost", "late", "refused", "aborted", "scan"}
    BY <1>1, Names DEF SoakIInv, SoakTypeOK, Disconnected, NoFault, buildVars,
           scanVars, mainVars, procVars, targetVars
  <2> QED BY <1>1, <2>1, <2>2 DEF SoakIInv, SoakTypeOK, Ask
<1>3. OneCycle' /\ Roles'
  BY <1>1
     DEF SoakIInv, SoakTypeOK, OneCycle, Roles, Disconnected, NoFault,
         buildVars, scanVars, mainVars, targetVars, faultVars
<1>4. "late" \notin harm' => TakesItsOwn'
  BY <1>1
     DEF SoakIInv, SoakTypeOK, OneCycle, Roles, TakesItsOwn, Active,
         Disconnected, NoFault, buildVars, scanVars, mainVars, targetVars,
         faultVars
<1>5. Unharmed' /\ role' = "initiator" => TonesLeave'
  BY <1>1
     DEF SoakIInv, SoakTypeOK, OneCycle, Roles, TakesItsOwn, TonesLeave,
         Active, Unharmed, Disconnected, NoFault, buildVars, scanVars,
         mainVars, targetVars, faultVars
<1> QED BY <1>2, <1>3, <1>4, <1>5 DEF SoakIInv

-----------------------------------------------------------------------------
(* The target's threads.                                                   *)

LEMMA TargetConnectedStep == SoakIInv /\ TargetConnected => SoakIInv'
BY Names
   DEF SoakIInv, SoakTypeOK, OneCycle, Roles, TakesItsOwn, TonesLeave, Active,
       Unharmed, TargetConnected, TargetFrame, NoFault, procVars, buildVars,
       scanVars, linkVars, mainVars, faultVars

LEMMA TargetAdvertisesStep == SoakIInv /\ TargetAdvertises => SoakIInv'
BY Names
   DEF SoakIInv, SoakTypeOK, OneCycle, Roles, TakesItsOwn, TonesLeave, Active,
       Unharmed, TargetAdvertises, TargetFrame, NoFault, procVars, buildVars,
       scanVars, linkVars, mainVars, faultVars

LEMMA EnableThreadStep == SoakIInv /\ EnableThread => SoakIInv'
BY Names
   DEF SoakIInv, SoakTypeOK, OneCycle, Roles, TakesItsOwn, TonesLeave, Active,
       Unharmed, EnableThread, TargetFrame, NoFault, buildVars, scanVars,
       linkVars, mainVars, faultVars

LEMMA IfftThreadStep == SoakIInv /\ IfftThread => SoakIInv'
BY Names
   DEF SoakIInv, SoakTypeOK, OneCycle, Roles, TakesItsOwn, TonesLeave, Active,
       Unharmed, IfftThread, Cleared, TargetFrame, NoFault, buildVars,
       scanVars, linkVars, mainVars, faultVars

-----------------------------------------------------------------------------
(* The procedure's results.                                                *)

LEMMA FirstSubeventStep == SoakIInv /\ FirstSubevent => SoakIInv'
BY Names
   DEF SoakIInv, SoakTypeOK, OneCycle, Roles, TakesItsOwn, TonesLeave, Active,
       Unharmed, FirstSubevent, ProcFrame, NoFault, buildVars, scanVars,
       linkVars, mainVars, faultVars

LEMMA LastSubeventStep == SoakIInv /\ LastSubevent => SoakIInv'
BY Names
   DEF SoakIInv, SoakTypeOK, OneCycle, Roles, TakesItsOwn, TonesLeave, Active,
       Unharmed, LastSubevent, Give, ProcFrame, NoFault, buildVars, scanVars,
       linkVars, mainVars, faultVars

LEMMA AbortedStep == SoakIInv /\ Aborted => SoakIInv'
<1> SUFFICES ASSUME SoakIInv, Aborted PROVE SoakIInv' OBVIOUS
<1>1. /\ faults' \in 0 .. Faults
     /\ harm' = harm \cup {"aborted"}
  BY OneFault
     DEF SoakIInv, SoakTypeOK, FaultKind, Aborted, ProcFrame, buildVars,
         scanVars, linkVars, mainVars
<1>2. SoakTypeOK'
  BY <1>1, Names
     DEF SoakIInv, SoakTypeOK, Aborted, ProcFrame, buildVars, scanVars,
         linkVars, mainVars
<1>3. OneCycle' /\ Roles'
  BY <1>1
     DEF SoakIInv, SoakTypeOK, OneCycle, Roles, Aborted, ProcFrame, buildVars,
         scanVars, linkVars, mainVars
<1>4. "late" \notin harm' => TakesItsOwn'
  BY <1>1
     DEF SoakIInv, SoakTypeOK, OneCycle, Roles, TakesItsOwn, Active, Aborted,
         ProcFrame, buildVars, scanVars, linkVars, mainVars
<1>5. Unharmed' /\ role' = "initiator" => TonesLeave'
  BY <1>1
     DEF SoakIInv, SoakTypeOK, OneCycle, Roles, TakesItsOwn, TonesLeave,
         Active, Unharmed, Aborted, ProcFrame, buildVars, scanVars, linkVars,
         mainVars
<1> QED BY <1>2, <1>3, <1>4, <1>5 DEF SoakIInv

LEMMA DisabledStep == SoakIInv /\ Disabled => SoakIInv'
BY Names
   DEF SoakIInv, SoakTypeOK, OneCycle, Roles, TakesItsOwn, TonesLeave, Active,
       Unharmed, Disabled, Give, ProcFrame, NoFault, buildVars, scanVars,
       linkVars, mainVars, faultVars

-----------------------------------------------------------------------------
(* main and run_cs_cycle.                                                  *)

LEMMA MainConnectedStep == SoakIInv /\ MainConnected => SoakIInv'
<1> SUFFICES ASSUME SoakIInv, MainConnected PROVE SoakIInv' OBVIOUS
<1>1. /\ faults' \in 0 .. Faults
     /\ harm' = harm
  BY DEF SoakIInv, SoakTypeOK, FaultKind, MainConnected, Take, MainFrame,
         NoFault, buildVars, linkVars, procVars, targetVars, faultVars
<1>2. SoakTypeOK'
  <2>1. /\ mode_switch' \in BOOLEAN /\ scanning' \in BOOLEAN /\ want_cs' \in BOOLEAN
        /\ connecting' \in BOOLEAN /\ connection' \in BOOLEAN /\ arg' \in BOOLEAN
        /\ due' \in BOOLEAN /\ done' \in BOOLEAN /\ completed' \in BOOLEAN
        /\ adv' \in BOOLEAN
    BY Zenon
       DEF SoakIInv, SoakTypeOK, MainConnected, Take, MainFrame, NoFault,
           buildVars, linkVars, procVars, targetVars, faultVars
  <2>2. /\ role' \in {"initiator", "reflector"}
        /\ link' \in {"none", "creating", "up", "closing"}
        /\ sem' \subseteq Sems /\ proc' \in {"none", "ready", "first", "last", "ending"}
        /\ main' \in {"idle", "ask1"}
        /\ iq' \subseteq {"this", "former"} /\ enabler' \subseteq {"enable", "compute"}
        /\ target' \in {"connected", "disconnected"}
        /\ harm' \subseteq {"lost", "late", "refused", "aborted", "scan"}
    BY <1>1, Names
       DEF SoakIInv, SoakTypeOK, MainConnected, Take, MainFrame, NoFault,
           buildVars, linkVars, procVars, targetVars, faultVars
  <2> QED BY <1>1, <2>1, <2>2 DEF SoakIInv, SoakTypeOK, Ask
<1>3. OneCycle' /\ Roles'
  BY <1>1
     DEF SoakIInv, SoakTypeOK, OneCycle, Roles, MainConnected, Take,
         MainFrame, NoFault, buildVars, linkVars, procVars, targetVars,
         faultVars
<1>4. "late" \notin harm' => TakesItsOwn'
  BY <1>1
     DEF SoakIInv, SoakTypeOK, OneCycle, Roles, TakesItsOwn, Active,
         MainConnected, Take, MainFrame, NoFault, buildVars, linkVars,
         procVars, targetVars, faultVars
<1>5. Unharmed' /\ role' = "initiator" => TonesLeave'
  BY <1>1
     DEF SoakIInv, SoakTypeOK, OneCycle, Roles, TakesItsOwn, TonesLeave,
         Active, Unharmed, MainConnected, Take, MainFrame, NoFault, buildVars,
         linkVars, procVars, targetVars, faultVars
<1> QED BY <1>2, <1>3, <1>4, <1>5 DEF SoakIInv

LEMMA EnableStep == SoakIInv /\ Enable => SoakIInv'
BY Names
   DEF SoakIInv, SoakTypeOK, OneCycle, Roles, TakesItsOwn, TonesLeave, Active,
       Unharmed, Enable, buildVars, scanVars, linkVars, targetVars, NoFault,
       faultVars

LEMMA ProcedureDoneStep == SoakIInv /\ ProcedureDone => SoakIInv'
<1> SUFFICES ASSUME SoakIInv, ProcedureDone PROVE SoakIInv' OBVIOUS
<1>1. /\ faults' \in 0 .. Faults
     /\ harm' = harm
  BY DEF SoakIInv, SoakTypeOK, FaultKind, ProcedureDone, Take, Here, NoFault,
         MainFrame, faultVars, buildVars, linkVars, procVars, targetVars
<1>2. SoakTypeOK'
  BY <1>1, Names
     DEF SoakIInv, SoakTypeOK, ProcedureDone, Take, Here, NoFault, MainFrame,
         faultVars, buildVars, linkVars, procVars, targetVars
<1>3. OneCycle' /\ Roles'
  BY <1>1
     DEF SoakIInv, SoakTypeOK, OneCycle, Roles, ProcedureDone, Take, Here,
         NoFault, MainFrame, faultVars, buildVars, linkVars, procVars,
         targetVars
<1>4. "late" \notin harm' => TakesItsOwn'
  BY <1>1
     DEF SoakIInv, SoakTypeOK, OneCycle, Roles, TakesItsOwn, Active,
         ProcedureDone, Take, Here, NoFault, MainFrame, faultVars, buildVars,
         linkVars, procVars, targetVars
<1>5. Unharmed' /\ role' = "initiator" => TonesLeave'
  BY <1>1
     DEF SoakIInv, SoakTypeOK, OneCycle, Roles, TakesItsOwn, TonesLeave,
         Active, Unharmed, ProcedureDone, Take, Here, NoFault, MainFrame,
         faultVars, buildVars, linkVars, procVars, targetVars
<1> QED BY <1>2, <1>3, <1>4, <1>5 DEF SoakIInv

LEMMA ProcedureTimeoutStep == SoakIInv /\ ProcedureTimeout => SoakIInv'
<1> SUFFICES ASSUME SoakIInv, ProcedureTimeout PROVE SoakIInv' OBVIOUS
<1>1. /\ faults' \in 0 .. Faults
     /\ harm' = IF proc \in {"first", "last"} \/ "enable" \in enabler
                    THEN harm \cup {"late"} ELSE harm
  BY OneFault
     DEF SoakIInv, SoakTypeOK, FaultKind, ProcedureTimeout, TimeUp, Misses,
         Here, NoFault, MainFrame, faultVars, buildVars, linkVars, procVars,
         targetVars
<1>2. SoakTypeOK'
  BY <1>1, Names
     DEF SoakIInv, SoakTypeOK, ProcedureTimeout, TimeUp, Misses, Here,
         NoFault, MainFrame, faultVars, buildVars, linkVars, procVars,
         targetVars
<1>3. OneCycle' /\ Roles'
  BY <1>1
     DEF SoakIInv, SoakTypeOK, OneCycle, Roles, ProcedureTimeout, TimeUp,
         Misses, Here, NoFault, MainFrame, faultVars, buildVars, linkVars,
         procVars, targetVars
<1>4. "late" \notin harm' => TakesItsOwn'
  BY <1>1
     DEF SoakIInv, SoakTypeOK, OneCycle, Roles, TakesItsOwn, Active,
         ProcedureTimeout, TimeUp, Misses, Here, NoFault, MainFrame,
         faultVars, buildVars, linkVars, procVars, targetVars
<1>5. Unharmed' /\ role' = "initiator" => TonesLeave'
  BY <1>1
     DEF SoakIInv, SoakTypeOK, OneCycle, Roles, TakesItsOwn, TonesLeave,
         Active, Unharmed, ProcedureTimeout, TimeUp, Misses, Here, NoFault,
         MainFrame, faultVars, buildVars, linkVars, procVars, targetVars
<1> QED BY <1>2, <1>3, <1>4, <1>5 DEF SoakIInv

LEMMA ComputeStep == SoakIInv /\ Compute => SoakIInv'
BY Names
   DEF SoakIInv, SoakTypeOK, OneCycle, Roles, TakesItsOwn, TonesLeave, Active,
       Unharmed, Compute, Cleared, buildVars, scanVars, linkVars, targetVars,
       NoFault, faultVars

LEMMA DisableStep == SoakIInv /\ Disable => SoakIInv'
BY Names
   DEF SoakIInv, SoakTypeOK, OneCycle, Roles, TakesItsOwn, TonesLeave, Active,
       Unharmed, Disable, buildVars, scanVars, linkVars, targetVars, NoFault,
       faultVars

LEMMA DisableDoneStep == SoakIInv /\ DisableDone => SoakIInv'
BY Names
   DEF SoakIInv, SoakTypeOK, OneCycle, Roles, TakesItsOwn, TonesLeave, Active,
       Unharmed, DisableDone, GoesOn, Here, NoFault, MainFrame, faultVars,
       buildVars, linkVars, procVars, targetVars

LEMMA DisableTimeoutStep == SoakIInv /\ DisableTimeout => SoakIInv'
<1> SUFFICES ASSUME SoakIInv, DisableTimeout PROVE SoakIInv' OBVIOUS
<1>1. /\ faults' \in 0 .. Faults
     /\ harm' = IF proc = "ending" THEN harm \cup {"late"} ELSE harm
  BY OneFault
     DEF SoakIInv, SoakTypeOK, FaultKind, DisableTimeout, GoesOn, TimeUp,
         Here, NoFault, MainFrame, faultVars, buildVars, linkVars, procVars,
         targetVars
<1>2. SoakTypeOK'
  BY <1>1, Names
     DEF SoakIInv, SoakTypeOK, DisableTimeout, GoesOn, TimeUp, Here, NoFault,
         MainFrame, faultVars, buildVars, linkVars, procVars, targetVars
<1>3. OneCycle' /\ Roles'
  BY <1>1
     DEF SoakIInv, SoakTypeOK, OneCycle, Roles, DisableTimeout, GoesOn,
         TimeUp, Here, NoFault, MainFrame, faultVars, buildVars, linkVars,
         procVars, targetVars
<1>4. "late" \notin harm' => TakesItsOwn'
  BY <1>1
     DEF SoakIInv, SoakTypeOK, OneCycle, Roles, TakesItsOwn, Active,
         DisableTimeout, GoesOn, TimeUp, Here, NoFault, MainFrame, faultVars,
         buildVars, linkVars, procVars, targetVars
<1>5. Unharmed' /\ role' = "initiator" => TonesLeave'
  BY <1>1
     DEF SoakIInv, SoakTypeOK, OneCycle, Roles, TakesItsOwn, TonesLeave,
         Active, Unharmed, DisableTimeout, GoesOn, TimeUp, Here, NoFault,
         MainFrame, faultVars, buildVars, linkVars, procVars, targetVars
<1> QED BY <1>2, <1>3, <1>4, <1>5 DEF SoakIInv

LEMMA RemoveStep == SoakIInv /\ Remove => SoakIInv'
BY Names
   DEF SoakIInv, SoakTypeOK, OneCycle, Roles, TakesItsOwn, TonesLeave, Active,
       Unharmed, Remove, Here, NoFault, MainFrame, faultVars, buildVars,
       linkVars, procVars, targetVars

LEMMA HangupStep == SoakIInv /\ Hangup => SoakIInv'
BY Names
   DEF SoakIInv, SoakTypeOK, OneCycle, Roles, TakesItsOwn, TonesLeave, Active,
       Unharmed, Hangup, buildVars, scanVars, procVars, targetVars, NoFault,
       faultVars

LEMMA CycleEndsStep == SoakIInv /\ CycleEnds => SoakIInv'
<1> SUFFICES ASSUME SoakIInv, CycleEnds PROVE SoakIInv' OBVIOUS
<1>1. /\ faults' \in 0 .. Faults
     /\ (harm' = harm \/ harm' = harm \cup {"scan"})
  BY OneFault
     DEF SoakIInv, SoakTypeOK, FaultKind, CycleEnds, Take, Restart, Ends,
         ResumeScan, GatewayScans, buildVars, procVars, targetVars, NoFault,
         faultVars
<1>2. SoakTypeOK'
  <2>1. /\ mode_switch' \in BOOLEAN /\ scanning' \in BOOLEAN /\ want_cs' \in BOOLEAN
        /\ connecting' \in BOOLEAN /\ connection' \in BOOLEAN /\ arg' \in BOOLEAN
        /\ due' \in BOOLEAN /\ done' \in BOOLEAN /\ completed' \in BOOLEAN
        /\ adv' \in BOOLEAN
    BY Zenon
       DEF SoakIInv, SoakTypeOK, CycleEnds, Take, Restart, Ends, ResumeScan,
           GatewayScans, buildVars, procVars, targetVars, NoFault, faultVars
  <2>2. /\ role' \in {"initiator", "reflector"}
        /\ link' \in {"none", "creating", "up", "closing"}
        /\ sem' \subseteq Sems /\ proc' \in {"none", "ready", "first", "last", "ending"}
        /\ main' \in {"idle", "ask1"}
        /\ iq' \subseteq {"this", "former"} /\ enabler' \subseteq {"enable", "compute"}
        /\ target' \in {"connected", "disconnected"}
        /\ harm' \subseteq {"lost", "late", "refused", "aborted", "scan"}
    BY <1>1, Names
       DEF SoakIInv, SoakTypeOK, CycleEnds, Take, Restart, Ends, ResumeScan,
           GatewayScans, buildVars, procVars, targetVars, NoFault, faultVars
  <2> QED BY <1>1, <2>1, <2>2 DEF SoakIInv, SoakTypeOK, Ask
<1>3. OneCycle' /\ Roles'
  BY <1>1
     DEF SoakIInv, SoakTypeOK, OneCycle, Roles, CycleEnds, Take, Restart,
         Ends, ResumeScan, GatewayScans, buildVars, procVars, targetVars,
         NoFault, faultVars
<1>4. "late" \notin harm' => TakesItsOwn'
  BY <1>1
     DEF SoakIInv, SoakTypeOK, OneCycle, Roles, TakesItsOwn, Active,
         CycleEnds, Take, Restart, Ends, ResumeScan, GatewayScans, buildVars,
         procVars, targetVars, NoFault, faultVars
<1>5. Unharmed' /\ role' = "initiator" => TonesLeave'
  BY <1>1
     DEF SoakIInv, SoakTypeOK, OneCycle, Roles, TakesItsOwn, TonesLeave,
         Active, Unharmed, CycleEnds, Take, Restart, Ends, ResumeScan,
         GatewayScans, buildVars, procVars, targetVars, NoFault, faultVars
<1> QED BY <1>2, <1>3, <1>4, <1>5 DEF SoakIInv

LEMMA CycleTimesOutStep == SoakIInv /\ CycleTimesOut => SoakIInv'
<1> SUFFICES ASSUME SoakIInv, CycleTimesOut PROVE SoakIInv' OBVIOUS
<1>1. /\ faults' \in 0 .. Faults
     /\ (\E kinds \in SUBSET {"late", "scan"} :
            /\ harm' = harm \cup kinds
            /\ link = "closing" => "late" \in kinds)
  BY FaultCounts
     DEF SoakIInv, SoakTypeOK, FaultKind, CycleTimesOut, Ends, buildVars,
         procVars, targetVars
<1>2. SoakTypeOK'
  <2>1. /\ mode_switch' \in BOOLEAN /\ scanning' \in BOOLEAN /\ want_cs' \in BOOLEAN
        /\ connecting' \in BOOLEAN /\ connection' \in BOOLEAN /\ arg' \in BOOLEAN
        /\ due' \in BOOLEAN /\ done' \in BOOLEAN /\ completed' \in BOOLEAN
        /\ adv' \in BOOLEAN
    BY Zenon
       DEF SoakIInv, SoakTypeOK, CycleTimesOut, Ends, buildVars, procVars,
           targetVars
  <2>2. /\ role' \in {"initiator", "reflector"}
        /\ link' \in {"none", "creating", "up", "closing"}
        /\ sem' \subseteq Sems /\ proc' \in {"none", "ready", "first", "last", "ending"}
        /\ main' \in {"idle", "ask1"}
        /\ iq' \subseteq {"this", "former"} /\ enabler' \subseteq {"enable", "compute"}
        /\ target' \in {"connected", "disconnected"}
        /\ harm' \subseteq {"lost", "late", "refused", "aborted", "scan"}
    BY <1>1, Names
       DEF SoakIInv, SoakTypeOK, CycleTimesOut, Ends, buildVars, procVars,
           targetVars
  <2> QED BY <1>1, <2>1, <2>2 DEF SoakIInv, SoakTypeOK, Ask
<1>3. OneCycle' /\ Roles'
  BY <1>1
     DEF SoakIInv, SoakTypeOK, OneCycle, Roles, CycleTimesOut, Ends,
         buildVars, procVars, targetVars
<1>4. "late" \notin harm' => TakesItsOwn'
  BY <1>1
     DEF SoakIInv, SoakTypeOK, OneCycle, Roles, TakesItsOwn, Active,
         CycleTimesOut, Ends, buildVars, procVars, targetVars
<1>5. Unharmed' /\ role' = "initiator" => TonesLeave'
  BY <1>1
     DEF SoakIInv, SoakTypeOK, OneCycle, Roles, TakesItsOwn, TonesLeave,
         Active, Unharmed, CycleTimesOut, Ends, buildVars, procVars,
         targetVars
<1> QED BY <1>2, <1>3, <1>4, <1>5 DEF SoakIInv

-----------------------------------------------------------------------------
(* The requests of a cycle, their answers and main's waits for them.        *)

\* The names of stage n: its semaphore, the wait for it, what asks for it and
\* what comes next.
LEMMA StageCases ==
  ASSUME NEW n \in DOMAIN Stages
  PROVE  \/ /\ n = 1 /\ Stages[n] = "acl_encrypted" /\ WaitAt(n) = "wait1"
            /\ AskAt(n) = "ask1" /\ AskAt(n + 1) = "ask2"
         \/ /\ n = 2 /\ Stages[n] = "remote_caps" /\ WaitAt(n) = "wait2"
            /\ AskAt(n) = "ask2" /\ AskAt(n + 1) = "ask3"
         \/ /\ n = 3 /\ Stages[n] = "config_created" /\ WaitAt(n) = "wait3"
            /\ AskAt(n) = "ask3" /\ AskAt(n + 1) = "ask4"
         \/ /\ n = 4 /\ Stages[n] = "cs_security" /\ WaitAt(n) = "wait4"
            /\ AskAt(n) = "ask4" /\ AskAt(n + 1) = "enable"
BY StageNames

LEMMA AnswerOkStep ==
  ASSUME SoakIInv, NEW n \in DOMAIN Stages, AnswerOk(n)
  PROVE  SoakIInv'
<1>1. /\ faults' \in 0 .. Faults
     /\ harm' = harm
  BY DEF SoakIInv, SoakTypeOK, FaultKind, AnswerOk, Give, AnswerFrame,
         NoFault, buildVars, scanVars, linkVars, mainVars, faultVars
<1>2. SoakTypeOK'
  <2>1. main' = main /\ sem' \subseteq Sems
    BY StageCases, Names
       DEF SoakIInv, SoakTypeOK, AnswerOk, Give, AnswerFrame, NoFault,
           buildVars, scanVars, linkVars, mainVars, faultVars
  <2>2. due' \in BOOLEAN /\ main' \in {"wait1", "wait2", "wait3", "wait4", "enable",
                                      "hangup"} \cup Ask
    BY <2>1, StageCases
       DEF Ask, SoakIInv, SoakTypeOK, AnswerOk, Give, AnswerFrame, NoFault,
           buildVars, scanVars, linkVars, mainVars, faultVars
  <2>3. /\ proc' \in {"none", "ready", "first", "last", "ending"}
        /\ enabler' \subseteq {"enable", "compute"}
    BY DEF SoakIInv, SoakTypeOK, AnswerOk
  <2>4. UNCHANGED <<mode_switch, role, scanning, want_cs, connecting, connection,
                    link, arg, done, completed, iq, adv, target, faults, harm>>
    BY DEF AnswerOk, AnswerFrame, NoFault, buildVars, scanVars, linkVars,
           mainVars, faultVars
  <2> QED BY <2>1, <2>2, <2>3, <2>4 DEF SoakIInv, SoakTypeOK
<1>3. OneCycle' /\ Roles'
  BY <1>1, StageCases
     DEF SoakIInv, SoakTypeOK, OneCycle, Roles, AnswerOk, Give, AnswerFrame,
         NoFault, buildVars, scanVars, linkVars, mainVars, faultVars
<1>4. "late" \notin harm' => TakesItsOwn'
  BY <1>1, StageCases
     DEF SoakIInv, SoakTypeOK, OneCycle, Roles, TakesItsOwn, Active, AnswerOk,
         Give, AnswerFrame, NoFault, buildVars, scanVars, linkVars, mainVars,
         faultVars
<1>5. Unharmed' /\ role' = "initiator" => TonesLeave'
  BY <1>1, StageCases
     DEF SoakIInv, SoakTypeOK, OneCycle, Roles, TakesItsOwn, TonesLeave,
         Active, Unharmed, AnswerOk, Give, AnswerFrame, NoFault, buildVars,
         scanVars, linkVars, mainVars, faultVars
<1> QED BY <1>2, <1>3, <1>4, <1>5 DEF SoakIInv

LEMMA AnswerFailsStep ==
  ASSUME SoakIInv, NEW n \in DOMAIN Stages, AnswerFails(n)
  PROVE  SoakIInv'
<1>1. /\ faults' \in 0 .. Faults
     /\ harm' = harm \cup {"refused"}
  BY OneFault
     DEF SoakIInv, SoakTypeOK, FaultKind, AnswerFails, Give, AnswerFrame,
         buildVars, scanVars, linkVars, mainVars
<1>2. SoakTypeOK'
  <2>1. main' = main /\ sem' \subseteq Sems
    BY StageCases, Names
       DEF SoakIInv, SoakTypeOK, AnswerFails, Give, AnswerFrame, buildVars,
           scanVars, linkVars, mainVars
  <2>2. due' \in BOOLEAN /\ main' \in {"wait1", "wait2", "wait3", "wait4", "enable",
                                      "hangup"} \cup Ask
    BY <2>1, StageCases
       DEF Ask, SoakIInv, SoakTypeOK, AnswerFails, Give, AnswerFrame,
           buildVars, scanVars, linkVars, mainVars
  <2> QED
    BY <1>1, <2>1, <2>2, Names
       DEF SoakIInv, SoakTypeOK, AnswerFails, Give, AnswerFrame, buildVars,
           scanVars, linkVars, mainVars
<1>3. OneCycle' /\ Roles'
  BY <1>1, StageCases
     DEF SoakIInv, SoakTypeOK, OneCycle, Roles, AnswerFails, Give,
         AnswerFrame, buildVars, scanVars, linkVars, mainVars
<1>4. "late" \notin harm' => TakesItsOwn'
  BY <1>1, StageCases
     DEF SoakIInv, SoakTypeOK, OneCycle, Roles, TakesItsOwn, Active,
         AnswerFails, Give, AnswerFrame, buildVars, scanVars, linkVars,
         mainVars
<1>5. Unharmed' /\ role' = "initiator" => TonesLeave'
  BY <1>1, StageCases
     DEF SoakIInv, SoakTypeOK, OneCycle, Roles, TakesItsOwn, TonesLeave,
         Active, Unharmed, AnswerFails, Give, AnswerFrame, buildVars,
         scanVars, linkVars, mainVars
<1> QED BY <1>2, <1>3, <1>4, <1>5 DEF SoakIInv

LEMMA RequestStep ==
  ASSUME SoakIInv, NEW n \in DOMAIN Stages, Request(n)
  PROVE  SoakIInv'
<1>1. /\ faults' \in 0 .. Faults
     /\ harm' = harm
  BY DEF SoakIInv, SoakTypeOK, FaultKind, Request, Here, NoFault, MainFrame,
         faultVars, buildVars, linkVars, procVars, targetVars
<1>2. SoakTypeOK'
  <2>1. main' \in {AskAt(n), AskAt(n + 1), WaitAt(n), "hangup"} /\ sem' \subseteq Sems
    BY StageCases, Names
       DEF SoakIInv, SoakTypeOK, Request, Here, NoFault, MainFrame,
           faultVars, buildVars, linkVars, procVars, targetVars
  <2>2. due' \in BOOLEAN /\ main' \in {"wait1", "wait2", "wait3", "wait4", "enable",
                                      "hangup"} \cup Ask
    BY <2>1, StageCases
       DEF Ask, SoakIInv, SoakTypeOK, Request, Here, NoFault, MainFrame,
           faultVars, buildVars, linkVars, procVars, targetVars
  <2> QED
    BY <1>1, <2>1, <2>2, Names
       DEF SoakIInv, SoakTypeOK, Request, Here, NoFault, MainFrame,
           faultVars, buildVars, linkVars, procVars, targetVars
<1>3. OneCycle' /\ Roles'
  BY <1>1, StageCases
     DEF SoakIInv, SoakTypeOK, OneCycle, Roles, Request, Here, NoFault,
         MainFrame, faultVars, buildVars, linkVars, procVars, targetVars
<1>4. "late" \notin harm' => TakesItsOwn'
  BY <1>1, StageCases
     DEF SoakIInv, SoakTypeOK, OneCycle, Roles, TakesItsOwn, Active, Request,
         Here, NoFault, MainFrame, faultVars, buildVars, linkVars, procVars,
         targetVars
<1>5. Unharmed' /\ role' = "initiator" => TonesLeave'
  BY <1>1, StageCases
     DEF SoakIInv, SoakTypeOK, OneCycle, Roles, TakesItsOwn, TonesLeave,
         Active, Unharmed, Request, Here, NoFault, MainFrame, faultVars,
         buildVars, linkVars, procVars, targetVars
<1> QED BY <1>2, <1>3, <1>4, <1>5 DEF SoakIInv

LEMMA WaitStep ==
  ASSUME SoakIInv, NEW n \in DOMAIN Stages, Wait(n)
  PROVE  SoakIInv'
<1>1. /\ faults' \in 0 .. Faults
     /\ harm' = harm
  BY DEF SoakIInv, SoakTypeOK, FaultKind, Wait, Take, Here, NoFault,
         MainFrame, faultVars, buildVars, linkVars, procVars, targetVars
<1>2. SoakTypeOK'
  <2>1. main' \in {AskAt(n), AskAt(n + 1), WaitAt(n), "hangup"} /\ sem' \subseteq Sems
    BY StageCases, Names
       DEF SoakIInv, SoakTypeOK, Wait, Take, Here, NoFault, MainFrame,
           faultVars, buildVars, linkVars, procVars, targetVars
  <2>2. due' \in BOOLEAN /\ main' \in {"wait1", "wait2", "wait3", "wait4", "enable",
                                      "hangup"} \cup Ask
    BY <2>1, StageCases
       DEF Ask, SoakIInv, SoakTypeOK, Wait, Take, Here, NoFault, MainFrame,
           faultVars, buildVars, linkVars, procVars, targetVars
  <2> QED
    BY <1>1, <2>1, <2>2, Names
       DEF SoakIInv, SoakTypeOK, Wait, Take, Here, NoFault, MainFrame,
           faultVars, buildVars, linkVars, procVars, targetVars
<1>3. OneCycle' /\ Roles'
  BY <1>1, StageCases
     DEF SoakIInv, SoakTypeOK, OneCycle, Roles, Wait, Take, Here, NoFault,
         MainFrame, faultVars, buildVars, linkVars, procVars, targetVars
<1>4. "late" \notin harm' => TakesItsOwn'
  BY <1>1, StageCases
     DEF SoakIInv, SoakTypeOK, OneCycle, Roles, TakesItsOwn, Active, Wait,
         Take, Here, NoFault, MainFrame, faultVars, buildVars, linkVars,
         procVars, targetVars
<1>5. Unharmed' /\ role' = "initiator" => TonesLeave'
  BY <1>1, StageCases
     DEF SoakIInv, SoakTypeOK, OneCycle, Roles, TakesItsOwn, TonesLeave,
         Active, Unharmed, Wait, Take, Here, NoFault, MainFrame, faultVars,
         buildVars, linkVars, procVars, targetVars
<1> QED BY <1>2, <1>3, <1>4, <1>5 DEF SoakIInv

LEMMA WaitTimeoutStep ==
  ASSUME SoakIInv, NEW n \in DOMAIN Stages, WaitTimeout(n)
  PROVE  SoakIInv'
<1>1. /\ faults' \in 0 .. Faults
     /\ harm' = IF due THEN harm \cup {"late"} ELSE harm
  BY OneFault
     DEF SoakIInv, SoakTypeOK, FaultKind, WaitTimeout, TimeUp, Here, NoFault,
         MainFrame, faultVars, buildVars, linkVars, procVars, targetVars
<1>2. SoakTypeOK'
  <2>1. main' \in {AskAt(n), AskAt(n + 1), WaitAt(n), "hangup"} /\ sem' \subseteq Sems
    BY StageCases, Names
       DEF SoakIInv, SoakTypeOK, WaitTimeout, TimeUp, Here, NoFault,
           MainFrame, faultVars, buildVars, linkVars, procVars, targetVars
  <2>2. due' \in BOOLEAN /\ main' \in {"wait1", "wait2", "wait3", "wait4", "enable",
                                      "hangup"} \cup Ask
    BY <2>1, StageCases
       DEF Ask, SoakIInv, SoakTypeOK, WaitTimeout, TimeUp, Here, NoFault,
           MainFrame, faultVars, buildVars, linkVars, procVars, targetVars
  <2> QED
    BY <1>1, <2>1, <2>2, Names
       DEF SoakIInv, SoakTypeOK, WaitTimeout, TimeUp, Here, NoFault,
           MainFrame, faultVars, buildVars, linkVars, procVars, targetVars
<1>3. OneCycle' /\ Roles'
  BY <1>1, StageCases
     DEF SoakIInv, SoakTypeOK, OneCycle, Roles, WaitTimeout, TimeUp, Here,
         NoFault, MainFrame, faultVars, buildVars, linkVars, procVars,
         targetVars
<1>4. "late" \notin harm' => TakesItsOwn'
  BY <1>1, StageCases
     DEF SoakIInv, SoakTypeOK, OneCycle, Roles, TakesItsOwn, Active,
         WaitTimeout, TimeUp, Here, NoFault, MainFrame, faultVars, buildVars,
         linkVars, procVars, targetVars
<1>5. Unharmed' /\ role' = "initiator" => TonesLeave'
  BY <1>1, StageCases
     DEF SoakIInv, SoakTypeOK, OneCycle, Roles, TakesItsOwn, TonesLeave,
         Active, Unharmed, WaitTimeout, TimeUp, Here, NoFault, MainFrame,
         faultVars, buildVars, linkVars, procVars, targetVars
<1> QED BY <1>2, <1>3, <1>4, <1>5 DEF SoakIInv

-----------------------------------------------------------------------------
(* What these show of the specification.                                    *)

LEMMA SoakStutter == SoakIInv /\ UNCHANGED soakVars => SoakIInv'
BY DEF SoakIInv, SoakTypeOK, OneCycle, Roles, TakesItsOwn, TonesLeave, Active,
       Unharmed, soakVars, buildVars, scanVars, linkVars, mainVars, procVars,
       targetVars, faultVars

LEMMA SoakInductive == SoakSpec => []SoakIInv
<1>1. SoakIInv /\ [SoakNext]_soakVars => SoakIInv'
  BY TriggerStep, DeviceFoundStep, CreateFailsStep, ConnectedStep,
     ConnectFailsStep, DisconnectedStep, TargetConnectedStep,
     TargetAdvertisesStep, EnableThreadStep, IfftThreadStep,
     FirstSubeventStep, LastSubeventStep, AbortedStep, DisabledStep,
     MainConnectedStep, EnableStep, ProcedureDoneStep, ProcedureTimeoutStep,
     ComputeStep, DisableStep, DisableDoneStep, DisableTimeoutStep,
     RemoveStep, HangupStep, CycleEndsStep, CycleTimesOutStep, AnswerOkStep,
     AnswerFailsStep, RequestStep, WaitStep, WaitTimeoutStep, SoakStutter
     DEF SoakNext, Main, Air, Target
<1> QED BY SoakInitInv, <1>1, PTL DEF SoakSpec

\* Type correctness of the gateway and its target.
THEOREM SoakTypeCorrect == SoakSpec => []SoakTypeOK
<1>1. SoakIInv => SoakTypeOK
  BY DEF SoakIInv
<1> QED BY SoakInductive, <1>1, PTL

\* Whatever links are lost, procedures aborted, requests refused and answers
\* late, a cycle that returns success had a procedure of its own link complete
\* (late answers excepted), and what the initiator computes are the tones of
\* that link only (a late answer, a lost link or an abort excepted).
THEOREM CyclesUseTheirOwn == SoakSpec => []SoakSafe
<1>1. SoakIInv => OkIsOwn
  BY DEF SoakIInv, TakesItsOwn, OkIsOwn
<1>2. SoakIInv => TonesAreOwn
  BY DEF SoakIInv, SoakTypeOK, Roles, TonesLeave, Unharmed, TonesAreOwn
<1>3. SoakIInv => SoakSafe
  BY <1>1, <1>2 DEF SoakIInv, SoakSafe
<1> QED BY SoakInductive, <1>3, PTL

\* Between two cycles no completion of a procedure, on either side, is left for
\* the cycle to come.
NoneLeftOver ==
  "late" \notin harm /\ main = "idle" =>
    "procedure_done" \notin sem /\ "enable" \notin enabler

\* In either build and role, whatever else goes wrong, no procedure of a former
\* link leaves its semaphore to the cycle of a later one, though nothing resets
\* it, if no answer is late.
THEOREM NothingIsLeftOver == SoakSpec => []NoneLeftOver
<1>1. SoakIInv => NoneLeftOver
  BY DEF SoakIInv, TakesItsOwn, Active, NoneLeftOver
<1> QED BY SoakInductive, <1>1, PTL
=============================================================================
