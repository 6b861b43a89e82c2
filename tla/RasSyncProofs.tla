---------------------------- MODULE RasSyncProofs ----------------------------
(***************************************************************************)
(* The turns of cs_ras_multi, for any number of initiators, connections,   *)
(* attempts and faults: the reflector scans while it has room, two         *)
(* initiators never sound at once while every answer is in time, and only  *)
(* its own initiator's completion ends a turn.                             *)
(***************************************************************************)
EXTENDS RasSync, FiniteSetTheorems, SequenceTheorems, WellFoundedInduction,
        TLAPS

Used == {s \in Slot : connections[s] # NULL}

\* The connections: an initiator has one object and an object one slot, the
\* slots are counted, and what a device has asked for or is told goes with its
\* link.
Links ==
  /\ \A o, p \in Object : peer[o] # NULL /\ peer[o] = peer[p] => o = p
  /\ connecting # NULL => ~Linked(connecting)
  /\ \A s \in Slot : connections[s] # NULL => peer[connections[s]] # NULL
  /\ \A r, s \in Slot :
       connections[r] # NULL /\ connections[r] = connections[s] => r = s
  /\ conn_count = Cardinality(Used)

\* Of each device: who is stuck in its set-up is not subscribed; a wait is for
\* one of the attempts.
Devices ==
  \A i \in Initiator : /\ boot[i] = "stuck" => ~subscribed[i]
                       /\ subscribed[i] => Linked(i)
                       /\ acq[i] = "wait" => attempt[i] < Attempts

\* If no link was lost in its turn: the thread's pointer is to a connection,
\* active_conn is that one or none, and a completion that was given since the
\* reset is that initiator's.
Pointer ==
  /\ thread # "top" => next_conn \in Object /\ peer[next_conn] # NULL
  /\ active_conn # NULL => /\ thread \notin {"top", "picked"}
                           /\ active_conn = next_conn
  /\ thread \in {"indicate", "confirm", "ranging"} /\ ranging_complete =>
       completer = peer[next_conn]

\* A device that has been told, or is about to be, and has yet to complete.
Acting(i) == \/ acq[i] \in {"ranging", "adrift", "write"}
             \/ acq[i] = "wait" /\ writes[i] = <<"sent">>
Busy(i) == pending[i] > 0 \/ start_ranging[i] \/ Acting(i)

\* If every answer comes in time besides, only the device whose turn it is is
\* busy, with one thing at a time, and the reflector waits for it; each writes
\* once, and is not refused.
OneBusy ==
  /\ thread \in {"active", "indicate"} => active_conn = next_conn
  /\ thread = "indicate" => ~ranging_complete
  /\ thread \in {"confirm", "ranging"} => subscribed[peer[next_conn]]
  /\ thread = "confirm" => pending[peer[next_conn]] > 0 \/ indication_complete
  /\ \A i \in Initiator :
       /\ Busy(i) => /\ thread \in {"confirm", "ranging"}
                     /\ peer[next_conn] = i
                     /\ active_conn = next_conn
                     /\ ~ranging_complete
       /\ pending[i] > 0 => pending[i] = 1 /\ ~start_ranging[i] /\ ~Acting(i)
       /\ start_ranging[i] => ~Acting(i)
       /\ writes[i] \in {<<>>, <<"sent">>, <<"ok">>}
       /\ acq[i] = "wait" => (writes[i] = <<>> <=> write_done[i])
       /\ acq[i] # "wait" => writes[i] = <<>> /\ ~write_done[i]
       /\ att_err[i] # "other"

RasIInv ==
  /\ RasTypeOK /\ Links /\ Devices /\ ScansUnlessFailed
  /\ "cut" \notin harm => Pointer
  /\ Orderly => OneBusy

-----------------------------------------------------------------------------
(* The slots, the faults, and the initial state.                            *)

LEMMA SlotsAreObjects ==
  /\ Object = Slot /\ Slot = 0 .. MaxConn - 1 /\ Slot \subseteq Nat
  /\ 0 \in Slot /\ NULL \notin Slot /\ NULL \notin Initiator
BY MaxConnIsPositive, NullIsNoDevice DEF Slot, Object

\* A set of numbers with a member has a least one.
LEMMA LeastExists ==
  ASSUME NEW S \in SUBSET Nat, S # {}
  PROVE  \E n \in S : \A m \in S : n <= m
<1> DEFINE Less == {ss \in Nat \X Nat : ss[1] < ss[2]}
<1>1. IsWellFoundedOn(Less, Nat)
  BY NatLessThanWellFounded DEF OpToRel
<1>2. PICK n \in S : \A m \in S : <<m, n>> \notin Less
  <2> HIDE DEF Less
  <2> QED BY <1>1, WFMin
<1>3. \A m \in S : m \in Nat /\ n \in Nat /\ ~(m < n)
  BY <1>2
<1> QED BY <1>3

\* connected takes a slot that is free.
LEMMA FirstFreeIsFree ==
  ASSUME RasTypeOK, \E s \in Slot : connections[s] = NULL
  PROVE  FirstFree \in Slot /\ connections[FirstFree] = NULL
<1> DEFINE S == {s \in Slot : connections[s] = NULL}
<1>1. S \in SUBSET Nat /\ S # {}
  BY SlotsAreObjects
<1>2. \E n \in S : \A m \in S : n <= m
  BY <1>1, LeastExists
<1>3. \E s \in Slot : connections[s] = NULL
                      /\ \A r \in Slot : connections[r] = NULL => s <= r
  BY <1>2
<1> QED BY <1>3 DEF FirstFree

\* Every slot is some way from turn_idx on, and the thread finds one in use.
LEMMA AfterReaches ==
  ASSUME RasTypeOK, NEW s \in Slot
  PROVE  \E n \in Slot : After(n) = s
<1>1. \A x \in 0 .. MaxConn - 1 : x % MaxConn = x /\ (x + MaxConn) % MaxConn = x
  BY MaxConnIsPositive
<1>2. /\ turn_idx \in 0 .. MaxConn - 1 /\ s \in 0 .. MaxConn - 1
      /\ MaxConn \in Nat \ {0}
  BY MaxConnIsPositive DEF RasTypeOK, Slot
<1>3. CASE s >= turn_idx
  <2>1. s - turn_idx \in Slot /\ turn_idx + (s - turn_idx) = s
    BY <1>2, <1>3 DEF Slot
  <2> QED BY <1>1, <1>2, <2>1 DEF After
<1>4. CASE s < turn_idx
  <2>1. /\ s + MaxConn - turn_idx \in Slot
        /\ turn_idx + (s + MaxConn - turn_idx) = s + MaxConn
    BY <1>2, <1>4 DEF Slot
  <2> QED BY <1>1, <1>2, <2>1 DEF After
<1> QED BY <1>2, <1>3, <1>4

LEMMA PickIsUsed ==
  ASSUME RasTypeOK, Used # {}
  PROVE  After(Distance) \in Slot /\ connections[After(Distance)] # NULL
<1> DEFINE S == {n \in Slot : connections[After(n)] # NULL}
<1>1. PICK s \in Slot : connections[s] # NULL
  BY DEF Used
<1>2. S \in SUBSET Nat /\ S # {}
  BY <1>1, AfterReaches, SlotsAreObjects
<1>3. \E n \in S : \A m \in S : n <= m
  BY <1>2, LeastExists
<1>4. \E n \in Slot : /\ connections[After(n)] # NULL
                      /\ \A m \in Slot :
                           connections[After(m)] # NULL => n <= m
  BY <1>3
<1>5. Distance \in Slot /\ connections[After(Distance)] # NULL
  BY <1>4 DEF Distance
<1>6. After(Distance) \in 0 .. MaxConn - 1
  BY <1>5, MaxConnIsPositive DEF After, RasTypeOK, Slot
<1> QED BY <1>5, <1>6 DEF Slot

LEMMA UsedIsFinite ==
  /\ IsFiniteSet(Slot) /\ Cardinality(Slot) = MaxConn
  /\ IsFiniteSet(Used) /\ Cardinality(Used) \in 0 .. MaxConn
  /\ Used # Slot => Cardinality(Used) < MaxConn
  /\ Used # {} <=> Cardinality(Used) > 0
<1>1. IsFiniteSet(Slot) /\ Cardinality(Slot) = MaxConn
  BY FS_Interval, MaxConnIsPositive DEF Slot
<1>2. Used \subseteq Slot
  BY DEF Used
<1>3. /\ IsFiniteSet(Used) /\ Cardinality(Used) \in Nat
      /\ Cardinality(Used) <= MaxConn
      /\ Used # Slot => Cardinality(Used) < MaxConn
  BY <1>1, <1>2, FS_Subset, FS_CardinalityType
<1>4. Used # {} <=> Cardinality(Used) > 0
  BY <1>3, FS_EmptySet
<1> QED BY <1>1, <1>3, <1>4, MaxConnIsPositive

\* A step counts its faults within the bound and remembers their kinds.
LEMMA OneFault ==
  ASSUME RasTypeOK, NEW kinds \in SUBSET Kind, Fault(kinds)
  PROVE  /\ faults' \in 0 .. Faults /\ harm' \subseteq Kind
         /\ harm' = harm \cup kinds
BY FaultsIsNatural DEF RasTypeOK, Fault

LEMMA TimeIsUp ==
  ASSUME RasTypeOK, NEW coming \in BOOLEAN, TimeUp(coming)
  PROVE  /\ faults' \in 0 .. Faults /\ harm' \subseteq Kind
         /\ harm' = IF coming THEN harm \cup {"late"} ELSE harm
<1>1. CASE coming
  <2>1. Fault({"late"}) /\ {"late"} \in SUBSET Kind
    BY <1>1 DEF TimeUp, Kind
  <2> QED BY <1>1, <2>1, OneFault
<1>2. CASE ~coming
  BY <1>2 DEF TimeUp, OnTime, faultVars, RasTypeOK
<1> QED BY <1>1, <1>2

LEMMA RasInitInv == RasInit => RasIInv
<1> SUFFICES ASSUME RasInit PROVE RasIInv OBVIOUS
<1>1. RasTypeOK
  <2>1. [i \in Initiator |-> <<>>]
          \in [Initiator -> Seq({"sent", "ok", "unlikely", "other"})]
    BY EmptySeq
  <2>2. scanning \in BOOLEAN /\ indication_complete \in BOOLEAN
        /\ ranging_complete \in BOOLEAN
    BY Zenon DEF RasInit
  <2> QED
    BY <2>1, <2>2, SlotsAreObjects, MaxConnIsPositive, AttemptsIsPositive,
       FaultsIsNatural
       DEF RasInit, RasTypeOK
<1>2. Links
  <2>1. Used = {}
    BY DEF RasInit, Used
  <2> QED BY <2>1, FS_EmptySet DEF RasInit, Links
<1>3. Devices /\ ScansUnlessFailed
  BY DEF RasInit, Devices, ScansUnlessFailed
<1>4. Pointer
  BY DEF RasInit, Pointer
<1>5. OneBusy
  BY DEF RasInit, OneBusy, Busy, Acting
<1> QED BY <1>1, <1>2, <1>3, <1>4, <1>5 DEF RasIInv

-----------------------------------------------------------------------------
(* The reflector's connections.                                            *)

LEMMA MatchStep ==
  ASSUME RasIInv, NEW i \in Initiator, Match(i)
  PROVE  RasIInv'
<1>1. RasTypeOK /\ Links /\ Devices /\ ScansUnlessFailed
  BY DEF RasIInv
<1>2. UNCHANGED <<faults, harm>>
  BY DEF Match, turnVars, iniVars, airVars, faultVars
<1>3. RasTypeOK'
  BY <1>1, <1>2, SlotsAreObjects
     DEF RasTypeOK, Match, turnVars, iniVars, airVars, faultVars
<1>4. Links'
  BY <1>1
     DEF Links, Linked, Used, Match, turnVars, iniVars, airVars, faultVars
<1>5. Devices'
  BY <1>1
     DEF RasTypeOK, Devices, Linked, Links, Match, turnVars, iniVars, airVars,
         faultVars
<1>6. ScansUnlessFailed'
  BY <1>1, SlotsAreObjects DEF ScansUnlessFailed, Room, Match, turnVars
<1>7. "cut" \notin harm' => Pointer'
  BY <1>1, <1>2
     DEF RasIInv, RasTypeOK, Links, Pointer, Match, turnVars, iniVars,
         airVars, faultVars
<1>8. Orderly' => OneBusy'
  BY <1>1, <1>2
     DEF RasIInv, RasTypeOK, Links, Devices, Linked, Pointer, OneBusy, Busy,
         Acting, Orderly, Match, turnVars, iniVars, airVars, faultVars
<1> QED BY <1>3, <1>4, <1>5, <1>6, <1>7, <1>8 DEF RasIInv

LEMMA ConnectedStep ==
  ASSUME RasIInv, NEW o \in Object, Connected(o)
  PROVE  RasIInv'
<1>1. RasTypeOK /\ Links /\ Devices /\ ScansUnlessFailed
  BY DEF RasIInv
<1>2. UNCHANGED <<faults, harm>>
  BY DEF Connected, ScanAgain, turnVars, iniVars, airVars, faultVars
<1>3. RasTypeOK'
  <2>1. UNCHANGED <<turnVars, iniVars, airVars, faultVars, bad>>
        /\ connecting' = NULL /\ scanning' = (conn_count' < MaxConn)
        /\ peer' = [peer EXCEPT ![o] = connecting] /\ connecting \in Initiator
    BY <1>1 DEF Connected, ScanAgain, RasTypeOK
  <2>2. CASE \E s \in Slot : connections[s] = NULL
    <3>1. FirstFree \in Slot
      BY <1>1, <2>2, FirstFreeIsFree
    <3>2. Used # Slot
      BY <2>2 DEF Used
    <3>3. conn_count + 1 \in 0 .. MaxConn
      BY <1>1, <3>2, UsedIsFinite, MaxConnIsPositive DEF Links
    <3>4. /\ connections' = [connections EXCEPT ![FirstFree] = o]
          /\ conn_count' = conn_count + 1
      BY <2>2 DEF Connected
    <3> QED
      BY <1>1, <2>1, <3>1, <3>3, <3>4
         DEF RasTypeOK, turnVars, iniVars, airVars, faultVars
  <2>3. CASE ~\E s \in Slot : connections[s] = NULL
    <3>1. UNCHANGED <<connections, conn_count>>
      BY <2>3 DEF Connected
    <3> QED
      BY <1>1, <2>1, <3>1 DEF RasTypeOK, turnVars, iniVars, airVars, faultVars
  <2> QED BY <2>2, <2>3
<1>4. Links'
  <2>1. /\ connecting' = NULL /\ connecting \in Initiator /\ ~Linked(connecting)
        /\ peer[o] = NULL /\ peer' = [peer EXCEPT ![o] = connecting]
        /\ \A s \in Slot : connections[s] # o
    BY <1>1, SlotsAreObjects DEF Connected, RasTypeOK, Links
  <2>2. \A p, q \in Object : peer'[p] # NULL /\ peer'[p] = peer'[q] => p = q
    BY <1>1, <2>1 DEF RasTypeOK, Links, Linked
  <2>3. CASE \E s \in Slot : connections[s] = NULL
    <3>1. /\ FirstFree \in Slot /\ connections[FirstFree] = NULL
          /\ connections' = [connections EXCEPT ![FirstFree] = o]
          /\ conn_count' = conn_count + 1
      BY <1>1, <2>3, FirstFreeIsFree DEF Connected
    <3>2. Used' = Used \cup {FirstFree} /\ FirstFree \notin Used
      BY <1>1, <3>1, SlotsAreObjects DEF Used, RasTypeOK
    <3>3. conn_count' = Cardinality(Used')
      BY <1>1, <3>1, <3>2, UsedIsFinite, FS_AddElement DEF Links
    <3>4. \A s \in Slot : connections'[s] # NULL => peer'[connections'[s]] # NULL
      BY <1>1, <2>1, <3>1, SlotsAreObjects DEF RasTypeOK, Links
    <3>5. \A r, s \in Slot :
            connections'[r] # NULL /\ connections'[r] = connections'[s] => r = s
      BY <1>1, <2>1, <3>1 DEF RasTypeOK, Links
    <3> QED BY <2>1, <2>2, <3>3, <3>4, <3>5 DEF Links
  <2>4. CASE ~\E s \in Slot : connections[s] = NULL
    <3>1. UNCHANGED <<connections, conn_count>>
      BY <2>4 DEF Connected
    <3>2. Used' = Used
      BY <3>1 DEF Used
    <3>3. \A s \in Slot : connections[s] # NULL => peer'[connections[s]] # NULL
      BY <1>1, <2>1, SlotsAreObjects DEF RasTypeOK, Links
    <3> QED BY <1>1, <2>1, <2>2, <3>1, <3>2, <3>3 DEF Links
  <2> QED BY <2>3, <2>4
<1>5. Devices'
  BY <1>1, SlotsAreObjects
     DEF RasTypeOK, Devices, Linked, Connected, iniVars, airVars
<1>6. ScansUnlessFailed'
  BY <1>1, <1>2
     DEF ScansUnlessFailed, Room, Connected, ScanAgain, turnVars, iniVars,
         airVars, faultVars
<1>7. "cut" \notin harm' => Pointer'
  BY <1>1, <1>2
     DEF RasIInv, RasTypeOK, Links, Pointer, Connected, ScanAgain, turnVars,
         iniVars, airVars, faultVars
<1>8. Orderly' => OneBusy'
  <2> SUFFICES ASSUME Orderly' PROVE OneBusy'
    OBVIOUS
  <2>1. /\ Pointer /\ OneBusy /\ peer[o] = NULL
        /\ peer' = [peer EXCEPT ![o] = connecting]
        /\ UNCHANGED <<active_conn, thread, next_conn, indication_complete,
                      ranging_complete, pending, subscribed, start_ranging, acq,
                      writes, write_done, att_err>>
    BY <1>2
       DEF RasIInv, Orderly, Connected, turnVars, iniVars, airVars
  <2>2. thread # "top" => peer'[next_conn] = peer[next_conn]
    BY <1>1, <2>1 DEF Pointer, RasTypeOK
  <2>3. \A j \in Initiator : (Busy(j)' <=> Busy(j)) /\ (Acting(j)' <=> Acting(j))
    BY <2>1 DEF Busy, Acting
  <2> QED BY <2>1, <2>2, <2>3 DEF OneBusy
<1> QED BY <1>3, <1>4, <1>5, <1>6, <1>7, <1>8 DEF RasIInv

LEMMA ConnectFailedStep == ASSUME RasIInv, ConnectFailed PROVE RasIInv'
<1>1. RasTypeOK /\ Links /\ Devices /\ ScansUnlessFailed
  BY DEF RasIInv
<1>2. /\ faults' \in 0 .. Faults /\ harm' \subseteq Kind
      /\ harm' = harm \cup {"refused"}
  BY <1>1, OneFault
     DEF Kind, ConnectFailed, turnVars, iniVars, airVars
<1>3. RasTypeOK'
  BY <1>1, <1>2, SlotsAreObjects
     DEF RasTypeOK, ConnectFailed, turnVars, iniVars, airVars
<1>4. Links'
  BY <1>1
     DEF Links, Linked, Used, ConnectFailed, turnVars, iniVars, airVars
<1>5. Devices'
  BY <1>1
     DEF RasTypeOK, Devices, Linked, Links, ConnectFailed, turnVars, iniVars,
         airVars
<1>6. ScansUnlessFailed'
  BY <1>1, <1>2
     DEF ScansUnlessFailed, Room, ConnectFailed, turnVars, iniVars, airVars
<1>7. "cut" \notin harm' => Pointer'
  BY <1>1, <1>2
     DEF RasIInv, RasTypeOK, Links, Pointer, ConnectFailed, turnVars, iniVars,
         airVars
<1>8. Orderly' => OneBusy'
  BY <1>1, <1>2
     DEF RasIInv, RasTypeOK, Links, Devices, Linked, Pointer, OneBusy, Busy,
         Acting, Orderly, ConnectFailed, turnVars, iniVars, airVars
<1> QED BY <1>3, <1>4, <1>5, <1>6, <1>7, <1>8 DEF RasIInv

LEMMA DisconnectedStep ==
  ASSUME RasIInv, NEW o \in Object, Disconnected(o)
  PROVE  RasIInv'
<1>1. RasTypeOK /\ Links /\ Devices /\ ScansUnlessFailed
  BY DEF RasIInv
<1>2. /\ faults' \in 0 .. Faults /\ harm' \subseteq Kind
      /\ harm' = IF thread # "top" /\ next_conn = o THEN harm \cup {"lost", "cut"}
                                                    ELSE harm \cup {"lost"}
  BY <1>1, OneFault
     DEF Kind, Disconnected, ScanAgain
<1>3. RasTypeOK'
  <2>1. peer[o] \in Initiator
    BY <1>1 DEF Disconnected, RasTypeOK
  <2>2. /\ peer' \in [Object -> Initiator \cup {NULL}]
        /\ connections' \in [Slot -> Object \cup {NULL}]
        /\ active_conn' \in Object \cup {NULL}
        /\ completer' \in Initiator \cup {NULL}
        /\ connecting' \in Initiator \cup {NULL}
    BY <1>1, <2>1 DEF Disconnected, RasTypeOK
  <2>3. conn_count' \in 0 .. MaxConn
    <3>1. CASE \E s \in Slot : connections[s] = o
      <4>1. Used # {}
        BY <3>1, SlotsAreObjects DEF Used
      <4>2. conn_count > 0
        BY <1>1, <4>1, UsedIsFinite DEF Links
      <4> QED
        BY <1>1, <3>1, <4>2, MaxConnIsPositive DEF Disconnected, RasTypeOK
    <3>2. CASE ~\E s \in Slot : connections[s] = o
      BY <1>1, <3>2 DEF Disconnected, RasTypeOK
    <3> QED BY <3>1, <3>2
  <2>4. scanning' \in BOOLEAN
    <3>1. CASE connecting = NULL
      BY <3>1 DEF Disconnected, ScanAgain
    <3>2. CASE connecting # NULL
      BY <1>1, <3>2 DEF Disconnected, RasTypeOK
    <3> QED BY <3>1, <3>2
  <2>5. indication_complete' \in BOOLEAN /\ ranging_complete' \in BOOLEAN
    BY Zenon DEF Disconnected
  <2>6. /\ pending' \in [Initiator -> 0 .. 2]
        /\ subscribed' \in [Initiator -> BOOLEAN]
        /\ boot' \in [Initiator -> {"setup", "run", "stuck"}]
        /\ acq' \in [Initiator -> {"idle", "ranging", "adrift", "write", "wait"}]
        /\ att_err' \in [Initiator -> {"ok", "unlikely", "other"}]
    BY <1>1, <2>1 DEF Disconnected, RasTypeOK
  <2>7. write_done' \in [Initiator -> BOOLEAN]
    BY <1>1, <2>1 DEF Disconnected, RasTypeOK
  <2>8. writes' \in [Initiator -> Seq({"sent", "ok", "unlikely", "other"})]
    BY <1>1, <2>1, EmptySeq DEF Disconnected, RasTypeOK
  <2>9. UNCHANGED <<turn_idx, thread, next_conn, start_ranging, attempt, bad>>
    BY DEF Disconnected
  <2> QED
    BY <1>1, <1>2, <2>2, <2>3, <2>4, <2>5, <2>6, <2>7, <2>8, <2>9
       DEF RasTypeOK
<1>4. Links'
  <2>1. /\ peer' = [peer EXCEPT ![o] = NULL] /\ connecting' = connecting
        /\ connections' = [s \in Slot |-> IF connections[s] = o THEN NULL
                                          ELSE connections[s]]
    BY DEF Disconnected
  <2>2. \A p, q \in Object : peer'[p] # NULL /\ peer'[p] = peer'[q] => p = q
    BY <1>1, <2>1 DEF RasTypeOK, Links
  <2>3. connecting' # NULL => ~Linked(connecting)'
    BY <1>1, <2>1 DEF RasTypeOK, Links, Linked
  <2>4. \A s \in Slot : connections'[s] # NULL => peer'[connections'[s]] # NULL
    BY <1>1, <2>1 DEF RasTypeOK, Links
  <2>5. \A r, s \in Slot :
          connections'[r] # NULL /\ connections'[r] = connections'[s] => r = s
    BY <1>1, <2>1 DEF Links
  <2>6. conn_count' = Cardinality(Used')
    <3>1. CASE \E s \in Slot : connections[s] = o
      <4>1. PICK s \in Slot : connections[s] = o
        BY <3>1
      <4>2. Used' = Used \ {s} /\ s \in Used
        BY <1>1, <2>1, <4>1, SlotsAreObjects DEF Used, Links
      <4>3. Cardinality(Used') = Cardinality(Used) - 1
        BY <4>2, UsedIsFinite, FS_RemoveElement
      <4> QED BY <1>1, <3>1, <4>3 DEF Links, Disconnected
    <3>2. CASE ~\E s \in Slot : connections[s] = o
      <4>1. Used' = Used
        BY <2>1, <3>2 DEF Used
      <4> QED BY <1>1, <3>2, <4>1 DEF Links, Disconnected
    <3> QED BY <3>1, <3>2
  <2> QED BY <2>2, <2>3, <2>4, <2>5, <2>6 DEF Links
<1>5. Devices'
  BY <1>1
     DEF RasTypeOK, Devices, Linked, Links, Disconnected, ScanAgain
<1>6. ScansUnlessFailed'
  BY <1>1, <1>2
     DEF ScansUnlessFailed, Room, Disconnected, ScanAgain
<1>7. "cut" \notin harm' => Pointer'
  <2> SUFFICES ASSUME "cut" \notin harm' PROVE Pointer'
    OBVIOUS
  <2>1. Pointer /\ (thread # "top" => next_conn # o)
    BY <1>2 DEF RasIInv
  <2>2. active_conn # o
    BY <2>1, SlotsAreObjects DEF Pointer
  <2>3. /\ UNCHANGED <<active_conn, completer, thread, next_conn>>
        /\ ranging_complete' = ranging_complete
        /\ peer' = [peer EXCEPT ![o] = NULL]
    BY <1>1, <2>2 DEF Disconnected, RasTypeOK
  <2> QED BY <1>1, <2>1, <2>3 DEF Pointer, RasTypeOK
<1>8. Orderly' => OneBusy'
  <2> SUFFICES ASSUME Orderly' PROVE OneBusy'
    OBVIOUS
  <2>1. PICK i \in Initiator : i = peer[o]
    BY <1>1 DEF RasTypeOK, Disconnected
  <2>2. /\ Pointer /\ OneBusy /\ (thread # "top" => next_conn # o)
    BY <1>1, <1>2 DEF RasIInv, RasTypeOK, Orderly, Disconnected
  <2>3. /\ active_conn # o
        /\ thread # "top" => peer[next_conn] # i /\ next_conn \in Object
    BY <1>1, <2>1, <2>2, SlotsAreObjects DEF Pointer, Links
  <2>4. ~Busy(i)
    BY <2>2, <2>3 DEF OneBusy
  <2>5. /\ UNCHANGED <<active_conn, thread, next_conn, start_ranging>>
        /\ ranging_complete' = ranging_complete
        /\ indication_complete => indication_complete'
        /\ peer' = [peer EXCEPT ![o] = NULL]
        /\ subscribed' = [subscribed EXCEPT ![i] = FALSE]
        /\ pending' = [pending EXCEPT ![i] = 0]
        /\ writes' = [writes EXCEPT ![i] = <<>>]
        /\ write_done' = [write_done EXCEPT ![i] = @ \/ writes[i] # <<>>]
        /\ att_err' = [att_err EXCEPT ![i] = IF writes[i] # <<>> THEN "unlikely"
                                                                ELSE @]
        /\ acq' = [acq EXCEPT ![i] = IF @ = "ranging" THEN "adrift" ELSE @]
    BY <1>1, <2>1, <2>3 DEF Disconnected, RasTypeOK
  <2>6. thread # "top" => /\ peer'[next_conn'] = peer[next_conn]
                          /\ peer[next_conn] \in Initiator
    BY <1>1, <2>2, <2>3, <2>5 DEF Pointer, RasTypeOK
  <2>7. /\ thread \in {"active", "indicate"} => active_conn' = next_conn'
        /\ thread = "indicate" => ~ranging_complete'
        /\ thread \in {"confirm", "ranging"} => subscribed'[peer'[next_conn']]
        /\ thread = "confirm" =>
             pending'[peer'[next_conn']] > 0 \/ indication_complete'
    BY <1>1, <2>2, <2>3, <2>5, <2>6 DEF OneBusy, RasTypeOK
  <2>8. ASSUME NEW j \in Initiator
        PROVE  /\ Busy(j)' => /\ thread' \in {"confirm", "ranging"}
                              /\ peer'[next_conn'] = j
                              /\ active_conn' = next_conn'
                              /\ ~ranging_complete'
               /\ pending'[j] > 0 =>
                    pending'[j] = 1 /\ ~start_ranging'[j] /\ ~Acting(j)'
               /\ start_ranging'[j] => ~Acting(j)'
               /\ writes'[j] \in {<<>>, <<"sent">>, <<"ok">>}
               /\ acq'[j] = "wait" => (writes'[j] = <<>> <=> write_done'[j])
               /\ acq'[j] # "wait" => writes'[j] = <<>> /\ ~write_done'[j]
               /\ att_err'[j] # "other"
    <3>1. CASE j = i
      <4>1. acq[i] \in {"idle", "wait"} /\ ~start_ranging[i] /\ acq'[i] = acq[i]
        BY <1>1, <2>2, <2>4, <2>5 DEF Busy, Acting, RasTypeOK
      <4>2. /\ pending'[i] = 0 /\ writes'[i] = <<>>
            /\ write_done'[i] = (write_done[i] \/ writes[i] # <<>>)
            /\ att_err'[i] \in {"unlikely", att_err[i]}
        BY <1>1, <2>2, <2>5 DEF RasTypeOK
      <4>3. ~Busy(i)'
        BY <1>1, <2>5, <4>1, <4>2 DEF Busy, Acting
      <4> QED
        BY <1>1, <2>2, <3>1, <4>1, <4>2, <4>3 DEF OneBusy, Busy, RasTypeOK
    <3>2. CASE j # i
      <4>1. /\ pending'[j] = pending[j] /\ acq'[j] = acq[j]
            /\ writes'[j] = writes[j] /\ write_done'[j] = write_done[j]
            /\ att_err'[j] = att_err[j] /\ start_ranging' = start_ranging
        BY <1>1, <2>2, <2>5, <3>2 DEF RasTypeOK
      <4>2. (Busy(j)' => Busy(j)) /\ (Acting(j)' => Acting(j))
        BY <4>1 DEF Busy, Acting
      <4> QED BY <2>2, <2>5, <2>6, <4>1, <4>2 DEF OneBusy
    <3> QED BY <3>1, <3>2
  <2> QED BY <2>5, <2>7, <2>8 DEF OneBusy
<1> QED BY <1>3, <1>4, <1>5, <1>6, <1>7, <1>8 DEF RasIInv

-----------------------------------------------------------------------------
(* The orchestration thread.                                               *)

LEMMA NobodyThereStep == ASSUME RasIInv, NobodyThere PROVE RasIInv'
<1>1. RasTypeOK /\ Links /\ Devices /\ ScansUnlessFailed
  BY DEF RasIInv
<1>2. UNCHANGED <<faults, harm>>
  BY DEF NobodyThere, TurnFrame, OnTime, completeVars, linkVars, iniVars,
         faultVars
<1>3. RasTypeOK'
  BY <1>1, <1>2, SlotsAreObjects
     DEF RasTypeOK, NobodyThere, TurnFrame, OnTime, completeVars, linkVars,
         iniVars, faultVars
<1>4. Links'
  BY <1>1
     DEF Links, Linked, Used, NobodyThere, TurnFrame, OnTime, completeVars,
         linkVars, iniVars, faultVars
<1>5. Devices'
  BY <1>1
     DEF RasTypeOK, Devices, Linked, Links, NobodyThere, TurnFrame, OnTime,
         completeVars, linkVars, iniVars, faultVars
<1>6. ScansUnlessFailed'
  BY <1>1, <1>2
     DEF ScansUnlessFailed, Room, NobodyThere, TurnFrame, OnTime,
         completeVars, linkVars, iniVars, faultVars
<1>7. "cut" \notin harm' => Pointer'
  BY <1>1, <1>2
     DEF RasIInv, RasTypeOK, Links, Pointer, NobodyThere, TurnFrame, OnTime,
         completeVars, linkVars, iniVars, faultVars
<1>8. Orderly' => OneBusy'
  BY <1>1, <1>2
     DEF RasIInv, RasTypeOK, Links, Devices, Linked, Pointer, OneBusy, Busy,
         Acting, Orderly, NobodyThere, TurnFrame, OnTime, completeVars,
         linkVars, iniVars, faultVars
<1> QED BY <1>3, <1>4, <1>5, <1>6, <1>7, <1>8 DEF RasIInv

LEMMA PickStep == ASSUME RasIInv, Pick PROVE RasIInv'
<1>1. RasTypeOK /\ Links /\ Devices /\ ScansUnlessFailed
  BY DEF RasIInv
<1>2. UNCHANGED <<faults, harm>>
  BY DEF Pick, At, After, TurnFrame, OnTime, completeVars, linkVars, iniVars,
         faultVars
<1>3. RasTypeOK'
  <2>1. Used # {}
    BY <1>1, UsedIsFinite DEF Pick, Links
  <2>2. After(Distance) \in Slot /\ connections[After(Distance)] # NULL
    BY <1>1, <2>1, PickIsUsed
  <2>3. turn_idx' \in Slot /\ next_conn' \in Object
    BY <1>1, <2>2 DEF Pick, RasTypeOK
  <2> QED
    BY <1>1, <1>2, <2>3
       DEF RasTypeOK, Pick, At, TurnFrame, completeVars, linkVars, iniVars
<1>4. Links'
  BY <1>1
     DEF Links, Linked, Used, Pick, At, After, TurnFrame, OnTime,
         completeVars, linkVars, iniVars, faultVars
<1>5. Devices'
  BY <1>1
     DEF RasTypeOK, Devices, Linked, Links, Pick, At, After, TurnFrame,
         OnTime, completeVars, linkVars, iniVars, faultVars
<1>6. ScansUnlessFailed'
  BY <1>1, <1>2
     DEF ScansUnlessFailed, Room, Pick, At, After, TurnFrame, OnTime,
         completeVars, linkVars, iniVars, faultVars
<1>7. "cut" \notin harm' => Pointer'
  <2>1. Used # {}
    BY <1>1, UsedIsFinite DEF Pick, Links
  <2>2. /\ After(Distance) \in Slot /\ connections[After(Distance)] # NULL
    BY <1>1, <2>1, PickIsUsed
  <2>3. next_conn' \in Object /\ peer[next_conn'] # NULL
    BY <1>1, <2>2 DEF Pick, RasTypeOK, Links
  <2> QED
    BY <1>1, <1>2, <2>3
       DEF RasIInv, Pointer, Pick, At, TurnFrame, completeVars, linkVars
<1>8. Orderly' => OneBusy'
  BY <1>1, <1>2
     DEF RasIInv, RasTypeOK, Links, Devices, Linked, Pointer, OneBusy, Busy,
         Acting, Orderly, Pick, At, After, TurnFrame, OnTime, completeVars,
         linkVars, iniVars, faultVars
<1> QED BY <1>3, <1>4, <1>5, <1>6, <1>7, <1>8 DEF RasIInv

LEMMA ActivateStep == ASSUME RasIInv, Activate PROVE RasIInv'
<1>1. RasTypeOK /\ Links /\ Devices /\ ScansUnlessFailed
  BY DEF RasIInv
<1>2. UNCHANGED <<faults, harm>>
  BY DEF Activate, At, TurnFrame, OnTime, completeVars, linkVars, iniVars,
         faultVars
<1>3. RasTypeOK'
  BY <1>1, <1>2, SlotsAreObjects
     DEF RasTypeOK, Activate, At, TurnFrame, OnTime, completeVars, linkVars,
         iniVars, faultVars
<1>4. Links'
  BY <1>1
     DEF Links, Linked, Used, Activate, At, TurnFrame, OnTime, completeVars,
         linkVars, iniVars, faultVars
<1>5. Devices'
  BY <1>1
     DEF RasTypeOK, Devices, Linked, Links, Activate, At, TurnFrame, OnTime,
         completeVars, linkVars, iniVars, faultVars
<1>6. ScansUnlessFailed'
  BY <1>1, <1>2
     DEF ScansUnlessFailed, Room, Activate, At, TurnFrame, OnTime,
         completeVars, linkVars, iniVars, faultVars
<1>7. "cut" \notin harm' => Pointer'
  BY <1>1, <1>2
     DEF RasIInv, RasTypeOK, Links, Pointer, Activate, At, TurnFrame, OnTime,
         completeVars, linkVars, iniVars, faultVars
<1>8. Orderly' => OneBusy'
  BY <1>1, <1>2
     DEF RasIInv, RasTypeOK, Links, Devices, Linked, Pointer, OneBusy, Busy,
         Acting, Orderly, Activate, At, TurnFrame, OnTime, completeVars,
         linkVars, iniVars, faultVars
<1> QED BY <1>3, <1>4, <1>5, <1>6, <1>7, <1>8 DEF RasIInv

LEMMA TurnResetStep == ASSUME RasIInv, TurnReset PROVE RasIInv'
<1>1. RasTypeOK /\ Links /\ Devices /\ ScansUnlessFailed
  BY DEF RasIInv
<1>2. UNCHANGED <<faults, harm>>
  BY DEF TurnReset, At, ResetComplete, TurnFrame, OnTime, linkVars, iniVars,
         faultVars
<1>3. RasTypeOK'
  BY <1>1, <1>2, SlotsAreObjects
     DEF RasTypeOK, TurnReset, At, ResetComplete, TurnFrame, OnTime, linkVars,
         iniVars, faultVars
<1>4. Links'
  BY <1>1
     DEF Links, Linked, Used, TurnReset, At, ResetComplete, TurnFrame, OnTime,
         linkVars, iniVars, faultVars
<1>5. Devices'
  BY <1>1
     DEF RasTypeOK, Devices, Linked, Links, TurnReset, At, ResetComplete,
         TurnFrame, OnTime, linkVars, iniVars, faultVars
<1>6. ScansUnlessFailed'
  BY <1>1, <1>2
     DEF ScansUnlessFailed, Room, TurnReset, At, ResetComplete, TurnFrame,
         OnTime, linkVars, iniVars, faultVars
<1>7. "cut" \notin harm' => Pointer'
  BY <1>1, <1>2
     DEF RasIInv, RasTypeOK, Links, Pointer, TurnReset, At, ResetComplete,
         TurnFrame, OnTime, linkVars, iniVars, faultVars
<1>8. Orderly' => OneBusy'
  BY <1>1, <1>2
     DEF RasIInv, RasTypeOK, Links, Devices, Linked, Pointer, OneBusy, Busy,
         Acting, Orderly, TurnReset, At, ResetComplete, TurnFrame, OnTime,
         linkVars, iniVars, faultVars
<1> QED BY <1>3, <1>4, <1>5, <1>6, <1>7, <1>8 DEF RasIInv

LEMMA IndicateStep == ASSUME RasIInv, Indicate PROVE RasIInv'
<1>1. RasTypeOK /\ Links /\ Devices /\ ScansUnlessFailed
  BY DEF RasIInv
<1>2. UNCHANGED <<faults, harm>>
  BY DEF Indicate, TurnFrame, OnTime, completeVars, linkVars, iniVars,
         faultVars
<1>3. RasTypeOK'
  <2>1. pending' \in [Initiator -> 0 .. 2] /\ thread' \in {"confirm", "failed"}
    <3> DEFINE k == peer[next_conn]
    <3>1. CASE k # NULL /\ subscribed[k] /\ pending[k] < 2
      <4>1. \A n \in 0 .. 2 : n < 2 => n + 1 \in 0 .. 2
        OBVIOUS
      <4>2. /\ thread' = "confirm"
            /\ pending' = [pending EXCEPT ![k] = @ + 1]
        BY <3>1 DEF Indicate
      <4>3. k \in Initiator => pending[k] + 1 \in 0 .. 2
        BY <1>1, <3>1, <4>1 DEF RasTypeOK
      <4> HIDE DEF k
      <4>4. CASE k \in Initiator
        BY <1>1, <4>2, <4>3, <4>4 DEF RasTypeOK
      <4>5. CASE k \notin Initiator
        <5>1. pending' = pending
          BY <1>1, <4>2, <4>5 DEF RasTypeOK
        <5> QED BY <1>1, <4>2, <5>1 DEF RasTypeOK
      <4> QED BY <4>4, <4>5
    <3>2. CASE ~(k # NULL /\ subscribed[k] /\ pending[k] < 2)
      BY <1>1, <3>2 DEF RasTypeOK, Indicate
    <3> QED BY <3>1, <3>2
  <2>2. peer' \in [Object -> Initiator \cup {NULL}]
    BY <1>1 DEF RasTypeOK, Indicate, TurnFrame, linkVars
  <2> QED
    BY <1>1, <1>2, <2>1, <2>2
       DEF RasTypeOK, Indicate, TurnFrame, OnTime, completeVars, linkVars,
           iniVars, faultVars
<1>4. Links'
  BY <1>1
     DEF Links, Linked, Used, Indicate, TurnFrame, OnTime, completeVars,
         linkVars, iniVars, faultVars
<1>5. Devices'
  BY <1>1
     DEF RasTypeOK, Devices, Linked, Links, Indicate, TurnFrame, OnTime,
         completeVars, linkVars, iniVars, faultVars
<1>6. ScansUnlessFailed'
  BY <1>1, <1>2
     DEF ScansUnlessFailed, Room, Indicate, TurnFrame, OnTime, completeVars,
         linkVars, iniVars, faultVars
<1>7. "cut" \notin harm' => Pointer'
  BY <1>1, <1>2
     DEF RasIInv, RasTypeOK, Links, Pointer, Indicate, TurnFrame, OnTime,
         completeVars, linkVars, iniVars, faultVars
<1>8. Orderly' => OneBusy'
  <2> SUFFICES ASSUME Orderly' PROVE OneBusy'
    OBVIOUS
  <2>1. Pointer /\ OneBusy /\ thread = "indicate"
    BY <1>2 DEF RasIInv, Orderly, Indicate, TurnFrame
  <2>2. PICK i \in Initiator : i = peer[next_conn]
    BY <1>1, <2>1 DEF Pointer, RasTypeOK
  <2>3. \A j \in Initiator : ~Busy(j)
    BY <2>1 DEF OneBusy
  <2>4. UNCHANGED <<peer, next_conn, active_conn, ranging_complete,
                    indication_complete, subscribed, start_ranging, acq, writes,
                    write_done, att_err>>
    BY DEF Indicate, TurnFrame, completeVars, linkVars, iniVars
  <2>5. CASE /\ subscribed[i] /\ thread' = "confirm"
             /\ pending' = [pending EXCEPT ![i] = @ + 1]
    <3>a. pending[i] = 0
      <4>1. pending[i] \in 0 .. 2
        BY <1>1, <2>2 DEF RasTypeOK
      <4>2. ~(pending[i] > 0)
        BY <2>2, <2>3 DEF Busy
      <4> QED BY <4>1, <4>2
    <3>1. pending'[i] = 1 /\ \A j \in Initiator : j # i => pending'[j] = pending[j]
      BY <1>1, <2>2, <2>5, <3>a DEF RasTypeOK
    <3>2. \A j \in Initiator : Busy(j)' => j = i
      BY <2>3, <2>4, <3>1 DEF Busy, Acting
    <3>3. \A j \in Initiator : ~Acting(j)' /\ ~start_ranging'[j]
      BY <2>3, <2>4 DEF Busy, Acting
    <3>4. \A j \in Initiator : pending'[j] > 0 => pending'[j] = 1
      BY <2>3, <3>1 DEF Busy
    <3> QED
      BY <2>1, <2>2, <2>4, <2>5, <3>1, <3>2, <3>3, <3>4 DEF OneBusy
  <2>6. CASE thread' = "failed" /\ pending' = pending
    <3>1. \A j \in Initiator : ~Busy(j)'
      BY <2>3, <2>4, <2>6 DEF Busy, Acting
    <3> QED BY <2>1, <2>4, <2>6, <3>1 DEF OneBusy, Busy
  <2> QED BY <2>2, <2>5, <2>6 DEF Indicate
<1> QED BY <1>3, <1>4, <1>5, <1>6, <1>7, <1>8 DEF RasIInv

LEMMA ConfirmedStep == ASSUME RasIInv, Confirmed PROVE RasIInv'
<1>1. RasTypeOK /\ Links /\ Devices /\ ScansUnlessFailed
  BY DEF RasIInv
<1>2. UNCHANGED <<faults, harm>>
  BY DEF Confirmed, At, TurnFrame, OnTime, completeVars, linkVars, iniVars,
         faultVars
<1>3. RasTypeOK'
  BY <1>1, <1>2, SlotsAreObjects
     DEF RasTypeOK, Confirmed, At, TurnFrame, OnTime, completeVars, linkVars,
         iniVars, faultVars
<1>4. Links'
  BY <1>1
     DEF Links, Linked, Used, Confirmed, At, TurnFrame, OnTime, completeVars,
         linkVars, iniVars, faultVars
<1>5. Devices'
  BY <1>1
     DEF RasTypeOK, Devices, Linked, Links, Confirmed, At, TurnFrame, OnTime,
         completeVars, linkVars, iniVars, faultVars
<1>6. ScansUnlessFailed'
  BY <1>1, <1>2
     DEF ScansUnlessFailed, Room, Confirmed, At, TurnFrame, OnTime,
         completeVars, linkVars, iniVars, faultVars
<1>7. "cut" \notin harm' => Pointer'
  BY <1>1, <1>2
     DEF RasIInv, RasTypeOK, Links, Pointer, Confirmed, At, TurnFrame, OnTime,
         completeVars, linkVars, iniVars, faultVars
<1>8. Orderly' => OneBusy'
  BY <1>1, <1>2
     DEF RasIInv, RasTypeOK, Links, Devices, Linked, Pointer, OneBusy, Busy,
         Acting, Orderly, Confirmed, At, TurnFrame, OnTime, completeVars,
         linkVars, iniVars, faultVars
<1> QED BY <1>3, <1>4, <1>5, <1>6, <1>7, <1>8 DEF RasIInv

LEMMA ConfirmTimeoutStep == ASSUME RasIInv, ConfirmTimeout PROVE RasIInv'
<1>1. RasTypeOK /\ Links /\ Devices /\ ScansUnlessFailed
  BY DEF RasIInv
<1>2. /\ faults' \in 0 .. Faults /\ harm' \subseteq Kind
      /\ harm' = IF Confirms(peer[next_conn]) THEN harm \cup {"late"} ELSE harm
  <2>1. Confirms(peer[next_conn]) \in BOOLEAN
    BY Zenon DEF Confirms
  <2> QED BY <1>1, <2>1, TimeIsUp DEF ConfirmTimeout
<1>3. RasTypeOK'
  BY <1>1, <1>2, SlotsAreObjects
     DEF RasTypeOK, ConfirmTimeout, At, TurnFrame, completeVars, linkVars,
         iniVars
<1>4. Links'
  BY <1>1
     DEF Links, Linked, Used, ConfirmTimeout, At, TurnFrame, completeVars,
         linkVars, iniVars
<1>5. Devices'
  BY <1>1
     DEF RasTypeOK, Devices, Linked, Links, ConfirmTimeout, At, TurnFrame,
         completeVars, linkVars, iniVars
<1>6. ScansUnlessFailed'
  BY <1>1, <1>2
     DEF ScansUnlessFailed, Room, ConfirmTimeout, At, TurnFrame, completeVars,
         linkVars, iniVars
<1>7. "cut" \notin harm' => Pointer'
  BY <1>1, <1>2
     DEF RasIInv, RasTypeOK, Links, Pointer, ConfirmTimeout, At, TurnFrame,
         completeVars, linkVars, iniVars
<1>8. Orderly' => OneBusy'
  <2> SUFFICES ASSUME Orderly' PROVE FALSE
    OBVIOUS
  <2> DEFINE i == peer[next_conn]
  <2>1. /\ Pointer /\ OneBusy /\ ~Confirms(i)
        /\ thread = "confirm" /\ ~indication_complete /\ i \in Initiator
    BY <1>1, <1>2
       DEF RasIInv, RasTypeOK, Pointer, Orderly, ConfirmTimeout, At, TurnFrame
  <2> QED BY <2>1, SlotsAreObjects DEF OneBusy, Confirms
<1> QED BY <1>3, <1>4, <1>5, <1>6, <1>7, <1>8 DEF RasIInv

LEMMA SignalFailedStep == ASSUME RasIInv, SignalFailed PROVE RasIInv'
<1>1. RasTypeOK /\ Links /\ Devices /\ ScansUnlessFailed
  BY DEF RasIInv
<1>2. UNCHANGED <<faults, harm>>
  BY DEF SignalFailed, At, TurnFrame, OnTime, completeVars, linkVars, iniVars,
         faultVars
<1>3. RasTypeOK'
  BY <1>1, <1>2, SlotsAreObjects
     DEF RasTypeOK, SignalFailed, At, TurnFrame, OnTime, completeVars,
         linkVars, iniVars, faultVars
<1>4. Links'
  BY <1>1
     DEF Links, Linked, Used, SignalFailed, At, TurnFrame, OnTime,
         completeVars, linkVars, iniVars, faultVars
<1>5. Devices'
  BY <1>1
     DEF RasTypeOK, Devices, Linked, Links, SignalFailed, At, TurnFrame,
         OnTime, completeVars, linkVars, iniVars, faultVars
<1>6. ScansUnlessFailed'
  BY <1>1, <1>2
     DEF ScansUnlessFailed, Room, SignalFailed, At, TurnFrame, OnTime,
         completeVars, linkVars, iniVars, faultVars
<1>7. "cut" \notin harm' => Pointer'
  BY <1>1, <1>2
     DEF RasIInv, RasTypeOK, Links, Pointer, SignalFailed, At, TurnFrame,
         OnTime, completeVars, linkVars, iniVars, faultVars
<1>8. Orderly' => OneBusy'
  BY <1>1, <1>2
     DEF RasIInv, RasTypeOK, Links, Devices, Linked, Pointer, OneBusy, Busy,
         Acting, Orderly, SignalFailed, At, TurnFrame, OnTime, completeVars,
         linkVars, iniVars, faultVars
<1> QED BY <1>3, <1>4, <1>5, <1>6, <1>7, <1>8 DEF RasIInv

LEMMA RangingDoneStep == ASSUME RasIInv, RangingDone PROVE RasIInv'
<1>1. RasTypeOK /\ Links /\ Devices /\ ScansUnlessFailed
  BY DEF RasIInv
<1>2. UNCHANGED <<faults, harm>>
  BY DEF RangingDone, At, Waits, TurnFrame, OnTime, linkVars, iniVars,
         faultVars
<1>3. RasTypeOK'
  BY <1>1, <1>2, SlotsAreObjects
     DEF RasTypeOK, RangingDone, At, Waits, TurnFrame, OnTime, linkVars,
         iniVars, faultVars
<1>4. Links'
  BY <1>1
     DEF Links, Linked, Used, RangingDone, At, Waits, TurnFrame, OnTime,
         linkVars, iniVars, faultVars
<1>5. Devices'
  BY <1>1
     DEF RasTypeOK, Devices, Linked, Links, RangingDone, At, Waits, TurnFrame,
         OnTime, linkVars, iniVars, faultVars
<1>6. ScansUnlessFailed'
  BY <1>1, <1>2
     DEF ScansUnlessFailed, Room, RangingDone, At, Waits, TurnFrame, OnTime,
         linkVars, iniVars, faultVars
<1>7. "cut" \notin harm' => Pointer'
  BY <1>1, <1>2
     DEF RasIInv, RasTypeOK, Links, Pointer, RangingDone, At, Waits,
         TurnFrame, OnTime, linkVars, iniVars, faultVars
<1>8. Orderly' => OneBusy'
  BY <1>1, <1>2
     DEF RasIInv, RasTypeOK, Links, Devices, Linked, Pointer, OneBusy, Busy,
         Acting, Orderly, RangingDone, At, Waits, TurnFrame, OnTime, linkVars,
         iniVars, faultVars
<1> QED BY <1>3, <1>4, <1>5, <1>6, <1>7, <1>8 DEF RasIInv

LEMMA RangingTimeoutStep == ASSUME RasIInv, RangingTimeout PROVE RasIInv'
<1>1. RasTypeOK /\ Links /\ Devices /\ ScansUnlessFailed
  BY DEF RasIInv
<1>2. /\ faults' \in 0 .. Faults /\ harm' \subseteq Kind
      /\ harm' = IF Completes(peer[next_conn]) THEN harm \cup {"late"} ELSE harm
  <2>1. Completes(peer[next_conn]) \in BOOLEAN
    BY Zenon DEF Completes
  <2> QED BY <1>1, <2>1, TimeIsUp DEF RangingTimeout
<1>3. RasTypeOK'
  BY <1>1, <1>2, SlotsAreObjects
     DEF RasTypeOK, RangingTimeout, At, TurnFrame, completeVars, linkVars,
         iniVars
<1>4. Links'
  BY <1>1
     DEF Links, Linked, Used, RangingTimeout, At, TurnFrame, completeVars,
         linkVars, iniVars
<1>5. Devices'
  BY <1>1
     DEF RasTypeOK, Devices, Linked, Links, RangingTimeout, At, TurnFrame,
         completeVars, linkVars, iniVars
<1>6. ScansUnlessFailed'
  BY <1>1, <1>2
     DEF ScansUnlessFailed, Room, RangingTimeout, At, TurnFrame, completeVars,
         linkVars, iniVars
<1>7. "cut" \notin harm' => Pointer'
  BY <1>1, <1>2
     DEF RasIInv, RasTypeOK, Links, Pointer, RangingTimeout, At, TurnFrame,
         completeVars, linkVars, iniVars
<1>8. Orderly' => OneBusy'
  <2> SUFFICES ASSUME Orderly' PROVE OneBusy'
    OBVIOUS
  <2> DEFINE i == peer[next_conn]
  <2>1. /\ Pointer /\ OneBusy /\ ~Completes(i) /\ bad = {}
        /\ thread = "ranging" /\ thread' = "over" /\ i \in Initiator
    BY <1>1, <1>2
       DEF RasIInv, RasTypeOK, Pointer, Orderly, RangingTimeout, At, TurnFrame
  <2>2. boot[i] # "stuck"
    BY <1>1, <2>1 DEF OneBusy, Devices
  <2>3. ~Busy(i)
    BY <1>1, <2>1, <2>2, SlotsAreObjects DEF Completes, Busy, Acting, RasTypeOK
  <2>4. \A j \in Initiator : ~Busy(j)
    BY <2>1, <2>3 DEF OneBusy
  <2> QED
    BY <2>1, <2>4
       DEF OneBusy, Busy, Acting, RangingTimeout, TurnFrame, completeVars, iniVars
<1> QED BY <1>3, <1>4, <1>5, <1>6, <1>7, <1>8 DEF RasIInv

LEMMA AdvanceStep == ASSUME RasIInv, Advance PROVE RasIInv'
<1>1. RasTypeOK /\ Links /\ Devices /\ ScansUnlessFailed
  BY DEF RasIInv
<1>2. UNCHANGED <<faults, harm>>
  BY DEF Advance, At, TurnMoves, TurnFrame, OnTime, completeVars, linkVars,
         iniVars, faultVars
<1>3. RasTypeOK'
  <2>1. turn_idx' \in Slot
    BY <1>1, MaxConnIsPositive DEF Advance, TurnMoves, RasTypeOK, Slot
  <2> QED
    BY <1>1, <1>2, <2>1
       DEF RasTypeOK, Advance, At, TurnFrame, completeVars, linkVars, iniVars
<1>4. Links'
  BY <1>1
     DEF Links, Linked, Used, Advance, At, TurnMoves, TurnFrame, OnTime,
         completeVars, linkVars, iniVars, faultVars
<1>5. Devices'
  BY <1>1
     DEF RasTypeOK, Devices, Linked, Links, Advance, At, TurnMoves, TurnFrame,
         OnTime, completeVars, linkVars, iniVars, faultVars
<1>6. ScansUnlessFailed'
  BY <1>1, <1>2
     DEF ScansUnlessFailed, Room, Advance, At, TurnMoves, TurnFrame, OnTime,
         completeVars, linkVars, iniVars, faultVars
<1>7. "cut" \notin harm' => Pointer'
  BY <1>1, <1>2
     DEF RasIInv, RasTypeOK, Links, Pointer, Advance, At, TurnMoves,
         TurnFrame, OnTime, completeVars, linkVars, iniVars, faultVars
<1>8. Orderly' => OneBusy'
  BY <1>1, <1>2
     DEF RasIInv, RasTypeOK, Links, Devices, Linked, Pointer, OneBusy, Busy,
         Acting, Orderly, Advance, At, TurnMoves, TurnFrame, OnTime,
         completeVars, linkVars, iniVars, faultVars
<1> QED BY <1>3, <1>4, <1>5, <1>6, <1>7, <1>8 DEF RasIInv

-----------------------------------------------------------------------------
(* The initiators, and what is in the air.                                 *)

LEMMA SubscribeStep ==
  ASSUME RasIInv, NEW i \in Initiator, Subscribe(i)
  PROVE  RasIInv'
<1>1. RasTypeOK /\ Links /\ Devices /\ ScansUnlessFailed
  BY DEF RasIInv
<1>2. UNCHANGED <<faults, harm>>
  BY DEF Subscribe, IniFrame, OnTime, iniVars, linkVars, turnVars, faultVars
<1>3. RasTypeOK'
  BY <1>1, <1>2, SlotsAreObjects
     DEF RasTypeOK, Subscribe, IniFrame, OnTime, iniVars, linkVars, turnVars,
         faultVars
<1>4. Links'
  BY <1>1
     DEF Links, Linked, Used, Subscribe, IniFrame, OnTime, iniVars, linkVars,
         turnVars, faultVars
<1>5. Devices'
  BY <1>1
     DEF RasTypeOK, Devices, Linked, Links, Subscribe, IniFrame, OnTime,
         iniVars, linkVars, turnVars, faultVars
<1>6. ScansUnlessFailed'
  BY <1>1, <1>2
     DEF ScansUnlessFailed, Room, Subscribe, IniFrame, OnTime, iniVars,
         linkVars, turnVars, faultVars
<1>7. "cut" \notin harm' => Pointer'
  BY <1>1, <1>2
     DEF RasIInv, RasTypeOK, Links, Pointer, Subscribe, IniFrame, OnTime,
         iniVars, linkVars, turnVars, faultVars
<1>8. Orderly' => OneBusy'
  BY <1>1, <1>2
     DEF RasIInv, RasTypeOK, Links, Devices, Linked, Pointer, OneBusy, Busy,
         Acting, Orderly, Subscribe, IniFrame, OnTime, iniVars, linkVars,
         turnVars, faultVars
<1> QED BY <1>3, <1>4, <1>5, <1>6, <1>7, <1>8 DEF RasIInv

LEMMA SetUpStep ==
  ASSUME RasIInv, NEW i \in Initiator, SetUp(i)
  PROVE  RasIInv'
<1>1. RasTypeOK /\ Links /\ Devices /\ ScansUnlessFailed
  BY DEF RasIInv
<1>2. UNCHANGED <<faults, harm>>
  BY DEF SetUp, IniFrame, OnTime, airVars, linkVars, turnVars, faultVars
<1>3. RasTypeOK'
  BY <1>1, <1>2, SlotsAreObjects
     DEF RasTypeOK, SetUp, IniFrame, OnTime, airVars, linkVars, turnVars,
         faultVars
<1>4. Links'
  BY <1>1
     DEF Links, Linked, Used, SetUp, IniFrame, OnTime, airVars, linkVars,
         turnVars, faultVars
<1>5. Devices'
  BY <1>1
     DEF RasTypeOK, Devices, Linked, Links, SetUp, IniFrame, OnTime, airVars,
         linkVars, turnVars, faultVars
<1>6. ScansUnlessFailed'
  BY <1>1, <1>2
     DEF ScansUnlessFailed, Room, SetUp, IniFrame, OnTime, airVars, linkVars,
         turnVars, faultVars
<1>7. "cut" \notin harm' => Pointer'
  BY <1>1, <1>2
     DEF RasIInv, RasTypeOK, Links, Pointer, SetUp, IniFrame, OnTime, airVars,
         linkVars, turnVars, faultVars
<1>8. Orderly' => OneBusy'
  BY <1>1, <1>2
     DEF RasIInv, RasTypeOK, Links, Devices, Linked, Pointer, OneBusy, Busy,
         Acting, Orderly, SetUp, IniFrame, OnTime, airVars, linkVars,
         turnVars, faultVars
<1> QED BY <1>3, <1>4, <1>5, <1>6, <1>7, <1>8 DEF RasIInv

LEMMA IndicatedStep ==
  ASSUME RasIInv, NEW i \in Initiator, Indicated(i)
  PROVE  RasIInv'
<1>1. RasTypeOK /\ Links /\ Devices /\ ScansUnlessFailed
  BY DEF RasIInv
<1>2. UNCHANGED <<faults, harm>>
  BY DEF Indicated, linkVars, completeVars, faultVars
<1>3. RasTypeOK'
  <2>1. \A n \in 0 .. 2 : n > 0 => n - 1 \in 0 .. 2
    OBVIOUS
  <2>2. pending[i] - 1 \in 0 .. 2
    BY <1>1, <2>1 DEF RasTypeOK, Indicated
  <2>3. /\ pending' \in [Initiator -> 0 .. 2]
        /\ start_ranging' \in [Initiator -> BOOLEAN]
        /\ indication_complete' \in BOOLEAN
    BY <1>1, <2>2 DEF RasTypeOK, Indicated
  <2> QED
    BY <1>1, <1>2, <2>3
       DEF RasTypeOK, Indicated, linkVars, completeVars
<1>4. Links'
  BY <1>1
     DEF Links, Linked, Used, Indicated, linkVars, completeVars, faultVars
<1>5. Devices'
  BY <1>1
     DEF RasTypeOK, Devices, Linked, Links, Indicated, linkVars, completeVars,
         faultVars
<1>6. ScansUnlessFailed'
  BY <1>1, <1>2
     DEF ScansUnlessFailed, Room, Indicated, linkVars, completeVars, faultVars
<1>7. "cut" \notin harm' => Pointer'
  BY <1>1, <1>2
     DEF RasIInv, RasTypeOK, Links, Pointer, Indicated, linkVars,
         completeVars, faultVars
<1>8. Orderly' => OneBusy'
  <2> SUFFICES ASSUME Orderly' PROVE OneBusy'
    OBVIOUS
  <2>1. /\ OneBusy /\ pending[i] > 0 /\ indication_complete'
        /\ UNCHANGED <<peer, active_conn, thread, next_conn, ranging_complete,
                      subscribed, acq, writes, write_done, att_err>>
    BY <1>2 DEF RasIInv, Orderly, Indicated, linkVars, completeVars
  <2>2. pending[i] = 1 /\ Busy(i)
    BY <2>1 DEF OneBusy, Busy
  <2>3. /\ pending'[i] = 0 /\ start_ranging'[i]
        /\ \A j \in Initiator \ {i} : /\ pending'[j] = pending[j]
                                      /\ start_ranging'[j] = start_ranging[j]
    BY <1>1, <2>2 DEF Indicated, RasTypeOK
  <2>4. \A j \in Initiator : (Busy(j)' => Busy(j)) /\ (Acting(j)' <=> Acting(j))
    BY <2>1, <2>2, <2>3 DEF Busy, Acting
  <2> QED BY <2>1, <2>2, <2>3, <2>4 DEF OneBusy
<1> QED BY <1>3, <1>4, <1>5, <1>6, <1>7, <1>8 DEF RasIInv

LEMMA StartRangingStep ==
  ASSUME RasIInv, NEW i \in Initiator, StartRanging(i)
  PROVE  RasIInv'
<1>1. RasTypeOK /\ Links /\ Devices /\ ScansUnlessFailed
  BY DEF RasIInv
<1>2. UNCHANGED <<faults, harm>>
  BY DEF StartRanging, IniFrame, OnTime, airVars, linkVars, turnVars,
         faultVars
<1>3. RasTypeOK'
  BY <1>1, <1>2, SlotsAreObjects
     DEF RasTypeOK, StartRanging, IniFrame, OnTime, airVars, linkVars,
         turnVars, faultVars
<1>4. Links'
  BY <1>1
     DEF Links, Linked, Used, StartRanging, IniFrame, OnTime, airVars,
         linkVars, turnVars, faultVars
<1>5. Devices'
  BY <1>1
     DEF RasTypeOK, Devices, Linked, Links, StartRanging, IniFrame, OnTime,
         airVars, linkVars, turnVars, faultVars
<1>6. ScansUnlessFailed'
  BY <1>1, <1>2
     DEF ScansUnlessFailed, Room, StartRanging, IniFrame, OnTime, airVars,
         linkVars, turnVars, faultVars
<1>7. "cut" \notin harm' => Pointer'
  BY <1>1, <1>2
     DEF RasIInv, RasTypeOK, Links, Pointer, StartRanging, IniFrame, OnTime,
         airVars, linkVars, turnVars, faultVars
<1>8. Orderly' => OneBusy'
  BY <1>1, <1>2
     DEF RasIInv, RasTypeOK, Links, Devices, Linked, Pointer, OneBusy, Busy,
         Acting, Orderly, StartRanging, IniFrame, OnTime, airVars, linkVars,
         turnVars, faultVars
<1> QED BY <1>3, <1>4, <1>5, <1>6, <1>7, <1>8 DEF RasIInv

LEMMA RangingEndsStep ==
  ASSUME RasIInv, NEW i \in Initiator, RangingEnds(i)
  PROVE  RasIInv'
<1>1. RasTypeOK /\ Links /\ Devices /\ ScansUnlessFailed
  BY DEF RasIInv
<1>2. UNCHANGED <<faults, harm>>
  BY DEF RangingEnds, IniFrame, OnTime, airVars, linkVars, turnVars, faultVars
<1>3. RasTypeOK'
  BY <1>1, <1>2, AttemptsIsPositive
     DEF RasTypeOK, RangingEnds, IniFrame, airVars, linkVars, turnVars
<1>4. Links'
  BY <1>1
     DEF Links, Linked, Used, RangingEnds, IniFrame, OnTime, airVars,
         linkVars, turnVars, faultVars
<1>5. Devices'
  BY <1>1
     DEF RasTypeOK, Devices, Linked, Links, RangingEnds, IniFrame, OnTime,
         airVars, linkVars, turnVars, faultVars
<1>6. ScansUnlessFailed'
  BY <1>1, <1>2
     DEF ScansUnlessFailed, Room, RangingEnds, IniFrame, OnTime, airVars,
         linkVars, turnVars, faultVars
<1>7. "cut" \notin harm' => Pointer'
  BY <1>1, <1>2
     DEF RasIInv, RasTypeOK, Links, Pointer, RangingEnds, IniFrame, OnTime,
         airVars, linkVars, turnVars, faultVars
<1>8. Orderly' => OneBusy'
  BY <1>1, <1>2
     DEF RasIInv, RasTypeOK, Links, Devices, Linked, Pointer, OneBusy, Busy,
         Acting, Orderly, RangingEnds, IniFrame, OnTime, airVars, linkVars,
         turnVars, faultVars
<1> QED BY <1>3, <1>4, <1>5, <1>6, <1>7, <1>8 DEF RasIInv

LEMMA RebootStep ==
  ASSUME RasIInv, NEW i \in Initiator, Reboot(i)
  PROVE  RasIInv'
<1>1. RasTypeOK /\ Links /\ Devices /\ ScansUnlessFailed
  BY DEF RasIInv
<1>2. UNCHANGED <<faults, harm>>
  BY DEF Reboot, IniFrame, OnTime, airVars, linkVars, turnVars, faultVars
<1>3. RasTypeOK'
  BY <1>1, <1>2, AttemptsIsPositive
     DEF RasTypeOK, Reboot, IniFrame, airVars, linkVars, turnVars
<1>4. Links'
  BY <1>1
     DEF Links, Linked, Used, Reboot, IniFrame, OnTime, airVars, linkVars,
         turnVars, faultVars
<1>5. Devices'
  BY <1>1
     DEF RasTypeOK, Devices, Linked, Links, Reboot, IniFrame, OnTime, airVars,
         linkVars, turnVars, faultVars
<1>6. ScansUnlessFailed'
  BY <1>1, <1>2
     DEF ScansUnlessFailed, Room, Reboot, IniFrame, OnTime, airVars, linkVars,
         turnVars, faultVars
<1>7. "cut" \notin harm' => Pointer'
  BY <1>1, <1>2
     DEF RasIInv, RasTypeOK, Links, Pointer, Reboot, IniFrame, OnTime,
         airVars, linkVars, turnVars, faultVars
<1>8. Orderly' => OneBusy'
  BY <1>1, <1>2
     DEF RasIInv, RasTypeOK, Links, Devices, Linked, Pointer, OneBusy, Busy,
         Acting, Orderly, Reboot, IniFrame, OnTime, airVars, linkVars,
         turnVars, faultVars
<1> QED BY <1>3, <1>4, <1>5, <1>6, <1>7, <1>8 DEF RasIInv

LEMMA WriteStep ==
  ASSUME RasIInv, NEW i \in Initiator, Write(i)
  PROVE  RasIInv'
<1>1. RasTypeOK /\ Links /\ Devices /\ ScansUnlessFailed
  BY DEF RasIInv
<1>2. UNCHANGED <<faults, harm>>
  BY DEF Write, IniFrame, OnTime, linkVars, turnVars, faultVars
<1>3. RasTypeOK'
  <2>1. Append(writes[i], "sent") \in Seq({"sent", "ok", "unlikely", "other"})
    BY <1>1, AppendProperties DEF RasTypeOK
  <2> QED
    BY <1>1, <1>2, <2>1 DEF RasTypeOK, Write, IniFrame, linkVars, turnVars
<1>4. Links'
  BY <1>1
     DEF Links, Linked, Used, Write, IniFrame, OnTime, linkVars, turnVars,
         faultVars
<1>5. Devices'
  BY <1>1
     DEF RasTypeOK, Devices, Linked, Links, Write, IniFrame, OnTime, linkVars,
         turnVars, faultVars
<1>6. ScansUnlessFailed'
  BY <1>1, <1>2
     DEF ScansUnlessFailed, Room, Write, IniFrame, OnTime, linkVars, turnVars,
         faultVars
<1>7. "cut" \notin harm' => Pointer'
  BY <1>1, <1>2
     DEF RasIInv, RasTypeOK, Links, Pointer, Write, IniFrame, OnTime,
         linkVars, turnVars, faultVars
<1>8. Orderly' => OneBusy'
  <2> SUFFICES ASSUME Orderly' PROVE OneBusy'
    OBVIOUS
  <2>1. /\ OneBusy /\ acq[i] = "write"
        /\ UNCHANGED <<peer, next_conn, active_conn, thread, ranging_complete,
                      indication_complete, subscribed, start_ranging, pending,
                      write_done, att_err>>
    BY <1>2
       DEF RasIInv, Orderly, Write, IniFrame, linkVars, turnVars
  <2>2. Busy(i) /\ writes[i] = <<>> /\ ~write_done[i]
    BY <2>1 DEF OneBusy, Busy, Acting
  <2>3. Append(<<>>, "sent") = <<"sent">> /\ <<"sent">> # <<>>
    OBVIOUS
  <2>4. /\ acq'[i] = "wait" /\ writes'[i] = <<"sent">>
        /\ \A j \in Initiator \ {i} : acq'[j] = acq[j] /\ writes'[j] = writes[j]
    BY <1>1, <2>2, <2>3 DEF Write, RasTypeOK
  <2>5. \A j \in Initiator : (Busy(j)' => Busy(j)) /\ (Acting(j)' => Acting(j))
    BY <2>1, <2>2, <2>4 DEF Busy, Acting
  <2>6. ASSUME NEW j \in Initiator
        PROVE  /\ writes'[j] \in {<<>>, <<"sent">>, <<"ok">>}
               /\ acq'[j] = "wait" => (writes'[j] = <<>> <=> write_done'[j])
               /\ acq'[j] # "wait" => writes'[j] = <<>> /\ ~write_done'[j]
               /\ att_err'[j] # "other"
    <3>1. CASE j = i
      BY <3>1, <2>1, <2>2, <2>3, <2>4 DEF OneBusy
    <3>2. CASE j # i
      BY <3>2, <2>1, <2>4 DEF OneBusy
    <3> QED BY <3>1, <3>2
  <2>7. ASSUME NEW j \in Initiator
        PROVE  /\ Busy(j)' => /\ thread' \in {"confirm", "ranging"}
                              /\ peer'[next_conn'] = j
                              /\ active_conn' = next_conn'
                              /\ ~ranging_complete'
               /\ pending'[j] > 0 =>
                    pending'[j] = 1 /\ ~start_ranging'[j] /\ ~Acting(j)'
               /\ start_ranging'[j] => ~Acting(j)'
    BY <2>1, <2>5 DEF OneBusy
  <2>8. /\ thread' \in {"active", "indicate"} => active_conn' = next_conn'
        /\ thread' = "indicate" => ~ranging_complete'
        /\ thread' \in {"confirm", "ranging"} => subscribed'[peer'[next_conn']]
        /\ thread' = "confirm" =>
             pending'[peer'[next_conn']] > 0 \/ indication_complete'
    BY <2>1 DEF OneBusy
  <2> QED BY <2>6, <2>7, <2>8 DEF OneBusy
<1> QED BY <1>3, <1>4, <1>5, <1>6, <1>7, <1>8 DEF RasIInv

LEMMA WriteGivenUpStep ==
  ASSUME RasIInv, NEW i \in Initiator, WriteGivenUp(i)
  PROVE  RasIInv'
<1>1. RasTypeOK /\ Links /\ Devices /\ ScansUnlessFailed
  BY DEF RasIInv
<1>2. UNCHANGED <<faults, harm>>
  BY DEF WriteGivenUp, IniFrame, OnTime, airVars, linkVars, turnVars,
         faultVars
<1>3. RasTypeOK'
  <2>1. acq' \in [Initiator -> {"idle", "ranging", "adrift", "write", "wait"}]
    BY <1>1 DEF RasTypeOK, WriteGivenUp
  <2> QED
    BY <1>1, <1>2, <2>1
       DEF RasTypeOK, WriteGivenUp, IniFrame, airVars, linkVars, turnVars
<1>4. Links'
  BY <1>1
     DEF Links, Linked, Used, WriteGivenUp, IniFrame, OnTime, airVars,
         linkVars, turnVars, faultVars
<1>5. Devices'
  BY <1>1
     DEF RasTypeOK, Devices, Linked, Links, WriteGivenUp, IniFrame, OnTime,
         airVars, linkVars, turnVars, faultVars
<1>6. ScansUnlessFailed'
  BY <1>1, <1>2
     DEF ScansUnlessFailed, Room, WriteGivenUp, IniFrame, OnTime, airVars,
         linkVars, turnVars, faultVars
<1>7. "cut" \notin harm' => Pointer'
  BY <1>1, <1>2
     DEF RasIInv, RasTypeOK, Links, Pointer, WriteGivenUp, IniFrame, OnTime,
         airVars, linkVars, turnVars, faultVars
<1>8. Orderly' => OneBusy'
  BY <1>1, <1>2
     DEF RasIInv, RasTypeOK, Links, Devices, Linked, Pointer, OneBusy, Busy,
         Acting, Orderly, WriteGivenUp, IniFrame, OnTime, airVars, linkVars,
         turnVars, faultVars
<1> QED BY <1>3, <1>4, <1>5, <1>6, <1>7, <1>8 DEF RasIInv

LEMMA WriteDoneStep ==
  ASSUME RasIInv, NEW i \in Initiator, WriteDone(i)
  PROVE  RasIInv'
<1>1. RasTypeOK /\ Links /\ Devices /\ ScansUnlessFailed
  BY DEF RasIInv
<1>2. UNCHANGED <<faults, harm>>
  BY DEF WriteDone, IniFrame, OnTime, airVars, linkVars, turnVars, faultVars
<1>3. RasTypeOK'
  <2>1. attempt[i] + 1 \in 0 .. Attempts
    BY <1>1, AttemptsIsPositive DEF RasTypeOK, Devices, WriteDone
  <2> QED
    BY <1>1, <1>2, <2>1
       DEF RasTypeOK, WriteDone, IniFrame, airVars, linkVars, turnVars
<1>4. Links'
  BY <1>1
     DEF Links, Linked, Used, WriteDone, IniFrame, OnTime, airVars, linkVars,
         turnVars, faultVars
<1>5. Devices'
  BY <1>1
     DEF RasTypeOK, Devices, Linked, Links, WriteDone, IniFrame, OnTime,
         airVars, linkVars, turnVars, faultVars
<1>6. ScansUnlessFailed'
  BY <1>1, <1>2
     DEF ScansUnlessFailed, Room, WriteDone, IniFrame, OnTime, airVars,
         linkVars, turnVars, faultVars
<1>7. "cut" \notin harm' => Pointer'
  BY <1>1, <1>2
     DEF RasIInv, RasTypeOK, Links, Pointer, WriteDone, IniFrame, OnTime,
         airVars, linkVars, turnVars, faultVars
<1>8. Orderly' => OneBusy'
  BY <1>1, <1>2
     DEF RasIInv, RasTypeOK, Links, Devices, Linked, Pointer, OneBusy, Busy,
         Acting, Orderly, WriteDone, IniFrame, OnTime, airVars, linkVars,
         turnVars, faultVars
<1> QED BY <1>3, <1>4, <1>5, <1>6, <1>7, <1>8 DEF RasIInv

LEMMA WriteTimeoutStep ==
  ASSUME RasIInv, NEW i \in Initiator, WriteTimeout(i)
  PROVE  RasIInv'
<1>1. RasTypeOK /\ Links /\ Devices /\ ScansUnlessFailed
  BY DEF RasIInv
<1>2. /\ faults' \in 0 .. Faults /\ harm' \subseteq Kind
      /\ harm' = IF writes[i] # <<>> THEN harm \cup {"late"} ELSE harm
  BY <1>1, TimeIsUp
     DEF Kind, WriteTimeout, IniFrame, airVars, linkVars, turnVars
<1>3. RasTypeOK'
  BY <1>1, <1>2, SlotsAreObjects
     DEF RasTypeOK, WriteTimeout, IniFrame, airVars, linkVars, turnVars
<1>4. Links'
  BY <1>1
     DEF Links, Linked, Used, WriteTimeout, IniFrame, airVars, linkVars,
         turnVars
<1>5. Devices'
  BY <1>1
     DEF RasTypeOK, Devices, Linked, Links, WriteTimeout, IniFrame, airVars,
         linkVars, turnVars
<1>6. ScansUnlessFailed'
  BY <1>1, <1>2
     DEF ScansUnlessFailed, Room, WriteTimeout, IniFrame, airVars, linkVars,
         turnVars
<1>7. "cut" \notin harm' => Pointer'
  BY <1>1, <1>2
     DEF RasIInv, RasTypeOK, Links, Pointer, WriteTimeout, IniFrame, airVars,
         linkVars, turnVars
<1>8. Orderly' => OneBusy'
  BY <1>1, <1>2
     DEF RasIInv, RasTypeOK, Links, Devices, Linked, Pointer, OneBusy, Busy,
         Acting, Orderly, WriteTimeout, IniFrame, airVars, linkVars, turnVars
<1> QED BY <1>3, <1>4, <1>5, <1>6, <1>7, <1>8 DEF RasIInv

LEMMA WriteCbStep ==
  ASSUME RasIInv, NEW i \in Initiator, WriteCb(i)
  PROVE  RasIInv'
<1>1. RasTypeOK /\ Links /\ Devices /\ ScansUnlessFailed
  BY DEF RasIInv
<1>2. UNCHANGED <<faults, harm>>
  BY DEF WriteCb, IniFrame, OnTime, linkVars, turnVars, faultVars
<1>3. RasTypeOK'
  <2>1. writes[i] \in Seq({"sent", "ok", "unlikely", "other"})
        /\ writes[i] # <<>> /\ Head(writes[i]) # "sent"
    BY <1>1 DEF RasTypeOK, WriteCb
  <2>2. /\ Tail(writes[i]) \in Seq({"sent", "ok", "unlikely", "other"})
        /\ Head(writes[i]) \in {"ok", "unlikely", "other"}
    BY <2>1, HeadTailProperties
  <2>3. /\ writes' \in [Initiator -> Seq({"sent", "ok", "unlikely", "other"})]
        /\ write_done' \in [Initiator -> BOOLEAN]
        /\ att_err' \in [Initiator -> {"ok", "unlikely", "other"}]
    BY <1>1, <2>2 DEF RasTypeOK, WriteCb
  <2> QED
    BY <1>1, <1>2, <2>3 DEF RasTypeOK, WriteCb, IniFrame, linkVars, turnVars
<1>4. Links'
  BY <1>1
     DEF Links, Linked, Used, WriteCb, IniFrame, OnTime, linkVars, turnVars,
         faultVars
<1>5. Devices'
  BY <1>1
     DEF RasTypeOK, Devices, Linked, Links, WriteCb, IniFrame, OnTime,
         linkVars, turnVars, faultVars
<1>6. ScansUnlessFailed'
  BY <1>1, <1>2
     DEF ScansUnlessFailed, Room, WriteCb, IniFrame, OnTime, linkVars,
         turnVars, faultVars
<1>7. "cut" \notin harm' => Pointer'
  BY <1>1, <1>2
     DEF RasIInv, RasTypeOK, Links, Pointer, WriteCb, IniFrame, OnTime,
         linkVars, turnVars, faultVars
<1>8. Orderly' => OneBusy'
  <2> SUFFICES ASSUME Orderly' PROVE OneBusy'
    OBVIOUS
  <2>1. /\ OneBusy
        /\ UNCHANGED <<peer, next_conn, active_conn, thread, ranging_complete,
                      indication_complete, subscribed, start_ranging, pending,
                      acq>>
    BY <1>2 DEF RasIInv, Orderly, WriteCb, IniFrame, linkVars, turnVars
  <2>2. writes[i] = <<"ok">> /\ acq[i] = "wait"
    <3>1. Head(<<"sent">>) = "sent"
      OBVIOUS
    <3> QED BY <2>1, <3>1 DEF OneBusy, WriteCb
  <2>3. Head(<<"ok">>) = "ok" /\ Tail(<<"ok">>) = <<>> /\ <<>> # <<"sent">>
    OBVIOUS
  <2>4. /\ writes'[i] = <<>> /\ write_done'[i] = TRUE /\ att_err'[i] = "ok"
        /\ \A j \in Initiator \ {i} : /\ writes'[j] = writes[j]
                                      /\ write_done'[j] = write_done[j]
                                      /\ att_err'[j] = att_err[j]
    BY <1>1, <2>2, <2>3 DEF WriteCb, RasTypeOK
  <2>5. \A j \in Initiator : (Busy(j)' => Busy(j)) /\ (Acting(j)' => Acting(j))
    BY <2>1, <2>3, <2>4 DEF Busy, Acting
  <2> QED BY <2>1, <2>2, <2>4, <2>5 DEF OneBusy
<1> QED BY <1>3, <1>4, <1>5, <1>6, <1>7, <1>8 DEF RasIInv

LEMMA SyncWriteIdStep ==
  ASSUME RasIInv, NEW o \in Object, SyncWriteId(o)
  PROVE  RasIInv'
<1>1. RasTypeOK /\ Links /\ Devices /\ ScansUnlessFailed
  BY DEF RasIInv
<1>2. UNCHANGED <<faults, harm>>
  BY DEF SyncWriteId, completeVars, TakenFrom, linkVars, iniVars, faultVars
<1>3. RasTypeOK'
  <2>1. PICK i \in Initiator : i = peer[o]
    BY <1>1 DEF RasTypeOK, SyncWriteId
  <2>2. writes[i] \in Seq({"sent", "ok", "unlikely", "other"}) /\ Len(writes[i]) >= 1
    BY <1>1, <2>1, EmptySeq DEF RasTypeOK, SyncWriteId
  <2>3. \A status \in {"sent", "ok", "unlikely", "other"} :
          [writes[i] EXCEPT ![1] = status]
            \in Seq({"sent", "ok", "unlikely", "other"})
    BY <2>2, ExceptSeq
  <2>4. writes' \in [Initiator -> Seq({"sent", "ok", "unlikely", "other"})]
    <3>1. \E status \in {"sent", "ok", "unlikely", "other"} :
            writes' = [writes EXCEPT ![i] = [writes[i] EXCEPT ![1] = status]]
      BY <1>1, <2>1 DEF SyncWriteId, RasTypeOK
    <3> QED BY <1>1, <2>3, <3>1 DEF RasTypeOK
  <2>5. /\ ranging_complete' \in BOOLEAN
        /\ active_conn' \in Object \cup {NULL}
        /\ completer' \in Initiator \cup {NULL}
    BY <1>1, <2>1 DEF SyncWriteId, RasTypeOK, completeVars
  <2> QED
    BY <1>1, <1>2, <2>4, <2>5
       DEF RasTypeOK, SyncWriteId, linkVars, iniVars
<1>4. Links'
  BY <1>1
     DEF Links, Linked, Used, SyncWriteId, completeVars, TakenFrom, linkVars,
         iniVars, faultVars
<1>5. Devices'
  BY <1>1
     DEF RasTypeOK, Devices, Linked, Links, SyncWriteId, completeVars,
         TakenFrom, linkVars, iniVars, faultVars
<1>6. ScansUnlessFailed'
  BY <1>1, <1>2
     DEF ScansUnlessFailed, Room, SyncWriteId, completeVars, TakenFrom,
         linkVars, iniVars, faultVars
<1>7. "cut" \notin harm' => Pointer'
  <2> SUFFICES ASSUME Pointer PROVE Pointer'
    BY <1>2 DEF RasIInv
  <2>1. UNCHANGED <<peer, thread, next_conn>>
    BY DEF SyncWriteId, linkVars
  <2>2. CASE UNCHANGED <<active_conn, completeVars>>
    BY <2>1, <2>2 DEF Pointer, completeVars
  <2>3. CASE /\ active_conn = o /\ active_conn' = NULL /\ completer' = peer[o]
    BY <2>1, <2>3, SlotsAreObjects DEF Pointer
  <2> QED BY <2>2, <2>3 DEF SyncWriteId, TakenFrom
<1>8. Orderly' => OneBusy'
  <2> SUFFICES ASSUME Orderly' PROVE OneBusy'
    OBVIOUS
  <2>1. /\ Pointer /\ OneBusy
        /\ UNCHANGED <<peer, thread, next_conn, indication_complete, subscribed,
                      start_ranging, pending, acq, write_done, att_err>>
    BY <1>2 DEF RasIInv, Orderly, SyncWriteId, linkVars, iniVars
  <2>2. PICK i \in Initiator : i = peer[o]
    BY <1>1 DEF RasTypeOK, SyncWriteId
  <2>3. writes[i] = <<"sent">> /\ acq[i] = "wait"
    <3>1. Head(<<"ok">>) = "ok"
      OBVIOUS
    <3> QED BY <2>1, <2>2, <3>1 DEF OneBusy, SyncWriteId
  <2>4. /\ Busy(i) /\ thread \in {"confirm", "ranging"} /\ peer[next_conn] = i
        /\ active_conn = next_conn
    BY <2>1, <2>3 DEF OneBusy, Busy, Acting
  <2>5. next_conn = o /\ subscribed[i]
    BY <1>1, <2>1, <2>2, <2>4, SlotsAreObjects DEF Pointer, Links, OneBusy
  <2>6. writes' = [writes EXCEPT ![i] = [writes[i] EXCEPT ![1] = "ok"]]
    BY <1>1, <2>2, <2>4, <2>5 DEF SyncWriteId, TakenFrom, RasTypeOK
  <2>7. [<<"sent">> EXCEPT ![1] = "ok"] = <<"ok">> /\ <<"ok">> # <<"sent">>
        /\ <<"ok">> # <<>> /\ <<"sent">> # <<>>
    OBVIOUS
  <2>8. /\ writes'[i] = <<"ok">>
        /\ \A j \in Initiator \ {i} : writes'[j] = writes[j]
    BY <1>1, <2>3, <2>6, <2>7 DEF RasTypeOK
  <2>9. \A j \in Initiator : ~Busy(j)'
    <3>1. \A j \in Initiator \ {i} : ~Busy(j)
      BY <2>1, <2>4 DEF OneBusy
    <3>2. /\ pending[i] = 0 /\ ~start_ranging[i]
      <4>1. pending[i] \in 0 .. 2 /\ Acting(i)
        BY <1>1, <2>2, <2>3 DEF RasTypeOK, Acting
      <4>2. ~(pending[i] > 0) /\ ~start_ranging[i]
        BY <2>1, <2>2, <4>1 DEF OneBusy
      <4> QED BY <4>1, <4>2
    <3> QED BY <2>1, <2>3, <2>7, <2>8, <3>1, <3>2 DEF Busy, Acting
  <2> QED BY <2>1, <2>3, <2>4, <2>7, <2>8, <2>9
    DEF OneBusy, Busy
<1> QED BY <1>3, <1>4, <1>5, <1>6, <1>7, <1>8 DEF RasIInv

-----------------------------------------------------------------------------
(* What these show of the specification.                                    *)

LEMMA RasStutter == RasIInv /\ UNCHANGED rasVars => RasIInv'
BY DEF RasIInv, RasTypeOK, Links, Linked, Used, Devices, ScansUnlessFailed, Room,
       Pointer, Orderly, OneBusy, Busy, Acting, rasVars, linkVars, turnVars, iniVars,
       airVars, faultVars

LEMMA RasStep == RasIInv /\ [RasNext]_rasVars => RasIInv'
BY MatchStep, ConnectedStep, ConnectFailedStep, DisconnectedStep,
   NobodyThereStep, PickStep, ActivateStep, TurnResetStep, IndicateStep,
   ConfirmedStep, ConfirmTimeoutStep, SignalFailedStep, RangingDoneStep,
   RangingTimeoutStep, AdvanceStep, SubscribeStep, SetUpStep, IndicatedStep,
   StartRangingStep, RangingEndsStep, RebootStep, WriteStep,
   WriteGivenUpStep, WriteDoneStep, WriteTimeoutStep, WriteCbStep,
   SyncWriteIdStep, RasStutter
   DEF RasNext, Orchestration, Setup, Air, Acquisition

LEMMA RasInductive == RasSpec => []RasIInv
BY RasInitInv, RasStep, PTL DEF RasSpec

\* Type correctness of the reflector and its initiators.
THEOREM RasTypeCorrect == RasSpec => []RasTypeOK
<1>1. RasIInv => RasTypeOK
  BY DEF RasIInv
<1> QED BY RasInductive, <1>1, PTL

\* While there is room the reflector scans, connects or has had an attempt
\* fail; and while every answer is in time, two initiators never sound at once:
\* each that sounds is the one that the thread's pointer is to.
THEOREM ScansAndOneSounds == RasSpec => []RasSafe
<1>1. RasIInv => OneSounds
  <2> SUFFICES ASSUME RasIInv, Orderly,
                      NEW i \in Initiator, NEW j \in Initiator,
                      Sounding(i), Sounding(j)
               PROVE  i = j
    BY DEF OneSounds
  <2>1. Busy(i) /\ Busy(j) /\ OneBusy
    BY DEF RasIInv, Sounding, Busy, Acting
  <2> QED BY <2>1 DEF OneBusy
<1>2. RasIInv => RasSafe
  BY <1>1 DEF RasIInv, RasSafe
<1> QED BY RasInductive, <1>2, PTL

\* A turn that ends before its time ends by its own initiator's completion,
\* however late the others' are, unless a link was lost in its own turn.
THEOREM TurnsEndByTheirOwn == RasSpec => EndsByOwn
<1>1. RasIInv => (RangingDone /\ "cut" \notin harm => Turn(completer))
  BY DEF RasIInv, Pointer, RangingDone, At, Waits, Turn
<1>2. RasIInv =>
        [RangingDone /\ "cut" \notin harm => Turn(completer)]_rasVars
  BY <1>1
<1> QED BY RasInductive, <1>2, PTL DEF EndsByOwn

-----------------------------------------------------------------------------
(* The refinement of TurnToken, while every answer is in time.              *)

\* What was not in time, or cut off, stays so.
LEMMA OrderlyBefore == ASSUME RasIInv, RasNext, Orderly' PROVE Orderly
<1>1. ASSUME NEW kinds \in SUBSET Kind, Fault(kinds) PROVE harm \subseteq harm'
  BY <1>1 DEF Fault
<1>2. ASSUME NEW coming \in BOOLEAN, TimeUp(coming) PROVE harm \subseteq harm'
  BY <1>2 DEF TimeUp, Fault, OnTime, faultVars
<1>3. harm \subseteq harm' /\ bad' = bad
  BY DEF RasNext, Orchestration, Setup, Air, Acquisition, NobodyThere, Pick,
         Activate, TurnReset, Indicate, Confirmed, ConfirmTimeout,
         SignalFailed, RangingDone, RangingTimeout, Advance, ConnectFailed,
         Connected, Disconnected, SyncWriteId, Match, Subscribe, SetUp,
         Indicated, WriteCb, StartRanging, RangingEnds, Reboot, Write,
         WriteGivenUp, WriteDone, WriteTimeout, TurnFrame, IniFrame, OnTime,
         TimeUp, Fault, faultVars
<1> QED BY <1>3 DEF Orderly

\* Who sounds holds the turn; nobody holds it but while the thread waits.
LEMMA SoundersHold ==
  ASSUME RasIInv, Orderly
  PROVE  /\ \A i \in Sounders : Busy(i) /\ Holder = i
         /\ Holder # NULL <=> thread \in {"confirm", "ranging"}
<1>1. OneBusy /\ Pointer /\ RasTypeOK
  BY DEF RasIInv, Orderly
<1>2. \A i \in Sounders : Busy(i) /\ Holder = i
  BY <1>1 DEF Sounders, Sounding, Busy, Acting, OneBusy, Holder
<1>3. Holder # NULL <=> thread \in {"confirm", "ranging"}
  BY <1>1 DEF Holder, Pointer
<1> QED BY <1>2, <1>3

LEMMA TokenOfTurns ==
  ASSUME RasIInv, Orderly, Orderly', Orchestration
  PROVE  [Token!TokenNext]_<<Holder, Sounders>>
<1>1. OneBusy /\ Pointer /\ RasTypeOK /\ Devices
  BY DEF RasIInv, Orderly
<1>2. Sounders' = Sounders /\ peer' = peer
  BY DEF Orchestration, NobodyThere, Pick, Activate, TurnReset, Indicate,
         Confirmed, ConfirmTimeout, SignalFailed, RangingDone, RangingTimeout,
         Advance, TurnFrame, linkVars, iniVars, Sounders, Sounding
<1>3. CASE \/ NobodyThere \/ Pick \/ Activate \/ TurnReset \/ SignalFailed
           \/ Advance \/ Confirmed
  BY <1>2, <1>3
     DEF NobodyThere, Pick, Activate, TurnReset, SignalFailed, Advance,
         Confirmed, At, Holder
<1>4. CASE Indicate
  <2>1. Holder = NULL
    BY <1>4 DEF Indicate, Holder
  <2>2. CASE thread' = "confirm"
    <3>1. Holder' = peer[next_conn] /\ peer[next_conn] \in Initiator
      BY <1>1, <1>2, <1>4, <2>2 DEF Indicate, Holder, Pointer, RasTypeOK
    <3> QED BY <1>2, <2>1, <3>1 DEF Token!TokenNext, Token!Hand
  <2>3. CASE thread' = "failed"
    BY <1>2, <2>1, <2>3 DEF Holder
  <2> QED BY <1>4, <2>2, <2>3 DEF Indicate
<1>5. CASE ConfirmTimeout
  <2>1. Confirms(peer[next_conn])
    BY <1>1, <1>5 DEF ConfirmTimeout, At, OneBusy, Pointer, Confirms
  <2> QED BY <1>5, <2>1 DEF ConfirmTimeout, TimeUp, Fault, Orderly
<1>6. CASE RangingDone \/ RangingTimeout
  <2>1. Holder # NULL /\ Holder' = NULL
    BY <1>6, SoundersHold DEF RangingDone, RangingTimeout, At, Holder
  <2>2. Sounders = {}
    <3>1. CASE RangingDone
      BY <1>1, <3>1, SoundersHold DEF RangingDone, Waits, OneBusy, Sounders
    <3>2. CASE RangingTimeout
      <4>1. ~Completes(peer[next_conn])
        BY <3>2 DEF RangingTimeout, TimeUp, Fault, Orderly
      <4>2. boot[peer[next_conn]] # "stuck" /\ peer[next_conn] \in Initiator
        BY <1>1, <3>2 DEF RangingTimeout, At, OneBusy, Pointer, Devices, RasTypeOK
      <4>3. acq[peer[next_conn]] = "idle"
        BY <4>1, <4>2, NullIsNoDevice DEF Completes, Orderly
      <4>4. Holder = peer[next_conn]
        BY <3>2 DEF RangingTimeout, At, Holder
      <4> QED BY <4>3, <4>4, SoundersHold DEF Sounders, Sounding
    <3> QED BY <1>6, <3>1, <3>2
  <2> QED BY <1>2, <2>1, <2>2 DEF Token!TokenNext, Token!Return
<1> QED BY <1>3, <1>4, <1>5, <1>6 DEF Orchestration

LEMMA TokenOfLinks ==
  ASSUME RasIInv, Orderly, Orderly', NEW o \in Object,
         Connected(o) \/ Disconnected(o) \/ SyncWriteId(o)
  PROVE  [Token!TokenNext]_<<Holder, Sounders>>
<1>1. OneBusy /\ Pointer /\ RasTypeOK
  BY DEF RasIInv, Orderly
<1>2. CASE Connected(o)
  <2>1. thread # "top" => next_conn # o /\ peer'[next_conn] = peer[next_conn]
    BY <1>1, <1>2 DEF Connected, Pointer, RasTypeOK
  <2>2. UNCHANGED <<thread, next_conn, acq>>
    BY <1>2 DEF Connected, turnVars, iniVars
  <2> QED BY <2>1, <2>2 DEF Holder, Sounders, Sounding
<1>3. CASE Disconnected(o)
  <2>1. PICK i \in Initiator : i = peer[o]
    BY <1>1, <1>3 DEF Disconnected, RasTypeOK
  <2>2. ~(thread # "top" /\ next_conn = o)
    BY <1>3 DEF Disconnected, Fault, Orderly
  <2>3. /\ UNCHANGED <<thread, next_conn>>
        /\ peer' = [peer EXCEPT ![o] = NULL]
        /\ acq' = [acq EXCEPT ![i] = IF @ = "ranging" THEN "adrift" ELSE @]
    BY <1>3, <2>1 DEF Disconnected
  <2>4. Holder' = Holder
    BY <1>1, <2>2, <2>3 DEF Holder, Pointer, RasTypeOK
  <2>5. Sounders' = Sounders \ {i}
    BY <1>1, <2>3 DEF Sounders, Sounding, RasTypeOK
  <2> QED BY <2>4, <2>5 DEF Token!TokenNext, Token!Stop
<1>4. CASE SyncWriteId(o)
  BY <1>4 DEF SyncWriteId, linkVars, iniVars, Holder, Sounders, Sounding
<1> QED BY <1>2, <1>3, <1>4

LEMMA TokenOfInitiators ==
  ASSUME RasIInv, Orderly, Orderly', NEW i \in Initiator,
         Match(i) \/ Setup(i) \/ Air(i) \/ Acquisition(i)
  PROVE  [Token!TokenNext]_<<Holder, Sounders>>
<1>1. OneBusy /\ RasTypeOK
  BY DEF RasIInv, Orderly
<1>2. UNCHANGED Holder
  BY DEF Match, Setup, Air, Acquisition, Subscribe, SetUp, Indicated, WriteCb,
         StartRanging, RangingEnds, Reboot, Write, WriteGivenUp, WriteDone,
         WriteTimeout, IniFrame, linkVars, turnVars, Holder
<1>3. CASE Match(i) \/ Setup(i) \/ Air(i)
  BY <1>2, <1>3
     DEF Match, Setup, Air, Subscribe, SetUp, Indicated, WriteCb, iniVars,
         Sounders, Sounding
<1>4. CASE StartRanging(i)
  <2>1. Holder = i
    BY <1>1, <1>4 DEF StartRanging, OneBusy, Busy, Holder
  <2>2. acq' = [acq EXCEPT ![i] = IF Linked(i) THEN "ranging" ELSE "adrift"]
        /\ acq[i] = "idle"
    BY <1>4 DEF StartRanging
  <2>3. CASE Linked(i)
    <3>1. Sounders' = Sounders \cup {i}
      BY <1>1, <2>2, <2>3 DEF Sounders, Sounding, RasTypeOK
    <3> QED BY <1>2, <2>1, <3>1 DEF Token!TokenNext, Token!Start
  <2>4. CASE ~Linked(i)
    <3>1. Sounders' = Sounders
      BY <1>1, <2>2, <2>4 DEF Sounders, Sounding, RasTypeOK
    <3> QED BY <1>2, <3>1
  <2> QED BY <2>3, <2>4
<1>5. CASE RangingEnds(i)
  <2>1. Sounders' = Sounders \ {i}
    BY <1>1, <1>5 DEF RangingEnds, Sounders, Sounding, RasTypeOK
  <2> QED BY <1>2, <2>1 DEF Token!TokenNext, Token!Stop
<1>6. CASE \/ Reboot(i) \/ Write(i) \/ WriteGivenUp(i) \/ WriteDone(i)
           \/ WriteTimeout(i)
  <2>1. acq[i] # "ranging" /\ \E a \in {"idle", "write", "wait"} :
                                 acq' = [acq EXCEPT ![i] = a]
    BY <1>6 DEF Reboot, Write, WriteGivenUp, WriteDone, WriteTimeout
  <2>2. Sounders' = Sounders
    BY <1>1, <2>1 DEF Sounders, Sounding, RasTypeOK
  <2> QED BY <1>2, <2>2
<1> QED BY <1>3, <1>4, <1>5, <1>6 DEF Acquisition

\* While every answer is in time and no link is lost in its own turn, reflector
\* and initiators, however many, hand one turn round: each of their steps is a
\* step of TurnToken or changes nothing of it.
THEOREM RasHandsOneTurn == RasSpec => HandsOneTurn
<1>1. RasInit => Token!TokenInit
  BY DEF RasInit, Token!TokenInit, Holder, Sounders, Sounding
<1>2. RasIInv /\ [RasNext]_rasVars
        => [Orderly' => [Token!TokenNext]_<<Holder, Sounders>>]_rasVars
  <2> SUFFICES ASSUME RasIInv, RasNext, Orderly'
               PROVE  [Token!TokenNext]_<<Holder, Sounders>>
    OBVIOUS
  <2>1. Orderly
    BY OrderlyBefore
  <2>2. CASE ConnectFailed
    BY <2>2 DEF ConnectFailed, turnVars, iniVars, Holder, Sounders, Sounding
  <2> QED
    BY <2>1, <2>2, TokenOfTurns, TokenOfLinks, TokenOfInitiators DEF RasNext
<1> QED BY <1>1, <1>2, RasInductive, PTL
        DEF RasSpec, HandsOneTurn, Token!tokenVars
=============================================================================
