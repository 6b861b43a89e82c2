------------------------------- MODULE RasSync -------------------------------
(***************************************************************************)
(* cs_ras_multi: the reflector gives its initiators turns (ble.c), and     *)
(* each initiator ranges when it is told to and writes that it is done     *)
(* (initator.c, sync.c).  What one turn does inside an initiator is        *)
(* RasCycle's.                                                             *)
(*                                                                         *)
(* On the reflector the Bluetooth RX thread, which runs the callbacks,     *)
(* preempts the orchestration thread between any two of its steps.  A      *)
(* connection is known by its host object, which is used again for a later *)
(* connection; the thread keeps its pointer to one without a reference.    *)
(***************************************************************************)
EXTENDS Naturals, Sequences, FiniteSets

CONSTANTS Initiator,     \* the devices
          MaxConn,       \* CONFIG_BT_MAX_CONN, of the reflector
          Attempts,      \* attempts at the completion write, 5 in the code
          Faults,        \* bound: faults in a behaviour
          NULL

ASSUME MaxConnIsPositive == MaxConn \in Nat \ {0}
ASSUME AttemptsIsPositive == Attempts \in Nat \ {0}
ASSUME FaultsIsNatural == Faults \in Nat
ASSUME NullIsNoDevice == NULL \notin Initiator \cup Nat

Slot == 0 .. MaxConn - 1
Object == 0 .. MaxConn - 1   \* of struct bt_conn

VARIABLES
  peer,            \* whose connection each object is
  connections, conn_count,           \* ble_info
  scanning, connecting,              \* the scan module; whom it connects to
  active_conn, turn_idx,             \* reflector_sync
  indication_complete, ranging_complete,
  thread, next_conn,                 \* the orchestration thread
  pending,         \* indications to a device that it has not confirmed
  subscribed,      \* has the device subscribed to SYNC_ID?
  boot,            \* main on each device: setup, run, or stuck for ever
  start_ranging,   \* start_ranging_sem
  acq, attempt,    \* the acquisition thread
  writes,          \* completion writes and their answers, in order
  write_done, att_err,               \* sync_ctx
  bad,             \* chosen for a behaviour: whose ranging never ends
  faults, harm,    \* history: the number of faults, and their kinds
  completer        \* history: for whom ranging_complete was last given

Kind == {"refused",  \* a connection attempt has failed
         "lost",     \* a link was lost
         "cut",      \* a link was lost in its own turn
         "late"}     \* an answer came after the end of its wait

linkVars == <<peer, connections, conn_count, scanning, connecting>>
faultVars == <<faults, harm>>
completeVars == <<ranging_complete, completer>>
turnVars == <<active_conn, turn_idx, indication_complete, thread, next_conn,
              ranging_complete, completer>>
iniVars == <<boot, start_ranging, acq, attempt, write_done, att_err>>
airVars == <<pending, subscribed, writes>>
rasVars == <<linkVars, turnVars, iniVars, airVars, faultVars, bad>>

Linked(i) == \E o \in Object : peer[o] = i
Room == conn_count < MaxConn

RasTypeOK ==
  /\ peer \in [Object -> Initiator \cup {NULL}]
  /\ connections \in [Slot -> Object \cup {NULL}]
  /\ conn_count \in 0 .. MaxConn
  /\ scanning \in BOOLEAN /\ connecting \in Initiator \cup {NULL}
  /\ active_conn \in Object \cup {NULL} /\ turn_idx \in Slot
  /\ indication_complete \in BOOLEAN /\ ranging_complete \in BOOLEAN
  /\ thread \in {"top", "picked", "active", "indicate", "confirm",
                 "failed", "ranging", "over"}
  /\ next_conn \in Object \cup {NULL}
  /\ pending \in [Initiator -> 0 .. 2]
  /\ subscribed \in [Initiator -> BOOLEAN]
  /\ boot \in [Initiator -> {"setup", "run", "stuck"}]
  /\ start_ranging \in [Initiator -> BOOLEAN]
  /\ acq \in [Initiator -> {"idle", "ranging", "adrift", "write", "wait"}]
  /\ attempt \in [Initiator -> 0 .. Attempts]
  /\ writes \in [Initiator -> Seq({"sent", "ok", "unlikely", "other"})]
  /\ write_done \in [Initiator -> BOOLEAN]
  /\ att_err \in [Initiator -> {"ok", "unlikely", "other"}]
  /\ bad \subseteq Initiator
  /\ faults \in 0 .. Faults /\ harm \subseteq Kind
  /\ completer \in Initiator \cup {NULL}

\* After ble_init of the reflector, and of each initiator up to its first wait.
RasInit ==
  /\ peer = [o \in Object |-> NULL]
  /\ connections = [s \in Slot |-> NULL]
  /\ conn_count = 0
  /\ scanning = TRUE /\ connecting = NULL
  /\ active_conn = NULL /\ turn_idx = 0
  /\ indication_complete = FALSE /\ ranging_complete = FALSE
  /\ thread = "top" /\ next_conn = NULL
  /\ pending = [i \in Initiator |-> 0]
  /\ subscribed = [i \in Initiator |-> FALSE]
  /\ boot = [i \in Initiator |-> "setup"]
  /\ start_ranging = [i \in Initiator |-> FALSE]
  /\ acq = [i \in Initiator |-> "idle"]
  /\ attempt = [i \in Initiator |-> 0]
  /\ writes = [i \in Initiator |-> <<>>]
  /\ write_done = [i \in Initiator |-> FALSE]
  /\ att_err = [i \in Initiator |-> "ok"]
  /\ bad \in SUBSET Initiator
  /\ faults = 0 /\ harm = {} /\ completer = NULL

Fault(kinds) == /\ faults < Faults
                /\ faults' = faults + 1
                /\ harm' = harm \cup kinds

-----------------------------------------------------------------------------
(* The reflector's connections, on its RX thread.                           *)

\* connect_if_match: the scan stops and a connection is created.
Match(i) ==
  /\ scanning /\ connecting = NULL
  /\ ~Linked(i)
  /\ \E o \in Object : peer[o] = NULL
  /\ scanning' = FALSE
  /\ connecting' = i
  /\ UNCHANGED <<peer, connections, conn_count, turnVars, iniVars,
                 airVars, faultVars, bad>>

FirstFree == CHOOSE s \in Slot : /\ connections[s] = NULL
                                 /\ \A r \in Slot :
                                      connections[r] = NULL => s <= r

\* connected: with no room left the scan is stopped, else started again.
ScanAgain(count) == scanning' = (count < MaxConn)

Connected(o) ==
  /\ connecting # NULL
  /\ peer[o] = NULL
  /\ peer' = [peer EXCEPT ![o] = connecting]
  /\ connecting' = NULL
  /\ IF \E s \in Slot : connections[s] = NULL
       THEN /\ connections' = [connections EXCEPT ![FirstFree] = o]
            /\ conn_count' = conn_count + 1
       ELSE UNCHANGED <<connections, conn_count>>
  /\ ScanAgain(conn_count')
  /\ UNCHANGED <<turnVars, iniVars, airVars, faultVars, bad>>

\* connected with an error: no slot is the attempt's, and the scan stays off.
ConnectFailed ==
  /\ connecting # NULL
  /\ connecting' = NULL
  /\ Fault({"refused"})
  /\ UNCHANGED <<peer, connections, conn_count, scanning, turnVars, iniVars,
                 airVars, bad>>

\* disconnected, on both sides.  An indication that is not confirmed and a
\* write that is not answered are reported as failed.  The initiator's main
\* never sets a second link up: if it was not done it waits for ever.
Disconnected(o) ==
  LET i == peer[o] IN
  /\ i # NULL
  /\ Fault(IF thread # "top" /\ next_conn = o THEN {"lost", "cut"}
                                              ELSE {"lost"})
  /\ peer' = [peer EXCEPT ![o] = NULL]
  /\ active_conn' = IF active_conn = o THEN NULL ELSE active_conn
  /\ ranging_complete' = (ranging_complete \/ active_conn = o)
  /\ completer' = IF active_conn = o THEN i ELSE completer
  /\ connections' = [s \in Slot |-> IF connections[s] = o THEN NULL
                                    ELSE connections[s]]
  /\ conn_count' = IF \E s \in Slot : connections[s] = o THEN conn_count - 1
                                                         ELSE conn_count
  /\ IF connecting = NULL THEN ScanAgain(conn_count')
                          ELSE scanning' \in {scanning, TRUE}
  /\ indication_complete' = (indication_complete \/ pending[i] > 0)
  /\ pending' = [pending EXCEPT ![i] = 0]
  /\ subscribed' = [subscribed EXCEPT ![i] = FALSE]
  /\ writes' = [writes EXCEPT ![i] = <<>>]
  /\ write_done' = [write_done EXCEPT ![i] = @ \/ writes[i] # <<>>]
  /\ att_err' = [att_err EXCEPT ![i] = IF writes[i] # <<>> THEN "unlikely"
                                                            ELSE @]
  /\ boot' = [boot EXCEPT ![i] = IF @ = "setup" THEN "stuck" ELSE @]
  /\ acq' = [acq EXCEPT ![i] = IF @ = "ranging" THEN "adrift" ELSE @]
  /\ UNCHANGED <<connecting, turn_idx, thread, next_conn, start_ranging,
                 attempt, bad>>

-----------------------------------------------------------------------------
(* orchestration_thread.                                                    *)

At(from, to) == thread = from /\ thread' = to
\* A wait ends with its answer, or when none is to come; else it is late.
OnTime == UNCHANGED faultVars
TimeUp(coming) == IF coming THEN Fault({"late"}) ELSE OnTime

Confirms(i) == i # NULL /\ pending[i] > 0
Completes(i) == /\ i # NULL /\ i \notin bad /\ boot[i] # "stuck"
                /\ pending[i] > 0 \/ start_ranging[i] \/ acq[i] # "idle"

TurnFrame == UNCHANGED <<linkVars, iniVars, subscribed, writes, bad>>

NobodyThere ==
  /\ thread = "top" /\ conn_count = 0
  /\ turn_idx' = 0
  /\ TurnFrame /\ OnTime
  /\ UNCHANGED <<active_conn, indication_complete, completeVars, thread,
                 next_conn, pending>>

\* The first slot in use, from turn_idx on.
After(n) == (turn_idx + n) % MaxConn
Distance == CHOOSE n \in Slot : /\ connections[After(n)] # NULL
                               /\ \A m \in Slot :
                                    connections[After(m)] # NULL => n <= m
Pick ==
  /\ At("top", "picked") /\ conn_count > 0
  /\ turn_idx' = After(Distance)
  /\ next_conn' = connections[turn_idx']
  /\ TurnFrame /\ OnTime
  /\ UNCHANGED <<active_conn, indication_complete, completeVars, pending>>

Activate ==
  /\ At("picked", "active")
  /\ active_conn' = next_conn
  /\ TurnFrame /\ OnTime
  /\ UNCHANGED <<turn_idx, indication_complete, completeVars, next_conn,
                 pending>>

\* Without and with the reset of the semaphore before a turn.
NoReset == UNCHANGED completeVars
ResetComplete == ranging_complete' = FALSE /\ UNCHANGED completer

TurnReset ==
  /\ At("active", "indicate")
  /\ ResetComplete
  /\ TurnFrame /\ OnTime
  /\ UNCHANGED <<active_conn, turn_idx, indication_complete, next_conn,
                 pending>>

\* bt_gatt_indicate, which refuses a link that is gone or not subscribed.
Indicate ==
  /\ thread = "indicate"
  /\ LET i == peer[next_conn] IN
     IF i # NULL /\ subscribed[i] /\ pending[i] < 2
       THEN thread' = "confirm" /\ pending' = [pending EXCEPT ![i] = @ + 1]
       ELSE thread' = "failed" /\ UNCHANGED pending
  /\ TurnFrame /\ OnTime
  /\ UNCHANGED <<active_conn, turn_idx, indication_complete, completeVars,
                 next_conn>>

Confirmed ==
  /\ At("confirm", "ranging")
  /\ indication_complete
  /\ indication_complete' = FALSE
  /\ TurnFrame /\ OnTime
  /\ UNCHANGED <<active_conn, turn_idx, completeVars, next_conn, pending>>

ConfirmTimeout ==
  /\ At("confirm", "failed")
  /\ ~indication_complete
  /\ TurnFrame /\ TimeUp(Confirms(peer[next_conn]))
  /\ UNCHANGED <<active_conn, turn_idx, indication_complete, completeVars,
                 next_conn, pending>>

\* The same initiator is tried again, as turn_idx stays.
SignalFailed ==
  /\ At("failed", "top")
  /\ active_conn' = NULL
  /\ TurnFrame /\ OnTime
  /\ UNCHANGED <<turn_idx, indication_complete, completeVars, next_conn,
                 pending>>

\* k_sem_take that waits, and that does not.
NoWait == TRUE
Waits == ranging_complete

RangingDone ==
  /\ At("ranging", "over")
  /\ Waits
  /\ ranging_complete' = FALSE /\ UNCHANGED completer
  /\ TurnFrame /\ OnTime
  /\ UNCHANGED <<active_conn, turn_idx, indication_complete, next_conn,
                 pending>>

\* No completion within 3 s.
RangingTimeout ==
  /\ At("ranging", "over")
  /\ ~ranging_complete
  /\ TurnFrame /\ TimeUp(Completes(peer[next_conn]))
  /\ UNCHANGED <<active_conn, turn_idx, indication_complete, completeVars,
                 next_conn, pending>>

\* The turn goes to the next slot, or stays.
TurnStays == UNCHANGED turn_idx
TurnMoves == turn_idx' = (turn_idx + 1) % MaxConn

Advance ==
  /\ At("over", "top")
  /\ active_conn' = NULL
  /\ TurnMoves
  /\ TurnFrame /\ OnTime
  /\ UNCHANGED <<indication_complete, completeVars, next_conn, pending>>

Orchestration ==
  \/ NobodyThere \/ Pick \/ Activate \/ TurnReset \/ Indicate
  \/ Confirmed \/ ConfirmTimeout \/ SignalFailed \/ RangingDone
  \/ RangingTimeout \/ Advance

-----------------------------------------------------------------------------
(* The initiators.                                                          *)

IniFrame == UNCHANGED <<linkVars, turnVars, bad>>

\* dm_completed of the second discovery subscribes, in main's set-up.
Subscribe(i) ==
  /\ Linked(i) /\ boot[i] = "setup" /\ ~subscribed[i]
  /\ subscribed' = [subscribed EXCEPT ![i] = TRUE]
  /\ IniFrame /\ OnTime
  /\ UNCHANGED <<iniVars, pending, writes>>

\* main after cs_init: init_done_sem.
SetUp(i) ==
  /\ boot[i] = "setup" /\ subscribed[i]
  /\ boot' = [boot EXCEPT ![i] = "run"]
  /\ IniFrame /\ OnTime
  /\ UNCHANGED <<start_ranging, acq, attempt, write_done, att_err, airVars>>

\* sync_id_indicated and initiator_sync_cb, and the confirmation's way back.
Indicated(i) ==
  /\ pending[i] > 0
  /\ pending' = [pending EXCEPT ![i] = @ - 1]
  /\ start_ranging' = [start_ranging EXCEPT ![i] = TRUE]
  /\ indication_complete' = TRUE
  /\ UNCHANGED <<linkVars, active_conn, turn_idx, completeVars, thread,
                 next_conn, boot, acq, attempt, write_done, att_err,
                 subscribed, writes, faultVars, bad>>

\* acquisition_thread takes its semaphore and starts a procedure.
StartRanging(i) ==
  /\ boot[i] = "run" /\ acq[i] = "idle" /\ start_ranging[i]
  /\ start_ranging' = [start_ranging EXCEPT ![i] = FALSE]
  /\ acq' = [acq EXCEPT ![i] = IF Linked(i) THEN "ranging" ELSE "adrift"]
  /\ IniFrame /\ OnTime
  /\ UNCHANGED <<boot, attempt, write_done, att_err, airVars>>

\* cs_calc returns, with a distance or with an error.
RangingEnds(i) ==
  /\ acq[i] \in {"ranging", "adrift"} /\ i \notin bad
  /\ acq' = [acq EXCEPT ![i] = "write"]
  /\ attempt' = [attempt EXCEPT ![i] = 0]
  /\ IniFrame /\ OnTime
  /\ UNCHANGED <<boot, start_ranging, write_done, att_err, airVars>>

\* ble_write without a link reboots the device.
Reboot(i) ==
  /\ acq[i] = "write" /\ attempt[i] < Attempts /\ ~Linked(i)
  /\ boot' = [boot EXCEPT ![i] = "setup"]
  /\ start_ranging' = [start_ranging EXCEPT ![i] = FALSE]
  /\ acq' = [acq EXCEPT ![i] = "idle"]
  /\ attempt' = [attempt EXCEPT ![i] = 0]
  /\ write_done' = [write_done EXCEPT ![i] = FALSE]
  /\ att_err' = [att_err EXCEPT ![i] = "ok"]
  /\ IniFrame /\ OnTime
  /\ UNCHANGED airVars

Write(i) ==
  /\ acq[i] = "write" /\ attempt[i] < Attempts /\ Linked(i)
  /\ Len(writes[i]) < 2
  /\ writes' = [writes EXCEPT ![i] = Append(@, "sent")]
  /\ acq' = [acq EXCEPT ![i] = "wait"]
  /\ IniFrame /\ OnTime
  /\ UNCHANGED <<boot, start_ranging, attempt, write_done, att_err, pending,
                 subscribed>>

\* The stack has no room for a write, or the attempts are over.
WriteGivenUp(i) ==
  /\ acq[i] = "write"
  /\ \/ attempt[i] = Attempts
     \/ Linked(i) /\ Len(writes[i]) = 2
  /\ acq' = [acq EXCEPT ![i] = "idle"]
  /\ IniFrame /\ OnTime
  /\ UNCHANGED <<boot, start_ranging, attempt, write_done, att_err, airVars>>

\* Only an error that is neither of the two fatal ones is tried again.
WriteDone(i) ==
  /\ acq[i] = "wait" /\ write_done[i]
  /\ write_done' = [write_done EXCEPT ![i] = FALSE]
  /\ acq' = [acq EXCEPT ![i] = IF att_err[i] = "other" THEN "write" ELSE "idle"]
  /\ attempt' = [attempt EXCEPT ![i] = IF att_err[i] = "other" THEN @ + 1 ELSE @]
  /\ IniFrame /\ OnTime
  /\ UNCHANGED <<boot, start_ranging, att_err, airVars>>

WriteTimeout(i) ==
  /\ acq[i] = "wait" /\ ~write_done[i]
  /\ acq' = [acq EXCEPT ![i] = "idle"]
  /\ IniFrame /\ TimeUp(writes[i] # <<>>)
  /\ UNCHANGED <<boot, start_ranging, attempt, write_done, att_err, airVars>>

\* sync_write_cb.
WriteCb(i) ==
  /\ writes[i] # <<>> /\ Head(writes[i]) # "sent"
  /\ writes' = [writes EXCEPT ![i] = Tail(@)]
  /\ write_done' = [write_done EXCEPT ![i] = TRUE]
  /\ att_err' = [att_err EXCEPT ![i] = Head(writes[i])]
  /\ IniFrame /\ OnTime
  /\ UNCHANGED <<boot, start_ranging, acq, attempt, pending, subscribed>>

Acquisition(i) ==
  \/ StartRanging(i) \/ RangingEnds(i) \/ Reboot(i) \/ Write(i)
  \/ WriteGivenUp(i) \/ WriteDone(i) \/ WriteTimeout(i)

-----------------------------------------------------------------------------
\* sync_write_id's test of the connection.
TakenFrom(o) == active_conn = o

\* The stack refuses the write on a link that was not set up (it is not
\* encrypted); else it completes the turn, is accepted late, or is rejected.
SyncWriteId(o) ==
  LET i == peer[o]
      answer(status) == writes' = [writes EXCEPT ![i] = [@ EXCEPT ![1] = status]]
  IN /\ i # NULL /\ writes[i] # <<>> /\ Head(writes[i]) = "sent"
     /\ \/ /\ ~subscribed[i]
           /\ answer("other")
           /\ UNCHANGED <<active_conn, completeVars>>
        \/ /\ subscribed[i] /\ TakenFrom(o)
           /\ answer("ok")
           /\ active_conn' = NULL
           /\ ranging_complete' = TRUE /\ completer' = i
        \/ /\ subscribed[i] /\ ~TakenFrom(o)
           /\ answer(IF active_conn = NULL THEN "ok" ELSE "unlikely")
           /\ UNCHANGED <<active_conn, completeVars>>
     /\ UNCHANGED <<linkVars, turn_idx, indication_complete, thread, next_conn,
                    iniVars, pending, subscribed, faultVars, bad>>

Setup(i) == Subscribe(i) \/ SetUp(i)
Air(i) == Indicated(i) \/ WriteCb(i)

RasNext ==
  \/ Orchestration
  \/ ConnectFailed
  \/ \E o \in Object : Connected(o) \/ Disconnected(o) \/ SyncWriteId(o)
  \/ \E i \in Initiator : Match(i) \/ Setup(i) \/ Air(i) \/ Acquisition(i)

\* The threads run and the messages arrive; links need not be lost or found.
RasFairness ==
  /\ WF_rasVars(Orchestration)
  /\ \A o \in Object : WF_rasVars(SyncWriteId(o))
  /\ \A i \in Initiator : /\ WF_rasVars(Setup(i))
                          /\ WF_rasVars(Indicated(i))
                          /\ WF_rasVars(WriteCb(i))
                          /\ WF_rasVars(Acquisition(i))

RasSpec == RasInit /\ [][RasNext]_rasVars /\ RasFairness

-----------------------------------------------------------------------------
(* Properties.                                                              *)

\* While a slot is free the reflector scans, connects, or has had a
\* connection attempt fail: nothing but that leaves it deaf to new devices.
ScansUnlessFailed == Room => scanning \/ connecting # NULL \/ "refused" \in harm

\* If every answer comes in time and every ranging ends, two initiators never
\* sound at once, whatever links are found, and lost outside of their turn.
Orderly == bad = {} /\ harm \cap {"cut", "late"} = {}
Sounding(i) == acq[i] = "ranging"
OneSounds == Orderly =>
               \A i, j \in Initiator : Sounding(i) /\ Sounding(j) => i = j

\* The turn is the initiator's from its indication to the end of the wait.
Sounders == {i \in Initiator : Sounding(i)}
Holder == IF thread \in {"confirm", "ranging"} THEN peer[next_conn] ELSE NULL
Token == INSTANCE TurnToken WITH Device <- Initiator, NoDevice <- NULL,
           holder <- Holder, ranging <- Sounders

\* As long as that is so, reflector and initiators hand one turn round: an
\* initiator begins to sound in its turn only, and the turn passes on only when
\* it has stopped.
HandsOneTurn == /\ Token!TokenInit
                /\ [][Orderly' => [Token!TokenNext]_Token!tokenVars]_rasVars

\* The types, and the two.
RasSafe == RasTypeOK /\ ScansUnlessFailed /\ OneSounds

\* Late answers or not, a turn ends by its own initiator's completion or by
\* its time: no other initiator's cuts it short, unless a link was lost in its
\* own turn (then the host may use the object of the thread's pointer again).
Turn(i) == thread = "ranging" /\ peer[next_conn] = i
EndsByOwn ==
  [][RangingDone /\ "cut" \notin harm => Turn(completer)]_rasVars

\* From when on every linked initiator is set up, each that stays linked is
\* given turns for ever, though others never complete theirs.
Stays(i) == <>[]Linked(i)
AllSubscribed == \A i \in Initiator : Linked(i) => subscribed[i]
EveryReadyServed ==
  <>[]AllSubscribed =>
    \A i \in Initiator : Stays(i) => []<>(Linked(i) /\ Turn(i))
=============================================================================
