------------------------------ MODULE BuzzerLock ------------------------------
(***************************************************************************)
(* The buzz cycle of intercom_buzzer: BoltLockManager, AppTask's relay and *)
(* LockState handling, and the two lock commands of zcl_callbacks.cpp.     *)
(*                                                                         *)
(* Three threads share one state without a lock: the Matter thread runs    *)
(* the commands and the lambdas that write LockState, the main thread runs *)
(* the tasks the actuator timer posts, and the system work queue, which    *)
(* nothing preempts, runs RelayOffHandler.  A handler that another thread  *)
(* may preempt is split where it reads or writes what the others use; the  *)
(* callback is given mStateData by reference, so it sees the others' work. *)
(*                                                                         *)
(* The actuator timer and the relay's delay both last 2 s, so they expire  *)
(* in the order in which they were armed.                                  *)
(***************************************************************************)
EXTENDS Naturals, Sequences

CONSTANTS Endpoint,      \* the Door Lock endpoints, 1 and 2 in the code
          MaxCommands    \* commands accepted from the controllers (a bound)

ASSUME EndpointsExist == Endpoint # {}
ASSUME MaxCommandsIsNatural == MaxCommands \in Nat

VARIABLES
  mState, mEndpoint,   \* BoltLockManager::mStateData
  relay,               \* is the relay energised?
  armed,               \* the timers that run, in the order they will expire
  off_due,             \* sRelayOffWork is queued
  tasks,               \* actuator tasks the main thread has not dispatched
  posted,              \* StateData copies queued for the Matter thread
  lock_state,          \* the LockState attribute of each endpoint
  chip, app,           \* where the Matter thread and the main thread are
  preempted,           \* may a handler be interrupted in this behaviour, by
                       \* another thread's or by the expiry of a timer?
  commands,            \* commands accepted so far
  owed                 \* history: the last accepted command is an unlock that
                       \* has not buzzed

stateData == <<mState, mEndpoint>>
relayVars == <<relay, armed, off_due>>
attrVars == <<posted, lock_state>>
cmdVars == <<commands, owed>>
buzzVars == <<stateData, relayVars, tasks, attrVars, chip, app, preempted,
             cmdVars>>

State == {"locking", "locked", "unlocking", "unlocked"}
Orders == {<<>>, <<"act">>, <<"off">>, <<"act", "off">>, <<"off", "act">>}

BuzzTypeOK ==
  /\ mState \in State
  /\ mEndpoint \in Endpoint
  /\ relay \in BOOLEAN
  /\ armed \in Orders
  /\ off_due \in BOOLEAN
  /\ tasks \in Nat
  /\ posted \in Seq(Endpoint \X State)
  /\ lock_state \in [Endpoint -> {"Locked", "Unlocked", "NotFullyLocked"}]
  /\ chip \in {"idle", "assigned", "switched"}
  /\ app \in {"idle", "assigned", "switched", "lock", "unlock"}
  /\ preempted \in BOOLEAN
  /\ commands \in 0 .. MaxCommands
  /\ owed \in BOOLEAN

\* After emberAfDoorLockClusterInitCallback of every endpoint.
BuzzInit ==
  /\ mState = "locked"
  /\ mEndpoint \in Endpoint
  /\ relay = FALSE
  /\ armed = <<>>
  /\ off_due = FALSE
  /\ tasks = 0
  /\ posted = <<>>
  /\ lock_state = [e \in Endpoint |-> "Locked"]
  /\ chip = "idle"
  /\ app = "idle"
  /\ preempted \in BOOLEAN
  /\ commands = 0
  /\ owed = FALSE

-----------------------------------------------------------------------------
Running(timer) == timer \in {armed[i] : i \in 1 .. Len(armed)}

\* An actuator timer shorter than the relay's delay.
ActFirst == armed' = IF Running("off") THEN <<"act", "off">> ELSE <<"act">>

\* k_timer_start: a running timer starts again.
ActStarted == armed' = IF Running("off") THEN <<"off", "act">> ELSE <<"act">>

\* The relay is switched on and nothing scheduled to switch it off.
OffForgotten == UNCHANGED armed

\* k_work_schedule: nothing if the work is scheduled or queued.
OffScheduled ==
  armed' = IF off_due \/ Running("off") THEN armed ELSE Append(armed, "off")

IsLocked == mState = "locked"

\* Without and with what keeps a cycle to one endpoint.
NeverBusy(e) == FALSE
IsBusyOnOtherEndpoint(e) == ~IsLocked /\ mEndpoint # e

\* What UpdateClusterStateHandler writes for a state.
LockStateOf(state) == CASE state = "locked" -> "Locked"
                        [] state = "unlocked" -> "Unlocked"
                        [] OTHER -> "NotFullyLocked"

\* LockStateChanged as far as the relay goes, on mStateData as it is now.
SwitchRelay ==
  IF mState = "unlocked"
    THEN relay' = TRUE /\ OffScheduled /\ owed' = FALSE
    ELSE UNCHANGED <<relay, armed, owed>>

\* UpdateClusterState: a copy of mStateData as it is now.
Post(endpoint, state) == posted' = Append(posted, <<endpoint, state>>)

\* A handler takes no time next to the 2 s of a timer: unless preempted, what
\* is under way or due comes first.
MatterMayRun == preempted \/ (app = "idle" /\ tasks = 0 /\ ~off_due)
MainMayRun == preempted \/ chip = "idle"
WorkMayRun == preempted \/ (chip = "idle" /\ app = "idle")
TimersMayExpire == MatterMayRun /\ MainMayRun

-----------------------------------------------------------------------------
(* The Matter thread.                                                       *)

\* emberAfPluginDoorLockOnDoorUnlockCommand with a valid PIN.  An unlock of
\* an endpoint that is unlocked already, or busy, changes nothing.
UnlockCommand(e) ==
  /\ chip = "idle" /\ MatterMayRun
  /\ commands < MaxCommands
  /\ ~IsBusyOnOtherEndpoint(e)
  /\ mState # "unlocked"
  /\ mState' = "unlocking"
  /\ mEndpoint' = e
  /\ chip' = "assigned"
  /\ commands' = commands + 1
  /\ owed' = TRUE
  /\ UNCHANGED <<relayVars, tasks, attrVars, app, preempted>>

\* emberAfPluginDoorLockOnDoorLockCommand with a valid PIN.
LockCommand(e) ==
  /\ chip = "idle" /\ MatterMayRun
  /\ commands < MaxCommands
  /\ ~IsBusyOnOtherEndpoint(e)
  /\ ~IsLocked
  /\ mState' = "locking"
  /\ chip' = "assigned"
  /\ commands' = commands + 1
  /\ owed' = FALSE
  /\ UNCHANGED <<mEndpoint, relayVars, tasks, attrVars, app, preempted>>

\* SetStateData's callback; DoorLink may block in it.
CommandSwitch ==
  /\ chip = "assigned" /\ MatterMayRun
  /\ SwitchRelay
  /\ chip' = "switched"
  /\ UNCHANGED <<stateData, off_due, tasks, attrVars, app, preempted,
                 commands>>

\* The end of the callback, and k_timer_start.
CommandEnd ==
  /\ chip = "switched" /\ MatterMayRun
  /\ Post(mEndpoint, mState)
  /\ ActStarted
  /\ chip' = "idle"
  /\ UNCHANGED <<stateData, relay, off_due, tasks, lock_state, app, preempted,
                 cmdVars>>

\* UpdateClusterStateHandler, in the order of the posts.
UpdateClusterStateHandler ==
  /\ chip = "idle" /\ MatterMayRun
  /\ posted # <<>>
  /\ lock_state' = [lock_state EXCEPT ![Head(posted)[1]] =
                      LockStateOf(Head(posted)[2])]
  /\ posted' = Tail(posted)
  /\ UNCHANGED <<stateData, relayVars, tasks, chip, app, cmdVars, preempted>>

-----------------------------------------------------------------------------
(* The timers and the system work queue.                                    *)

ActuatorTimer == /\ TimersMayExpire
                 /\ armed # <<>>
                 /\ Head(armed) = "act"
                 /\ armed' = Tail(armed)
                 /\ tasks' = tasks + 1
                 /\ UNCHANGED <<stateData, relay, off_due, attrVars, chip, app,
                                cmdVars, preempted>>

RelayTimer == /\ TimersMayExpire
              /\ armed # <<>>
              /\ Head(armed) = "off"
              /\ armed' = Tail(armed)
              /\ off_due' = TRUE
              /\ UNCHANGED <<stateData, relay, tasks, attrVars, chip, app,
                             cmdVars, preempted>>

\* Line 38 forgotten, and as it is: Lock(), whatever is under way.
RelockForgotten == UNCHANGED <<mState, armed, posted>>
Relock == IF IsLocked
            THEN UNCHANGED <<mState, armed, posted>>
            ELSE mState' = "locking" /\ Post(mEndpoint, "locking") /\ ActStarted

RelayOffHandler ==
  /\ off_due /\ WorkMayRun
  /\ off_due' = FALSE
  /\ relay' = FALSE
  /\ Relock
  /\ UNCHANGED <<mEndpoint, tasks, lock_state, chip, app, cmdVars, preempted>>

-----------------------------------------------------------------------------
(* The main thread: ActuatorAppEventHandler and SetState.                   *)

ActuatorTask ==
  /\ app = "idle" /\ MainMayRun
  /\ tasks > 0
  /\ tasks' = tasks - 1
  /\ app' = CASE mState = "locking" -> "lock"
              [] mState = "unlocking" -> "unlock"
              [] OTHER -> "idle"
  /\ UNCHANGED <<stateData, relayVars, attrVars, chip, cmdVars, preempted>>

SetState ==
  /\ app \in {"lock", "unlock"} /\ MainMayRun
  /\ mState' = IF app = "lock" THEN "locked" ELSE "unlocked"
  /\ app' = "assigned"
  /\ UNCHANGED <<mEndpoint, relayVars, tasks, attrVars, chip, preempted,
                 cmdVars>>

SetStateSwitch ==
  /\ app = "assigned" /\ MainMayRun
  /\ SwitchRelay
  /\ app' = "switched"
  /\ UNCHANGED <<stateData, off_due, tasks, attrVars, chip, preempted,
                 commands>>

SetStateEnd ==
  /\ app = "switched" /\ MainMayRun
  /\ Post(mEndpoint, mState)
  /\ app' = "idle"
  /\ UNCHANGED <<stateData, relayVars, tasks, lock_state, chip, preempted,
                 cmdVars>>

-----------------------------------------------------------------------------
MatterThread == CommandSwitch \/ CommandEnd \/ UpdateClusterStateHandler
MainThread == ActuatorTask \/ SetState \/ SetStateSwitch \/ SetStateEnd

BuzzNext == \/ \E e \in Endpoint : UnlockCommand(e) \/ LockCommand(e)
            \/ MatterThread \/ MainThread
            \/ ActuatorTimer \/ RelayTimer \/ RelayOffHandler

\* The threads run and the timers expire; no command is sure to come.
BuzzFairness == /\ WF_buzzVars(MatterThread)
                /\ WF_buzzVars(MainThread)
                /\ WF_buzzVars(ActuatorTimer \/ RelayTimer)
                /\ WF_buzzVars(RelayOffHandler)

BuzzSpec == BuzzInit /\ [][BuzzNext]_buzzVars /\ BuzzFairness

-----------------------------------------------------------------------------
(* Properties.                                                              *)

OffPending == off_due \/ Running("off")

\* The relay is never left on: while it is, its switching off is pending,
\* whichever commands come in the 2 s (app_task.cpp:111-114; k_work_schedule
\* does nothing when the work is pending already).
RelayHasOff == relay => OffPending

\* The relay keeps the other endpoint out (bolt_lock_manager.h:68-72): the lock
\* is locked with the relay on only when the relay is about to be released.
\* (Holds where no handler is interrupted, like AttributesAgree.)
RelayHolds == ~preempted /\ relay /\ IsLocked => off_due

\* When nothing is under way the two LockState attributes tell what the one
\* lock does: its own endpoint its state, any other that it is locked.
Settled == posted = <<>> /\ chip = "idle" /\ app = "idle"
AttributesAgree ==
  ~preempted /\ Settled =>
    \A e \in Endpoint :
      lock_state[e] = IF e = mEndpoint THEN LockStateOf(mState) ELSE "Locked"

\* "unlock" buzzes the door (README.md:5): an unlock that was accepted is under
\* way until the relay is on, unless a controller locks again.
UnlockBuzzes == ~preempted /\ owed => mState \in {"unlocking", "unlocked"}

\* "then it goes back to locked" (README.md:5), once the commands stop.
GoesBackToLocked == <>[](IsLocked /\ ~relay)
=============================================================================
