-------------------------------- MODULE IptSwap --------------------------------
(***************************************************************************)
(* ipt_swap as a whole: the hub of ReflCentral and the peripherals of      *)
(* InitPeripheral over their links, with the clock that their two timeouts *)
(* race.  GO travels to a peripheral as a write without response, DONE to  *)
(* the hub as a notification; the link layer retransmits both until they   *)
(* arrive or the link is lost, so they are neither reordered nor lost on a *)
(* link that lives, but they may be old.                                   *)
(*                                                                         *)
(* One unit of time is whatever the constants are given in.  The latency   *)
(* of the threads and of HCI commands is part of GoBound and DoneBound.    *)
(***************************************************************************)
EXTENDS ReflCentral, InitPeripheral

CONSTANTS HubTimeout,    \* 2000 ms, refl_central/src/main.c:470
          BurstTimeout,  \* 1500 ms, init_peripheral/src/main.c:373
          GoBound,       \* a GO is old enough to be the last to arrive
          DoneBound      \* so is a DONE

ASSUME TimesAreNaturals ==
  /\ HubTimeout \in Nat /\ BurstTimeout \in Nat
  /\ GoBound \in Nat /\ DoneBound \in Nat

\* What the scheduler needs of the links: 500 ms of slack for both messages.
PromptDelivery == GoBound + BurstTimeout + DoneBound < HubTimeout

VARIABLES
  go,         \* go[d]: the ages of the GOs on their way to d
  done_msg,   \* done_msg[d]: the ages of the DONEs on their way from d
  hub_wait,   \* how long the hub has waited in this turn
  burst_wait  \* burst_wait[d]: how long d's turn thread has waited in its burst

mediumVars == <<go, done_msg>>
timeVars == <<hub_wait, burst_wait>>
swapVars == <<hubVars, perVars, mediumVars, timeVars>>

SwapTypeOK ==
  /\ HubTypeOK
  /\ PerTypeOK
  /\ go \in [Device -> SUBSET (0 .. GoBound)]
  /\ done_msg \in [Device -> SUBSET (0 .. DoneBound)]
  /\ hub_wait \in 0 .. HubTimeout
  /\ burst_wait \in [Device -> 0 .. BurstTimeout]

SwapInit ==
  /\ HubInit
  /\ PerInit
  /\ go = [d \in Device |-> {}]
  /\ done_msg = [d \in Device |-> {}]
  /\ hub_wait = 0
  /\ burst_wait = [d \in Device |-> 0]

-----------------------------------------------------------------------------
(* Links.                                                                   *)

\* Both ends hear of the connection.
LinkUp(d) == /\ ConnectedCb(d)
             /\ ConnectedPer(d)
             /\ UNCHANGED <<mediumVars, timeVars>>

\* A link is lost with what travels on it; each host hears of it by itself.
LinkLost(d) == /\ LinkLostPer(d)
               /\ go' = [go EXCEPT ![d] = {}]
               /\ done_msg' = [done_msg EXCEPT ![d] = {}]
               /\ UNCHANGED <<hubVars, timeVars>>

HubHearsLoss(d) == /\ ~link[d]
                   /\ DisconnectedCb(d)
                   /\ UNCHANGED <<perVars, mediumVars, timeVars>>

PerHearsLoss(d) == /\ DisconnectedPer(d)
                   /\ UNCHANGED <<hubVars, mediumVars, timeVars>>

(* The turn.                                                                *)

\* bt_gatt_write_without_response succeeds on any link the hub believes in.
SendGo == /\ Grant
          /\ go' = IF link[cur'] THEN [go EXCEPT ![cur'] = @ \union {0}] ELSE go
          /\ hub_wait' = 0
          /\ UNCHANGED <<perVars, done_msg, burst_wait>>

GoArrives(d) == /\ TurnWrite(d)
                /\ \E age \in go[d] :
                     /\ \A other \in go[d] : other <= age
                     /\ go' = [go EXCEPT ![d] = @ \ {age}]
                /\ UNCHANGED <<hubVars, done_msg, timeVars>>

\* A peripheral whose RX thread never returns hears no GO.
GoUnheard(d) == /\ Wedged(d)
                /\ go[d] # {}
                /\ go' = [go EXCEPT ![d] = {}]
                /\ UNCHANGED <<hubVars, perVars, done_msg, timeVars>>

BeginTurn(d) == /\ TurnStart(d)
                /\ burst_wait' = [burst_wait EXCEPT ![d] = 0]
                /\ UNCHANGED <<hubVars, mediumVars, hub_wait>>

NoTurn(d) == /\ TurnEnableFails(d) \/ TurnNoConnection(d)
             /\ UNCHANGED <<hubVars, mediumVars, timeVars>>

EndBurst(d) == /\ \/ BurstTaken(d)
                  \/ BurstTimesOut(d) /\ burst_wait[d] = BurstTimeout
               /\ UNCHANGED <<hubVars, mediumVars, timeVars>>

SendDone(d) == /\ \E disabled, notified \in BOOLEAN :
                    /\ Yield(d, disabled, notified)
                    /\ done_msg' = IF notified
                         THEN [done_msg EXCEPT ![d] = @ \union {0}]
                         ELSE done_msg
               /\ UNCHANGED <<hubVars, go, timeVars>>

DoneArrives(d) == /\ TurnNotify(d)
                  /\ \E age \in done_msg[d] :
                       /\ \A other \in done_msg[d] : other <= age
                       /\ done_msg' = [done_msg EXCEPT ![d] = @ \ {age}]
                  /\ UNCHANGED <<perVars, go, timeVars>>

\* The hub goes on after a wait of no length.
EndTurnEarly == /\ TurnDone \/ TurnTimeout
                /\ hub_wait' = 0
                /\ UNCHANGED <<perVars, mediumVars, burst_wait>>

EndTurn == /\ TurnDone \/ (TurnTimeout /\ hub_wait = HubTimeout)
           /\ hub_wait' = 0
           /\ UNCHANGED <<perVars, mediumVars, burst_wait>>

(* The rest of each side.                                                   *)

HubElse == /\ HubSetup \/ HubLoop \/ HubRadio \/ HubStageCb
           /\ UNCHANGED <<perVars, mediumVars, timeVars>>

PerElse(d) == /\ \/ RxMayRun(d) /\ (Procedures(d) \/ RxResume(d))
                 \/ Settings(d) \/ Estimate(d)
              /\ UNCHANGED <<hubVars, mediumVars, timeVars>>

(* Time.                                                                    *)

\* The threads do not dawdle: time stands while one of them has work to do.
PerWaits(d) == /\ turn[d] = "idle" => sem_turn_go[d] = 0
               /\ turn[d] = "burst" => /\ sem_burst_complete[d] = 0
                                       /\ burst_wait[d] < BurstTimeout
               /\ turn[d] \notin {"late", "yield"}

HubWaits == hub = "await" => sem_turn_done = 0 /\ hub_wait < HubTimeout

InTime(d) == (\A age \in go[d] : age < GoBound)
             /\ (\A age \in done_msg[d] : age < DoneBound)

Older(ages) == {age + 1 : age \in ages}

Tick == /\ HubWaits
        /\ \A d \in Device : PerWaits(d) /\ InTime(d)
        /\ go' = [d \in Device |-> Older(go[d])]
        /\ done_msg' = [d \in Device |-> Older(done_msg[d])]
        /\ hub_wait' = IF hub = "await" THEN hub_wait + 1 ELSE 0
        /\ burst_wait' = [d \in Device |->
                            IF turn[d] = "burst" THEN burst_wait[d] + 1 ELSE 0]
        /\ UNCHANGED <<hubVars, perVars>>

-----------------------------------------------------------------------------
DeviceStep(d) ==
  \/ LinkUp(d) \/ LinkLost(d) \/ HubHearsLoss(d) \/ PerHearsLoss(d)
  \/ GoArrives(d) \/ GoUnheard(d) \/ BeginTurn(d) \/ NoTurn(d) \/ EndBurst(d)
  \/ SendDone(d) \/ DoneArrives(d) \/ PerElse(d)

SwapNext == \/ \E d \in Device : DeviceStep(d)
            \/ SendGo \/ EndTurn \/ HubElse \/ Tick

SwapSpec == SwapInit /\ [][SwapNext]_swapVars

-----------------------------------------------------------------------------
(* Properties.                                                              *)

Ranging == {d \in Device : cs[d] # "off"}
Holder == IF hub = "await" THEN cur ELSE NoDevice

\* "Only one link ranges at a time" (ipt_swap/README.md:46): procedures are
\* enabled on the link the hub waits for, and on no other, unless a
\* controller has refused to disable them.
Exclusive == ~HciErrors => Ranging \subseteq {Holder}

\* d takes no part in a turn, and no message of one is on its way.
Quiet(d) == /\ go[d] = {} /\ done_msg[d] = {}
            /\ sem_turn_go[d] = 0
            /\ turn[d] = "idle"

\* "so this turn waits for its OWN completion" (main.c:462): when the hub is
\* told that the turn is over, the initiator it granted has finished.
OwnDone == hub = "await" /\ sem_turn_done = 1 => Quiet(cur)

\* The two programs together hand one token round.
Token == INSTANCE TurnToken WITH holder <- Holder, ranging <- Ranging
TokenImplemented == Token!TokenSpec

-----------------------------------------------------------------------------
(* Why it works: by the hub's clock, no step of a turn can come late.       *)

\* How far the turn of the device the hub waits for can be after hub_wait.
OnTime(d) ==
  /\ \A age \in go[d] : age = hub_wait
  /\ sem_turn_go[d] = 1 => hub_wait <= GoBound
  /\ turn[d] # "idle" => hub_wait <= GoBound + burst_wait[d]
  /\ \A age \in done_msg[d] : hub_wait <= GoBound + BurstTimeout + age

\* A turn is in one place: the GO, the turn thread, the one DONE, or over.
OnePlace(d) ==
  /\ go[d] # {} => sem_turn_go[d] = 0 /\ turn[d] = "idle" /\ done_msg[d] = {}
  /\ sem_turn_go[d] = 1 => turn[d] = "idle" /\ done_msg[d] = {}
  /\ turn[d] # "idle" => done_msg[d] = {}
  /\ \A age, other \in done_msg[d] : age = other

\* Only the holder has anything of a turn, in one place and on time, and
\* nothing at all once the hub has its DONE.
TurnInv ==
  /\ \A d \in Device : d # Holder => Quiet(d)
  /\ hub = "await" => /\ OnTime(cur)
                      /\ OnePlace(cur)
                      /\ sem_turn_done = 1 => Quiet(cur)
=============================================================================
