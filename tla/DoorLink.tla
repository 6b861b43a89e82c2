------------------------------- MODULE DoorLink -------------------------------
(***************************************************************************)
(* The link from intercom_buzzer to the apartment's deadbolt               *)
(* (intercom_buzzer/src/door_link.cpp): a counter kept in settings, one    *)
(* packet signed over it for each unlock, sent and sent again 1 s later,   *)
(* by the Matter thread and by the system work queue.                      *)
(*                                                                         *)
(* A packet is its counter and the counter its tag was computed over, so   *)
(* it is genuine when the two are equal.  The radio may lose, delay,       *)
(* reorder and repeat packets.  The deadbolt is not part of the            *)
(* repository; it does what the head of door_link.cpp says of it.          *)
(***************************************************************************)
EXTENDS Integers

CONSTANTS MaxUnlocks,   \* calls of SendUnlock (a bound)
          MaxMin,        \* largest CONFIG_DOOR_LINK_COUNTER_MIN (a bound)
          Faults         \* may the device reset, and a load, a save, a
                         \* signature or a transmission fail?

ASSUME MaxUnlocksIsNatural == MaxUnlocks \in Nat
ASSUME MaxMinIsNatural == MaxMin \in Nat
ASSUME FaultsIsBoolean == Faults \in BOOLEAN

VARIABLES
  saved,        \* "doorlink/tx" in settings, 0 when it is not there
  counter_min,  \* CONFIG_DOOR_LINK_COUNTER_MIN of the build that runs
  sCounter, sReady, sPacket,   \* lines 52-55
  repeat,       \* is sRepeatWork scheduled or queued?
  boot,         \* has Init run since the reset?
  sender,       \* where SendUnlock is
  air,          \* packets on their way
  last,         \* the deadbolt: the last counter it accepted
  load_failed,  \* history: has Init failed to read the counter?
  unlocks,     \* history: calls of SendUnlock so far
  used,         \* history: the counters signed, and the command each stood for
  opened        \* history: the commands the deadbolt opened for

flashVars == <<saved, counter_min>>
ramVars == <<sCounter, sReady, sPacket, repeat, boot, sender>>
histVars == <<unlocks, used, opened>>
doorVars == <<flashVars, ramVars, air, last, load_failed, histVars>>

NoPacket == [counter |-> 0, tag |-> 0]

DoorTypeOK ==
  /\ saved \in Nat
  /\ counter_min \in Nat
  /\ sCounter \in Nat
  /\ sReady \in BOOLEAN
  /\ sPacket \in [counter : Nat, tag : Nat]
  /\ repeat \in BOOLEAN
  /\ boot \in BOOLEAN
  /\ sender \in {"idle", "saved", "put", "signed"}
  /\ air \subseteq [counter : Nat, tag : Nat]
  /\ last \in Nat
  /\ load_failed \in BOOLEAN
  /\ unlocks \in 0 .. MaxUnlocks
  /\ used \subseteq [counter : Nat, command : 1 .. MaxUnlocks]
  /\ opened \subseteq 1 .. MaxUnlocks

DoorInit ==
  /\ saved = 0
  /\ counter_min = 0
  /\ sCounter = 0
  /\ sReady = FALSE
  /\ sPacket = NoPacket
  /\ repeat = FALSE
  /\ boot = FALSE
  /\ sender = "idle"
  /\ air = {}
  /\ last = 0
  /\ load_failed = FALSE
  /\ unlocks = 0
  /\ used = {}
  /\ opened = {}

-----------------------------------------------------------------------------
(* Boot and reset.                                                          *)

\* A reset, at any moment.  Line 52 gives sCounter its initial value.
Reset == /\ Faults
         /\ boot
         /\ boot' = FALSE
         /\ sCounter' = counter_min
         /\ sReady' = FALSE
         /\ sPacket' = NoPacket
         /\ repeat' = FALSE
         /\ sender' = "idle"
         /\ UNCHANGED <<flashVars, air, last, histVars, load_failed>>

\* README: the settings are erased, and a build with a higher minimum is
\* flashed, above the last counter used.
Reflash(min) ==
  /\ ~boot
  /\ \A u \in used : u.counter < min
  /\ saved' = 0
  /\ counter_min' = min
  /\ sCounter' = min
  /\ UNCHANGED <<sReady, sPacket, repeat, boot, sender, air, last, load_failed,
                 histVars>>

\* Line 63 without MAX, and as it is.
TakeSaved == sCounter' = saved
CounterLoaded == sCounter' = IF saved > sCounter THEN saved ELSE sCounter

\* Init ignores a load that fails; a socket that fails leaves the link off.
InitLink(loaded, opens) ==
  /\ ~boot
  /\ boot' = TRUE
  /\ loaded \/ Faults
  /\ load_failed' = (load_failed \/ ~loaded)
  /\ IF loaded THEN CounterLoaded ELSE UNCHANGED sCounter
  /\ sReady' = opens
  /\ UNCHANGED <<flashVars, sPacket, repeat, sender, air, last, histVars>>

-----------------------------------------------------------------------------
(* SendUnlock, in the Matter thread.                                        *)

\* Lines 145-152: saved first.  A save that fails may have been written.
SaveCounter(ok) ==
  /\ saved' \in IF ok THEN {sCounter + 1} ELSE {saved, sCounter + 1}
  /\ sCounter' = IF ok THEN sCounter + 1 ELSE sCounter
  /\ sender' = IF ok THEN "saved" ELSE "idle"

SendUnlock(ok) ==
  /\ sender = "idle" /\ sReady
  /\ ok \/ Faults
  /\ unlocks < MaxUnlocks
  /\ unlocks' = unlocks + 1
  /\ SaveCounter(ok)
  /\ UNCHANGED <<counter_min, sReady, sPacket, repeat, boot, air, last, used,
                 opened, load_failed>>

\* Line 158.
PutCounter == /\ sender = "saved"
              /\ sPacket' = [sPacket EXCEPT !.counter = sCounter]
              /\ sender' = "put"
              /\ UNCHANGED <<flashVars, sCounter, sReady, repeat, boot, air,
                             last, histVars, load_failed>>

\* Lines 160-167: the tag is computed over the packet and copied into it.
Sign == /\ sender = "put"
        /\ sPacket' = [sPacket EXCEPT !.tag = sPacket.counter]
        /\ sender' = "signed"
        /\ used' = used \union {[counter |-> sCounter, command |-> unlocks]}
        /\ UNCHANGED <<flashVars, sCounter, sReady, repeat, boot, air, last,
                       unlocks, opened, load_failed>>

SignFails == /\ Faults
             /\ sender = "put"
             /\ sender' = "idle"
             /\ UNCHANGED <<flashVars, sCounter, sReady, sPacket, repeat, boot,
                            air, last, histVars, load_failed>>

\* The command a counter stood for.
CommandsOf(counter) == {u.command : u \in {v \in used : v.counter = counter}}

\* Send: a message that is not allocated or not sent is only logged.
Transmit(ok) == air' = IF ok THEN air \union {sPacket} ELSE air

\* Lines 170-171: k_work_schedule leaves a repeat that is scheduled alone.
SendFirst(ok) ==
  /\ sender = "signed"
  /\ ok \/ Faults
  /\ Transmit(ok)
  /\ repeat' = TRUE
  /\ sender' = "idle"
  /\ UNCHANGED <<flashVars, sCounter, sReady, sPacket, boot, last, unlocks,
                 used, opened, load_failed>>

\* RepeatHandler sending a packet of its own rather than the same again.
RepeatAnew(ok) ==
  /\ repeat
  /\ repeat' = FALSE
  /\ saved' = sCounter + 1
  /\ sCounter' = sCounter + 1
  /\ air' = air \union {[counter |-> sCounter', tag |-> sCounter']}
  /\ used' = used \union {[counter |-> sCounter', command |-> unlocks]}
  /\ UNCHANGED <<counter_min, sReady, sPacket, boot, sender, last, unlocks,
                 opened, load_failed>>

\* RepeatHandler: the packet as it is now, in the system work queue.
RepeatHandler(ok) ==
  /\ repeat
  /\ ok \/ Faults
  /\ repeat' = FALSE
  /\ Transmit(ok)
  /\ UNCHANGED <<flashVars, sCounter, sReady, sPacket, boot, sender, last,
                 unlocks, used, opened, load_failed>>

-----------------------------------------------------------------------------
(* The radio and the deadbolt.                                              *)

Lose(p) == /\ p \in air
           /\ air' = air \ {p}
           /\ UNCHANGED <<flashVars, ramVars, last, histVars, load_failed>>

\* A genuine packet with a counter higher than the last opens the door.
Deliver(p) == /\ p \in air
              /\ p.tag = p.counter
              /\ p.counter > last
              /\ last' = p.counter
              /\ opened' = opened \union CommandsOf(p.counter)
              /\ UNCHANGED <<flashVars, ramVars, air, load_failed, unlocks,
                             used>>

-----------------------------------------------------------------------------
DoorNext ==
  \/ Reset
  \/ \E min \in 0 .. MaxMin : Reflash(min)
  \/ \E loaded, opens \in BOOLEAN : InitLink(loaded, opens)
  \/ \E ok \in BOOLEAN : SendUnlock(ok) \/ SendFirst(ok) \/ RepeatHandler(ok)
  \/ PutCounter \/ Sign \/ SignFails
  \/ \E p \in air : Lose(p) \/ Deliver(p)

DoorSpec == DoorInit /\ [][DoorNext]_doorVars

-----------------------------------------------------------------------------
(* Properties.                                                              *)

\* "a counter must never go out twice with different meanings after a reset"
\* (line 144), and each goes out with a higher one than those before it, or
\* the deadbolt would refuse it.  Init ignores a load that fails (line 117):
\* after one, neither this nor OpensOnce holds.
CountersIncrease ==
  ~load_failed =>
    \A u, v \in used : u.command < v.command => u.counter < v.counter

\* One unlock opens the deadbolt once, however often its packet arrives.
OpensOnce ==
  [][~load_failed /\ last' # last => opened' # opened]_doorVars
=============================================================================
