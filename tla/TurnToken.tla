------------------------------ MODULE TurnToken ------------------------------
(***************************************************************************)
(* What every turn-based Channel Sounding scheduler of this repository     *)
(* promises: a coordinator hands one turn at a time to one link, a link    *)
(* ranges only while the turn is its own, and the turn passes on only when *)
(* the link has stopped.  ipt_swap/README.md puts it as "Only one link     *)
(* ranges at a time".  IptSwap implements this module; RasSync does while  *)
(* every answer is in time.                                                *)
(***************************************************************************)
CONSTANTS Device,    \* the Channel Sounding initiators
          NoDevice   \* nobody holds the turn

VARIABLES holder,    \* the device whose turn it is
          ranging    \* the devices whose procedures are enabled

tokenVars == <<holder, ranging>>

TokenInit == holder = NoDevice /\ ranging = {}

\* The coordinator hands the turn to a device.
Hand(d) == /\ holder = NoDevice
           /\ holder' = d
           /\ UNCHANGED ranging

\* The device that holds the turn enables its procedures.
Start(d) == /\ holder = d
            /\ ranging' = ranging \union {d}
            /\ UNCHANGED holder

\* A device disables its procedures, or its link breaks.
Stop(d) == /\ ranging' = ranging \ {d}
           /\ UNCHANGED holder

\* The coordinator takes the turn back, from a device that has stopped or
\* never started.
Return == /\ holder # NoDevice
          /\ ranging = {}
          /\ holder' = NoDevice
          /\ UNCHANGED ranging

TokenNext == \/ \E d \in Device : Hand(d) \/ Start(d) \/ Stop(d)
             \/ Return

TokenSpec == TokenInit /\ [][TokenNext]_tokenVars

\* Only the holder of the turn ranges.
TokenExclusive == ranging \subseteq {holder}
=============================================================================
