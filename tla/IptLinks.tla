------------------------------- MODULE IptLinks -------------------------------
(***************************************************************************)
(* What the two applications of ipt_swap share: the set of peripherals,    *)
(* and what may go wrong in a behaviour beyond lost links and silence.     *)
(* A Zephyr connection object is identified with the peripheral at its     *)
(* other end, since the hub holds at most one connection to each.          *)
(***************************************************************************)
CONSTANTS Device,    \* the peripheral CS initiators within reach of the hub
          NoDevice,  \* the NULL connection pointer
          Faults     \* what may go wrong in some behaviour

ASSUME NoDeviceIsNone == NoDevice \notin Device
ASSUME FaultsAreNamed ==
  Faults \subseteq {"late_events", "cut_short", "preempted", "hci_errors"}

VARIABLE faults      \* what may go wrong in this behaviour: it never changes

\* An answer or a connection may come after the wait for it has timed out, and
\* a link may be lost as it is marked ready.
LateEvents == "late_events" \in faults

\* A procedure may end between its subevents: aborted, disabled, or with its
\* link.
CutShort == "cut_short" \in faults

\* RX may run between the end of the turn thread's wait and what the thread
\* does next, and a GO may come in a turn.
Preempted == "preempted" \in faults

\* The controller may refuse a disable or the settings.
HciErrors == "hci_errors" \in faults
=============================================================================
