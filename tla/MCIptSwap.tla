------------------------------- MODULE MCIptSwap -------------------------------
\* Instances of IptSwap for TLC.
EXTENDS IptSwap, TLC

\* The peripherals are interchangeable: sound for the safety runs.
SwapSymmetry == Permutations(Device)

\* What the set-up phase leaves when every initiator is there and its set-up
\* succeeds: the round-robin phase begins with every slot ready.
AllReady ==
  /\ conns \in [Slot -> Device]
  /\ \A r, s \in Slot : r # s => conns[r] # conns[s]
  /\ last_connected = conns[MaxConn - 1]
  /\ link_ready = [s \in Slot |-> TRUE]
  /\ conn_count = MaxConn /\ established = MaxConn
  /\ done = [d \in Device |-> IF Connected(d) THEN Stage ELSE {}]
  /\ hub = "loop" /\ round_robin = TRUE
  /\ sem_connected = 0 /\ sem_stage = [i \in Stage |-> 0] /\ sem_turn_done = 0
  /\ radio = "off" /\ pending = {}
  /\ slot = 0 /\ cur = NoDevice /\ cur_slot = 0 /\ stage = 1
  /\ link = [d \in Device |-> Connected(d)] /\ connection = link
  /\ main = [d \in Device |-> IF Connected(d) THEN "wait" ELSE "boot"]
  /\ sem_turn_go = [d \in Device |-> 0]
  /\ sem_burst_complete = [d \in Device |-> 0]
  /\ turn_active = [d \in Device |-> FALSE]
  /\ turn_proc_count = [d \in Device |-> 0]
  /\ sem_estimate = [d \in Device |-> 1]
  /\ sem_parsed = [d \in Device |-> 0]
  /\ turn = [d \in Device |-> "idle"]
  /\ cs = [d \in Device |-> "off"]
  /\ rx = [d \in Device |-> "ready"]
  /\ go = [d \in Device |-> {}] /\ done_msg = [d \in Device |-> {}]
  /\ hub_wait = 0 /\ burst_wait = [d \in Device |-> 0]
  /\ faults = Faults

\* A bound: one link at a time is down or being set up.
OneLinkDown ==
  Cardinality({d \in Device : ~link[d] \/ ~connection[d] \/ ~Connected(d)}) <= 1

ReadySpec == AllReady /\ [][SwapNext]_swapVars
=============================================================================
