# Verification of nordic-stuff

TLA+ models of the programs in this repository, the TLC runs that check them
and TLAPS proofs about them. Paths are relative to the repository's root; a
line number refers to the file named beside it. `PROJECT.json` lists the runs,
the lines each definition stands for, the hazards, the findings and the
theorems.

## The system

The repository holds Zephyr/nRF Connect applications that share one idea,
several Bluetooth Channel Sounding (CS) links that must not range at the same
time, and a Matter door lock that pulses an intercom's relay.

| Component | State it keeps | Operations | Interacts with |
| --- | --- | --- | --- |
| `ipt_swap/refl_central` (hub) | slot table `conns`, `link_ready`, `last_connected`, six semaphores, round-robin position | set-up phase, `setup_link`, `subscribe_turn`, grant, rescan; connection, set-up and DONE callbacks | peripherals: GO as a GATT write, DONE as a notification; the scan module |
| `ipt_swap/init_peripheral` | `connection`, turn semaphores, `turn_active`, `turn_proc_count`, tone buffer and its semaphore | `turn_write`, `turn_thread`, `subevent_result_cb`, `distance_estimates_update`, connection callbacks | hub; the controller's procedures |
| `ipt_swap/free_running` | the same without turns, a cadence per slot | cadence thread, starvation watchdog, reconnect supervisor | hub and peripherals |
| `cs_ipt_multi/target_reflector` | anchor table under a mutex, work queue, active turn | reflector worker, round-robin thread, turn service | anchors: GO as a notification, DONE as a write |
| `cs_ipt_multi/anchor_initiator` | `connection`, `link_up`, nine semaphores, `turn_value_handle`, tone buffer | reconnect loop (scan, secure, CS set-up, discovery, ranging, recovery); callbacks | target; the scan module; the controller's procedures |
| `cs_ras_multi` | connection contexts, orchestration position, sync semaphores, ranging data | orchestration thread, indications, sync writes, acquisition thread, distance filter | GATT indications and writes; ranging service |
| `scan_cs_soak` | scan and CS counters, semaphores of one cycle | soak cycle of the gateways, target's reconnection | BLE scanner and CS on one radio |
| `intercom_buzzer` lock | `mStateData`, relay, actuator timer, delayed work, LockState attributes | lock and unlock commands, timer, `RelayOffHandler`, attribute updates | Matter, main and work-queue threads |
| `intercom_buzzer` door link | counter in settings and in RAM, packet, delayed repeat | `Init`, `SendUnlock`, `RepeatHandler` | the deadbolt, over multicast |
| `intercom_buzzer` access manager | users, credentials, schedules in RAM and settings | get, set, validate PIN, load, factory reset | Matter door-lock server |
| `intercom_buzzer` battery | last report, work items | sample, publish, note load | relay |
| `flpr_sleep_test` | registers | sleep and wake of a coprocessor | - |

What is hard in them: callbacks of the Bluetooth RX thread run between any two
lines of the other threads; semaphores are shared by links and not reset;
waits time out while the answer is on its way; links are lost at any moment
and slots are used again; a hub and its peripherals wait on each other with
two different timeouts; three threads share the lock's state without a mutex;
the door link must not use a counter twice across resets.

What makes each correct:

* **hub**: no link in two slots; a link called ready has completed its set-up;
  no scanning or connecting during a turn; every slot is visited again and again.
* **peripheral**: procedures only inside a turn; a turn ends, and by its own
  completion; the tone buffer has one user; the RX thread does not block for ever.
* **turn protocol**: one link ranges at a time, the one whose turn it is; the
  DONE the hub takes is that of the turn it granted; every turn is given back.
* **multi-anchor target**: every new link reaches the worker, one link per
  anchor is kept and it is the new one, a turn and the DONE that ends it are of
  one link, every subscribed link gets turns, and the target advertises when it
  has room.
* **anchor**: it ranges only on a link that is set up and in a turn granted on it,
  computes from a buffer nobody fills, does not wait for a connection it has, asks
  again for a lost subscription, and passes on its connection only while it has one.
* **free-running variant**: each ready link gets a cadence of its own; what the
  starvation watchdog disables is enabled again.
* **ranging-service link** (`cs_ras_multi`): one initiator sounds at a time, a turn is
  ended by its own initiator or its time, each that is set up gets turns for ever; a
  distance comes from one whole procedure of the turn, on both sides; no thread waits
  for what will not come.
* **soak gateways**: what a cycle counts and computes is of its own link; however a
  cycle ends, the scanner scans and the next cycle begins.
* **access manager**: its index lists fit, what was stored whole is read back, and a
  restart leaves the same PINs valid for the same users.
* **battery, distance filter**: a report is within its step of the last reading; the
  printed distance is a median of the latest finite estimates of enough tones.
* **buzz cycle**: the relay is always released, the lock ends up locked, the
  other endpoint is kept out while the relay is on, the attributes tell the truth.
* **door link**: a counter is used for one command only, counters increase, one
  command opens the deadbolt at most once.

## Modules

| Module | Models |
| --- | --- |
| `IptLinks` | what hub and peripherals share: the peripherals, and the faults of a behaviour |
| `ReflCentral` | `src/ipt_swap/refl_central/src/main.c` |
| `InitPeripheral` | `src/ipt_swap/init_peripheral/src/main.c`, one instance per device |
| `TurnToken` | the abstract promise: one token, held by the link that ranges; `IptSwap` and `RasSync` implement it |
| `IptSwap` | `ReflCentral` and `InitPeripheral` over links and a clock; implements `TurnToken` |
| `TurnRotation` | `src/cs_ipt_multi/target_reflector/src/main.c` |
| `AnchorInitiator` | `src/cs_ipt_multi/anchor_initiator/src/main.c`, one anchor |
| `BuzzerLock` | `bolt_lock_manager.cpp`, `app_task.cpp`, the lock commands of `zcl_callbacks.cpp` |
| `DoorLink` | `door_link.cpp` and the deadbolt its head comment describes |
| `FreeCentral` | `src/ipt_swap/free_running/refl_central/src/main.c`, as a second firmware beside `ReflCentral` |
| `FreePeripheral` | `src/ipt_swap/free_running/init_peripheral/src/main.c`, as a second firmware beside `InitPeripheral` |
| `AccessManager` | `src/intercom_buzzer/src/access/`: users, PINs, schedules and their storage |
| `Battery` | `battery.cpp`: one reading and one report, as operators |
| `RasSync` | `cs_ras_multi`: `lib/ble/ble.c`, `lib/sync/sync.c`, the reflector and the outside of its initiators; implements `TurnToken` while every answer is in time |
| `RasCycle` | `cs_ras_multi`: one initiator's threads, `src/initator.c`, `lib/cs/cs.c` |
| `RangeEstimate` | the steps-to-distance code of all five initiators, as operators |
| `SoakGateway` | `src/scan_cs_soak/gateway`, `gateway_modeswitch` and `target` |
| `MC...` | instances for TLC: symmetry sets, the parts of `intercom_buzzer` side by side, the bounded checks of operators (`ASSUME`) and, for `IptSwap`, an initial state after the set-up phase |
| `HubPeripheralProofs` | theorems of `ReflCentral`, `FreeCentral`, `InitPeripheral` and `FreePeripheral` |
| `IntercomProofs` | theorems of `BuzzerLock`, `DoorLink`, `AccessManager` and `Battery` |
| `RasCycleProofs` | theorems of `RasCycle` and `RangeEstimate` |
| other `...Proofs` | the theorems of the module named before it |

### Faults

Some of the properties below fail as soon as one thing goes wrong that the code
does not defend against, and others must hold through it. A behaviour of
`ReflCentral`, `InitPeripheral` and `AnchorInitiator` therefore begins with a choice of `faults`, a
subset of the constant `Faults`, that never changes: one run covers all the
combinations, a property says in its own text which faults defeat it, and
`LateEvents`, `CutShort`, `Preempted` and `HciErrors` are the names of having
them. `RasSync`, `RasCycle` and `SoakGateway`, whose faults are many kinds of single
events, have a budget of `Faults` of them instead, each of any kind and at any time,
and a history variable `harm` with the kinds that have happened; a property says
there which kinds defeat it. `BurstCompleteIsOwn == ~Preempted => ...` holds in every behaviour without
that preemption, whatever else fails in it. `BurstCompleteIsOwn` would be false
without the guard, and so would the others that have one; the hazards say where.
Liveness properties that are guarded the other way (`EverySlotVisited` by
`LateEvents`, `TurnEnds` by `CutShort`) are checked in the behaviours with the
fault, which have every step the others have, so that TLC explores them once.

### ReflCentral

`conns`, `link_ready`, `last_connected`, `conn_count`, `established`, `slot` and
the semaphores are the program's. A connection object is the peripheral at its
other end, since the hub has at most one connection to each. `hub` is where the
main thread is; an action is what the thread does from one wait to the next, so
that callbacks run between its waits (`LookUpLast` after a taken `sem_connected`
is one step: it reads a pointer the next callback may change, and changes
nothing a callback reads). The four stages of `setup_link` are one loop
over `stage`. `done` is the controller's truth about the stages and is read by
no action. `radio` follows the scan module: scanning, a match, a connection
being created. The fault `LateEvents` lets answers and connections come after the wait
for them has timed out, and a link be lost during the 100 ms sleep.

### InitPeripheral

`turn` is where the turn thread is; `late` is the point between the end of the
1500 ms wait and the line after it. `cs` says whether procedures are on, and
whether the next subevent begins one: the test of `procedure_counter` against
the last is a test of `fresh`. `rx` holds the subevent RX is blocked with.
The fault `CutShort` lets a procedure end between its subevents, `Preempted` lets
RX run at `late` and a GO arrive in a turn, `HciErrors` lets a disable and the
settings be refused. `Burst` stands for `CS_TURN_BURST` (12): only the last procedure of
a burst is told apart from the others, so 2 shows both.

### IptSwap

A GO or DONE is its age. The link layer retransmits until the link is lost, so
messages are not lost on a link that lives; `GoBound` and `DoneBound` are the
greatest ages, thread latencies included. `Tick` advances all clocks when no
thread has work to do. The real times are 2000 and 1500 ms; the runs use 4 and
1, with messages of age 1, which satisfies
`GoBound + BurstTimeout + DoneBound < HubTimeout` as tightly as the order
needs: one unit more in a message and the sum reaches the hub's timeout.

### TurnRotation

A connection object is its slot, the index that `bt_conn_index` gives and the
program uses in `anchors`. The stack has `MaxConn` objects; advertising takes a
free one, the connection it brings uses that, and it is free again when the
link has ended and the table, the queue, the worker and the turn have dropped
their references (`Referenced`): the reference counts are these five facts, which
the program's `bt_conn_ref` and `bt_conn_unref` calls set and clear. Subscriptions
belong to the address, as `bt_gatt_is_subscribed` finds them, so `ccc` is shared
by an anchor's old and new link and lost when either ends. `subscribed` is
written by the program and read nowhere, and is left out.

The callbacks are steps of their own (`ConnectedCb`, `ConnectFailed`,
`DisconnectedCb`, `WriteDone`). The worker is `wait`, `drain`, `settings` (between
the drop of duplicates and the unref after the CS settings) and `adv` (between the
empty queue and the advertising start); the round-robin thread is `scan`,
`notify`, `await` and `end`. The grant is one step with the drain of
`sem_turn_done`: a DONE between lines 262 and 263 is drained like one before them.
Anchors may restart without a word (`stale`), answer GO late, twice or never, and
subscribe and unsubscribe. `quick`, chosen once, says whether an anchor may be
back before the worker has dealt with its link before: if it is, both its links
are in the queue and the worker drops the new one for the old and then the old
for the new, so `OnlyStaleDropped` is guarded by `~quick`. `settled`, `own_done` and `adv_failed`
are history.

### AnchorInitiator

`main` is where the main thread is: at the head of its loop, in a wait, or (`Call`)
between a test of `link_up` and the call it is for. The callbacks of the RX thread
are steps of their own. `CONFIG_BT_MAX_CONN` is 1, so that there is one connection
object, and `connection` is whether the pointer to it is set. The three semaphores
of the set-up are `stages_given` and its requests one loop over `stage`; the other six
are `given`, a set because their limit is 1. `sem_distance_estimate_updated` is
taken without waiting and `sem_procedure_disabled` by nobody: they decide nothing and are
left out. `turn_value_handle` is whether it is not 0.

`radio` is the scan module, `link` the link with a disconnection under way as
`closing`, `asked` what the controllers have yet to answer, `ccc` the subscription as
the target has it (`TurnRotation` shows how a stale link's end takes it: here it
may be lost at any time), `dm` a discovery under way, `cs` the procedure, which the
controller takes only when the set-up is done and none is on. A call with
the connection may be refused at any time. `done`, `turn_own` and `grant_own` are
history.

Four faults. `LateConnect`: a connection or the end of a scan comes when main no longer
waits for it. `SlowDisconnect`: a disconnection takes longer than the 3 s of
`recover`, so that the semaphores are reset before the link has ended.
`LateResults`: a procedure outlives the 950 ms wait. `Preempted`: RX runs at `Call`.
`RangesWhenSetUp`, `RangesOnGrant` and `NotStranded` hold without the first, the
first two without the second, `RangesOnGrant` without the third and `IqExclusive`
without the last; `KeepsAsking` holds with all of them.

### BuzzerLock

`armed` is the order in which the two 2 s delays will expire. A handler is split
where other threads may read or write what it uses: the assignment of
`mStateData`, the callback's switch of the relay, its post to the Matter
thread. The callback gets `mStateData` by reference, so the post copies what is
there then. `preempted` is chosen once for a behaviour: when false a handler finishes before the next starts and
before a timer expires; when true every interleaving is allowed, timers
expire at any step, and only the system work queue (a cooperative thread) is
not interrupted. Commands come with a valid PIN: one without changes nothing.

### DoorLink

A packet is its counter and the counter its tag was computed over. `saved` and
`counter_min` survive a reset, everything else of the device does not.
`SendUnlock` is split into saving, writing the counter into the packet, signing,
and sending, since the work queue may run `RepeatHandler` between them. Packets
stay in the air until lost, so they are delayed, reordered and duplicated at
will. `used`, `opened` and `load_failed` (has a boot failed to read the
counter?) are history. The deadbolt is not in the
repository.

### FreeCentral, FreePeripheral

The two firmwares of `free_running` share most of their code with those of
`ipt_swap`, line by line; so each module extends the other firmware's, uses its
callbacks and its set-up as they are, and `hub_free` and `free`, chosen at the start, say
which firmware runs. One run thus covers both, and shows that what the turn
firmwares promise is not disturbed by the modules' being shared.

The hub goes from filling the table (`FillScan`, `FillTimeout`) through the writes of the
cadences, slot by slot (`Assign`), to the supervisor (`Supervise`). `cadence[d]` is what was
written to `d` on its link. A peripheral has two threads more: `cadence_pc` and
`watchdog` are where they are; `reports` is what the controller has reported of
enables and disables and RX has not read, so that the watchdog's wait and the
cadence thread's enable can cross. `config` is the controller's knowledge of the
link; its refusals are the fault `HciErrors`.

### RasSync

A connection is its host object. The objects are used again, and the
orchestration thread keeps its pointer to one (`next_conn`) without a
reference, so a link lost in its own turn may come back under the pointer as
somebody else's. `thread` is where the orchestration thread is between two
calls that RX may interrupt; an indication is in `pending` until confirmed, and
a confirmation may come after its wait. Each initiator has its `boot`, its
acquisition thread (`acq`, `attempt`) and the queue of its completion writes and
their answers, which are in order, with `write_done` the semaphore that a
write given up leaves behind. `bad` are the initiators whose ranging never ends.
`adrift` is a ranging that goes on after its link is gone, which ends in an
oops of `ble_write` (`Reboot`).

### RasCycle

`main` counts the waits of the set-up in order and `acq` is where the acquisition
thread is. `sem` are the semaphores that are given, with limits of 1. A
procedure is its counter; `local` the subevents whose steps are in the buffer, as
pairs of counter and part, so that leftovers of another procedure would be
seen; `unusable` those that were aborted. `ready` are the procedures the peer is to
announce and `fetching` the one whose data is under way. `Subevents` of a procedure are
2: one that fits and one that does not; `MaxProc` of 3 gives a procedure before
and after the one in question.

### RangeEstimate

The five initiators have copies of the same code: parse the steps and keep tones
of high quality until a malformed step, refuse to estimate from too few, store
the estimate in a ring and print the median of it. The estimate itself, an
inverse Fourier transform in floating point, is an input. Distances are small
naturals with `NaN` apart; twice the median is computed, as the mean of two
naturals need not be one. The reference definitions are written otherwise: the
ring against the last elements of the sequence, the median by counting, with no
sorting. `MCRasCycle` has TLC evaluate them over all sequences of bounded length.

### SoakGateway

Both builds of the gateway (`mode_switch`) and both roles, chosen at the start;
`main` is the gateway's main thread, with the four requests of `run_cs_cycle` as
`ask1..4` and `wait1..4`. `arg` says whether the `conn` it was called with is
still the link that is there. Links have no number: `iq` tells tones of this link from a
former one's, `completed` is history of this link. The target's three threads are
`target` and `enabler`.

### AccessManager

Every kind of entry is a table: the array in RAM, the list of indexes that were
ever set, and the stored copy of both. A setter is one step (all calls are on
the Matter thread) that changes RAM, adds the index, stores the entry, stores the list and
may fail at each store (`Outcomes`); losing power between the two stores is the
second one's failure followed by `Restart`. `Loaded` is what `Init` reads: the buffer
of a load that finds nothing keeps what the load before left in it, as the code's
does (`LastFound`, `Buffer`), and a user's list is copied over the entries of a longer one
(`CopyOver`), whose tail remains. `kept` is history: the slots whose last change was
stored whole. The integers' widths play no part at these sizes.

### Battery

Operators for one reading and one publication. `CurveIsSound` is checked for each
millivolt from 3200 to 4300, `ReportsAreClose` for all sequences of up to four of eight pin
voltages that lie near the thresholds.

## Runs

| Run | Shows | Instance |
| --- | --- | --- |
| `Hub` | slot table, readiness, radio silence in a turn, every slot visited; cadences assigned | 2 initiators, 2 slots, 1 stage; both firmwares; late events, refused requests |
| `Per` | procedures only in turns, own completion, tone buffer, RX resumes, turns end; the watchdog enables again | bursts of 2, both firmwares, every combination of three faults |
| `Swap` | one link ranges, the turn token is implemented | 2 peripherals, times 4, 1, 1, 1, procedures cut short or whole |
| `Rotation` | new links kept, no duplicates, DONE of its turn, everybody served, advertising unless its start failed | 2 anchors, 2 connection objects |
| `Anchor` | ranging in granted turns, tone buffer, lost subscriptions renewed | 2 stages, 2 attempts, 2 waits, every combination of four faults |
| `Ras` | scanning with room, one initiator sounds, turns ended by their own, the turn token is implemented, everybody served | 2 initiators, 2 objects, 1 fault of any kind |
| `RasCycle` | distances of whole procedures, no thread hangs; the bounded checks of `RangeEstimate` | 3 procedures of 2 subevents, 2 faults |
| `Soak` | counts and tones are of this link, scanning and cycles for ever | both builds and roles, 2 faults |
| `Buzzer` | relay released and held, attributes true, locked in the end; counters increase, one opening per command; index lists fit, stored entries durable, PINs survive a restart; the bounded checks of `Battery` | 2 endpoints, 3 commands; 3 unlocks, minimum up to 4; 2 users, 2 PINs, a table of each kind, 3 sets, 1 failed store |
| `HubSelfHeals` | finding: a failed set-up is never repeated | 2, 2, 1 |
| `AnchorNull` | finding: DONE is written to a connection that is NULL | 1 stage, no fault |
| `BuzzLost` | finding: an accepted unlock is cancelled by the relay of the one before | 2 endpoints, 4 commands |

Bounds. Two slots with two initiators let a slot be empty, in set-up or ready
beside another, and a slot be taken again by the other initiator; one stage
stands for four because the stages differ in nothing but their number, for
which `HubTypeCorrect` is proved. Peripherals share nothing, so one is enough for
`Per`; two are the least that can range at once. The swap run begins after
the set-up phase (`AllReady`) and sets links up again after losing them; the constraint
`OneLinkDown` keeps the loss of both links at once out of it, which has
936 000 states with it; the theorems of `IptSwapProofs` have no such bound.
Two anchors with two connection objects fill the table, the queue and the pool,
give an anchor an old and a new link at once, and let the rotation skip and
wrap; three anchors add only a waiting one, which the pool of two already has
(an anchor that cannot connect). For an anchor, two stages have a first
and a last, two attempts and two waits one that is followed by another and one
that is not; `Anchor` has 1 100 000 states. Two initiators of `cs_ras_multi` fill the
reflector; one fault is a lost link, a late answer or a refused connection, each
at any moment, beside any set of initiators that never end (458 000 states; a
second fault is beyond five minutes). In `RasCycle` and `Soak` two faults allow one to leave
something over and the other to find it. Three commands
for the lock give a cycle with a lock or an unlock in it and a command
for the other endpoint; `BuzzLost` needs four. Three commands for the door link with
resets give one before, one across and one after each fault. Three sets reach a PIN, its
user and a change of either; the setters of different tables share no state but the
bound. The parts of `Buzzer` share nothing, so a behaviour takes steps of one part only
(526 000 states). `CHECK_DEADLOCK FALSE` is said
where the system may really stop: a peripheral whose RX thread is blocked for
ever, a lock nobody commands, a door link or setters whose bound is used up, an
initiator that is stuck in its set-up or has had all its procedures.

Fairness. Weak fairness of every thread of the code that is modelled (the hub's main
thread, the turn, cadence, watchdog and main threads of a peripheral, the target's
worker and round-robin thread, the anchor's main thread, the orchestration
and acquisition threads, the gateway's and target's threads, the lock's threads and timers):
Zephyr runs a ready thread and a timeout expires. No connection, procedure or command is
assumed to come in `ipt_swap`, `cs_ipt_multi` and `intercom_buzzer`. `RasSync`, `RasCycle` and
`SoakGateway` also assume that what is under way arrives or its link ends (a
supervision timeout), that a target which advertises is found, and that the RX thread reads
what was reported. `IptSwap` states safety only and needs none.

## Proofs

Every theorem holds for all values of the constants, under the assumptions the
modules name and those the theorem states.

* `HubPeripheralProofs`, `ReflCentral`: type correctness, with the facts that the set-up phase
  has a slot left (`EstablishedBound`) and that the thread has a link in hand
  where it uses one (`LinkInHand`); and the three safety properties.
  `RadioInWaits` says that a connection is under way, and `sem_connected` given, only in a
  wait for one; so a link that is lost in `setup_link` is not back before the
  main thread has left it. `OneAnswer` says that one request is out at a time, or its
  semaphore is given, and `Behind` that the stages before the current one are done if the link
  is still in its slot: neither is implied by `ReadyIsSetUp`, which needs both.
* `HubPeripheralProofs`, `FreeCentral`: the same three safety properties of the hub of either
  firmware. The steps the firmwares share are steps of `ReflCentral`, whose lemmas apply
  (`SharedHubStep`). `mark_link_ready` tests nothing, and what takes the place of the
  subscription is `MarkedInHand`: a request that is out, or its last answer, is of the link in
  the slot that will be marked. `CadencesDistinct` follows from `CadenceIsOfSlot`, whatever
  events are late and writes fail.
* `HubPeripheralProofs`, `InitPeripheral`: type correctness; the tone buffer's exclusion, by an
  invariant that says who holds `sem_distance_estimate_updated` (RX in a
  procedure, the parsed results, or main); procedures only in a turn, and a
  burst's own completion, in the behaviours their guards name. The same for
  `FreePeripheral`, whose other firmware keeps the tone buffer's part of the
  invariant (`FreeInv`) since its threads enable and disable procedures but never
  put one in progress, and has nothing of a turn.
* `IptSwapProofs`: `TurnInv`, that only the holder of the turn has anything of
  a turn, in one place (the GO, the turn thread, or the DONE) and no later by the
  hub's clock than the times of its parts allow. With `PromptDelivery` a turn
  cannot be anywhere when the hub's clock reaches its timeout, which gives
  `Exclusive`, `OwnDone` and, if `Faults` has no refused disable, the refinement of
  `TurnToken` step by step. `TurnInv`
  is needed because `Exclusive` says nothing of a GO on its way, which would
  start a second link.
* `TurnRotationProofs`: type correctness; new connections kept, since an
  advertisement brings one connection and the worker starts the next from an empty
  queue (`QueueBound`), and with one connection object the queue is empty when
  advertising holds it (`AdvIsFree`); the DONE of a turn; and that its object is
  not given away, since advertising never holds the object of a turn;
  `NoDuplicates`, since of two links of an anchor the worker has yet to get one
  (`DropInv`), whichever it gets drops the other, and it waits only behind an
  empty queue; and `AdvertisesUnlessFailed`, since all that stops advertising or
  makes room wakes the worker up.
* `AnchorInitiatorProofs`: type correctness, which needs `BoundInv` (a request is for
  one of the stages, an attempt one of those allowed); and the four safety
  properties. `ScanInv` says that a connection comes only while main waits for one,
  `ConnectInv` that the loop begins again after the link has ended and what a new
  link then finds reset, `GivenInv` that what is given on a link was given by it, so
  that `Settled` can count the stages done from where main is. `ResultInv` keeps an
  earlier procedure's result from the next, and `GrantInv` procedures in their turn.
* `IntercomProofs`, `BuzzerLock`: type correctness and the pending release of the relay, by
  cases on the order of the two timers. Without preemption, `OneAtATime` says that
  a command, main's task and the release of the relay exclude each other and
  `RelayFirst` that the relay's delay is always the first timer to expire, which
  gives `RelayHolds`; `PostsAgree` says what the posts under way will make of each
  attribute (`WillBe`), which gives `AttributesAgree`.
* `IntercomProofs`, `DoorLink`: type correctness; counters and openings until a boot fails to read the
  settings, by an invariant that the counter in RAM and what survives a reset
  are at or above all used counters, that a tag is always one that was
  signed, and that an opened command's counter is behind the deadbolt's.
* `IntercomProofs`, `AccessManager`: type correctness; lists of distinct indexes, so that one
  that lacks an index is shorter than its table and `AddIndex` never refuses
  (`ListHasRoom`, by counting); that the stored list is part of the one in RAM
  and an entry not listed is as new; and that a kept entry is listed and stored
  as it is, or cleared in both (`KeptStored`). What a restart reads follows,
  PINs behind ones that cannot be loaded included (`LoadedIsStored`), and
  `RestartKeepsPins`, since such a restart changes no entry.
* `IntercomProofs`, `Battery`: the curve segment by segment, by monotonicity of
  the integer division (`BatteryCurve`, for every voltage); and that reports stay close
  to the readings, over a specification of readings and reports that the proof
  module adds (`ReportSpec`): the step's invariant holds for the published value
  and the last reading together.
* `RasSyncProofs`: `Links` (an object has one slot, an initiator one object, the
  slots are counted) and `Devices` hold whatever happens. `Pointer` says what
  `next_conn` and `active_conn` point at and whose a completion given since the reset
  is, and fails once a link is lost in its own turn; it gives `EndsByOwn`, late answers
  included. `OneBusy`, while every answer is in time besides, says that nobody but
  the initiator whose turn it is has an indication, a start, a ranging or a write
  under way, that it has one of them at a time and that the turn has no
  completion yet: `OneSounds` alone says nothing of a write or an
  indication on its way, which would start or end the next turn. `SoundersHold` and a step
  for each action then give the refinement of `TurnToken` (`HandsOneTurn`). That the search
  for the next link finds one of those in use, for any number of slots, is `AfterReaches`.
* `RasCycleProofs`, `RasCycle`: type correctness; and, in the behaviours without harm,
  `EstimatesFromOneProcedure` from what the controller and the buffer have of the running
  procedure (`Procedure`), what the turn has seen of it at each of its waits (`Turn`), and
  that the peer's data is fetched in one state only (`Fetch`). `SetUp` is needed since only
  the set-up's waits take the semaphores that `Resets` does not name.
* `RasCycleProofs`, `RangeEstimate`: a window of any size is a ring whose entries are the
  latest estimates (`WindowIsOfLatest`, by an invariant over the estimates as they
  come, in place of induction over their sequence); what is parsed is the same set of tones with
  and without the steps after a malformed one (`MalformedEnds`); and the clamps of the RSSI estimate keep its order
  (`RssiIsMonotone`).
* `SoakGatewayProofs`: `OneCycle` says that a link is in one place of the gateway and
  that an answer's semaphore is given only to the wait for it. That is what keeps
  semaphores that are never reset from serving the next link, and it holds with every
  fault. `TakesItsOwn`, while no wait is given up early, says that main is
  where it takes what a procedure gives; so nothing is left between two cycles
  (`NothingIsLeftOver`), and a cycle counts its own. `TonesLeave` says that the tones of a
  procedure are computed in its cycle, if no link is lost and nothing aborted either.

The inductive invariants `RasIInv`, `CycIInv`, `SoakIInv` and that of both hubs (`HubsIInv`)
were model-checked in the runs' instances (458 000, 112 000, 53 000 and 326 000 states)
before they were proved.
Theorems without a property of a run state a type or a property that is no longer repeated
in the runs, or are about operators, whose bounded inputs the `ASSUME`s of the MC modules
give to TLC.

Only model-checked: the liveness properties (`EverySlotVisited`,
`ReadyIsAssigned`, `TurnEnds`, `RxResumes`, `KeptOn`, `EveryLinkServed`,
`KeepsAsking`, `GoesBackToLocked`, `EveryReadyServed`, `NeverHangs`,
`NeverStalls`), which need fairness and ENABLED; and what sorting and folding a sequence of
values returns, which needs induction over data: the median of a window, the outliers
it rejects and the gate's mean, for windows of a few values (the `ASSUME`s of `MCRasCycle`).
Every invariant and every action property that a passing run checks has a theorem.

## Findings

The runs with expected violations show where the code departs from what its own
comments or documentation say; `PROJECT.json` quotes the lines. `HubSelfHeals`: a
set-up that fails is never repeated. `AnchorNull`: an anchor whose link
drops while it ranges writes DONE to a NULL connection. `BuzzLost`: an accepted
unlock does not buzz.

`PromptDelivery` is an assumption about the radio that the code does not enforce:
with a GO that takes longer than the 500 ms between the two timeouts, two links
range at a time (`Swap` with `GoBound` 4 shows it), which the comment at the hub's
wait does not allow for. Likewise a second unlock within the door link's 1 s
repeat delay takes over the first one's repeat, which is then sent once.

More departures have no run of their own. They are why properties have guards or
runs leave a fault out; dropping the guard makes TLC show each.

* `ipt_swap`: an answer late for one link counts for the set-up of the next
  (`ReadyIsSetUp`, with late events); a procedure cut short keeps the tone buffer, and
  RX blocks for ever at the next (`RxResumes`); a connection attempt that outlives the
  1500 ms rescan goes on in the next turn (`NoRadioInTurn`); a completion between
  the timeout of a burst and the clearing of `turn_active` ends the next turn
  (`BurstCompleteIsOwn`).
* `ipt_swap/free_running`: once RX is blocked by a procedure cut short the watchdog disables
  and enables in vain, though the comment at
  `src/ipt_swap/free_running/init_peripheral/src/main.c:604` says that it restarts a link that
  is starved; the supervisor's "will retry" (`refl_central/src/main.c:486`) never
  comes for a link that stays in its slot.
* `cs_ipt_multi`: an anchor's connection that comes after its wait keeps the
  anchor waiting for one, and a disconnection slower than 3 s lets the new link use
  what the old one left (`NotStranded`, `RangesWhenSetUp`). With `CONFIG_BT_MAX_CONN` anchors
  connected, the end of the link whose turn it is leaves the target without an object to advertise
  with until the turn is over, and nothing repeats the failed start
  (`AdvertisesUnlessFailed` excepts it; the comment at
  `src/cs_ipt_multi/target_reflector/src/main.c:170` does not).
* `cs_ras_multi`: an initiator that reconnects and is never subscribed makes the
  orchestration thread fail to signal it over and over, without moving to the
  others, which the comment at `src/cs_ras_multi/lib/ble/ble.c:484-488` rules out
  (`EveryReadyServed` is stated from when on links are set up). An answer that is late may let an
  old procedure complete between `cs_reset_state` and `cs_start_ranging`, and the rest of it
  be paired with the peer's whole data (`WholeProcedure`, unless `harm`).
* `scan_cs_soak`: tones of a procedure that was not completed are computed with those of
  the next link, since the buffer is cleared only after a computation (`TonesAreOwn`;
  the comment at `src/scan_cs_soak/common/cs_ifft.c:190-196` wants each procedure to
  accumulate from zero), and as reflector the gateway removes its configuration without
  waiting for the end of the procedure.
* `intercom_buzzer`: a counter that cannot be read at boot is used again
  (`CountersIncrease`). In the access manager a user whose list of credentials was made
  shorter owns the ones in the tail until a restart
  (`src/intercom_buzzer/src/access/access_manager_credentials.cpp:136`, hence `NoTail`), and
  clearing a schedule that is available already writes it and makes it occupied
  (`access_manager_schedules.cpp:51`, `:133`, `:208`), whatever status was asked for. A
  load noted more often than every 12 s puts off the battery's reading each time.

## Not modelled

Signal processing (IFFT, phase slope, round-trip times in floating point), logging, LEDs, the
optional UART service, generated Matter code, the posts' allocation failures, reference counts
of connection objects outside `TurnRotation`, the value of the procedure counter in
`ipt_swap` (only whether a subevent is the first of its procedure), the schedule of the
battery's work items, the beacon (which only advertises), and
`flpr_sleep_test` (register accesses with no protocol).

## Further work

1. `cs_ipt_multi` composed: anchors and `TurnRotation`, shown to implement
   `TurnToken`; the turn between GO and DONE, 950 ms at the anchor and 1150 ms at the
   target, over messages with ages as in `IptSwap`.
2. `RasSync` with `RasCycle` in the place of `acq`, and with times, so that the premise
   of `HandsOneTurn` (every answer in time) becomes a bound on the times as in `IptSwap`.
