----------------------------- MODULE TurnRotation -----------------------------
(***************************************************************************)
(* The target of cs_ipt_multi (target_reflector/src/main.c): connection    *)
(* callbacks in the Bluetooth RX thread, a worker that sets new links up   *)
(* and restarts advertising, and the round-robin thread that grants turns. *)
(*                                                                         *)
(* A connection object is its bt_conn_index, a slot.  The stack has        *)
(* MaxConn of them and takes one for advertising, which the connection     *)
(* then uses; an object is free again when nobody refers to it.            *)
(* Subscriptions are kept by address: two links of one anchor share one.   *)
(***************************************************************************)
EXTENDS Integers, Sequences

CONSTANTS Anchor,       \* the addresses of the anchors
          MaxConn,      \* CONFIG_BT_MAX_CONN
          NoSlot        \* the NULL connection pointer

ASSUME AnchorsExist == Anchor # {}
ASSUME MaxConnIsPositive == MaxConn \in Nat \ {0}
ASSUME NoSlotIsNone == NoSlot \notin 0 .. MaxConn - 1

Slot == 0 .. MaxConn - 1

VARIABLES
  link,          \* each object's link; stale: its anchor has restarted since;
                 \* ending: disconnected by this device
  peer,          \* the address at its other end
  ccc,           \* the anchors subscribed to the turn characteristic
  adv,           \* the object that advertising holds
  quick,         \* may an anchor come back, in this behaviour, before the
                 \* worker has dealt with its link before?
  anchors,       \* the slots in anchors[]
  conn_count, new_conn_q, sem_refl_work,
  worker, worker_conn,    \* where the worker is, and its c
  adv_failed,    \* advertising_start has failed since the worker woke up
  rr, idx, c,    \* where the round-robin thread is, and its locals
  active_turn_conn, sem_turn_done,
  owes,          \* GOs an anchor has not answered
  settled,       \* history: links with the reflector's CS settings
  own_done       \* history: a DONE has come in this turn, from its link

stackVars == <<link, peer, ccc, adv, quick>>
tableVars == <<anchors, conn_count, new_conn_q, sem_refl_work>>
workerVars == <<worker, worker_conn, adv_failed, settled>>
rrVars == <<rr, idx, c, active_turn_conn>>
turnVars == <<sem_turn_done, own_done, owes>>
rotVars == <<stackVars, tableVars, workerVars, rrVars, turnVars>>

RotTypeOK ==
  /\ link \in [Slot -> {"none", "live", "stale", "ending"}]
  /\ peer \in [Slot -> Anchor]
  /\ ccc \subseteq Anchor
  /\ adv \in Slot \union {NoSlot}
  /\ quick \in BOOLEAN
  /\ anchors \subseteq Slot
  /\ conn_count \in Int
  /\ new_conn_q \in Seq(Slot)
  /\ sem_refl_work \in {0, 1}
  /\ worker \in {"wait", "drain", "settings", "adv"}
  /\ worker_conn \in Slot \union {NoSlot}
  /\ adv_failed \in BOOLEAN
  /\ settled \subseteq Slot
  /\ rr \in {"scan", "notify", "await", "end"}
  /\ idx \in Slot
  /\ c \in Slot \union {NoSlot}
  /\ active_turn_conn \in Slot \union {NoSlot}
  /\ sem_turn_done \in {0, 1}
  /\ own_done \in BOOLEAN
  /\ owes \in [Slot -> 0 .. 2]

\* Lines 38-47, 424: main has kicked the worker.
RotInit ==
  /\ link = [s \in Slot |-> "none"]
  /\ peer \in [Slot -> Anchor] /\ \A r, s \in Slot : peer[r] = peer[s]
  /\ ccc = {}
  /\ adv = NoSlot
  /\ quick \in BOOLEAN
  /\ anchors = {}
  /\ conn_count = 0
  /\ new_conn_q = <<>>
  /\ sem_refl_work = 1
  /\ worker = "wait"
  /\ worker_conn = NoSlot
  /\ adv_failed = FALSE
  /\ settled = {}
  /\ rr = "scan"
  /\ idx = 0
  /\ c = NoSlot
  /\ active_turn_conn = NoSlot
  /\ sem_turn_done = 0
  /\ own_done = FALSE
  /\ owes = [s \in Slot |-> 0]

Queued(s) == \E i \in 1 .. Len(new_conn_q) : new_conn_q[i] = s

\* Links that the worker has yet to deal with.
Unsettled(s) == Queued(s) \/ s = worker_conn

\* Who refers to an object: the stack, the table, the queue, the two threads.
ReferencedButByTurn(s) == link[s] # "none" \/ s \in anchors \/ Unsettled(s)
                          \/ s = adv
Referenced(s) == ReferencedButByTurn(s) \/ s = c

Free == {s \in Slot : ~Referenced(s)}

-----------------------------------------------------------------------------
(* The callbacks.                                                           *)

\* k_msgq_put with K_NO_WAIT: a queue that is full drops the connection.
\* LessRoom is a queue one shorter than line 99 has it.
LessRoom == Len(new_conn_q) < MaxConn - 1
Room == Len(new_conn_q) < MaxConn
Enqueue(s) ==
  new_conn_q' = IF Room THEN Append(new_conn_q, s) ELSE new_conn_q

\* An anchor that was never connected, or has restarted, connects.
ConnectedCb(a) ==
  /\ adv # NoSlot
  /\ \A s \in Slot : link[s] = "live" => peer[s] # a
  /\ quick \/ \A s \in Slot : Unsettled(s) => peer[s] # a
  /\ link' = [link EXCEPT ![adv] = "live"]
  /\ peer' = [peer EXCEPT ![adv] = a]
  /\ adv' = NoSlot
  /\ conn_count' = conn_count + 1
  /\ anchors' = anchors \union {adv}
  /\ Enqueue(adv)
  /\ sem_refl_work' = 1
  /\ UNCHANGED <<ccc, quick, workerVars, rrVars, turnVars>>

\* connected_cb with an error, without the call for a new attempt and with it.
ConnectGivenUp ==
  /\ adv # NoSlot
  /\ adv' = NoSlot
  /\ UNCHANGED <<link, peer, ccc, quick, tableVars, workerVars, rrVars,
                 turnVars>>

ConnectFailed ==
  /\ adv # NoSlot
  /\ adv' = NoSlot
  /\ sem_refl_work' = 1
  /\ UNCHANGED <<link, peer, ccc, quick, anchors, conn_count, new_conn_q,
                 workerVars, rrVars, turnVars>>

\* The stack forgets the subscription of the address, then tells the program.
DisconnectedCb(s) ==
  /\ link[s] # "none"
  /\ link' = [link EXCEPT ![s] = "none"]
  /\ ccc' = ccc \ {peer[s]}
  /\ conn_count' = conn_count - 1
  /\ anchors' = anchors \ {s}
  /\ sem_refl_work' = 1
  /\ settled' = settled \ {s}
  /\ owes' = [owes EXCEPT ![s] = 0]
  /\ UNCHANGED <<peer, adv, quick, new_conn_q, worker, worker_conn, adv_failed,
                 rrVars, sem_turn_done, own_done>>

\* turn_write, reading active_turn_conn without a lock.
WriteDone(s) ==
  /\ link[s] = "live" /\ owes[s] > 0
  /\ owes' = [owes EXCEPT ![s] = @ - 1]
  /\ IF s = active_turn_conn
       THEN sem_turn_done' = 1 /\ own_done' = TRUE
       ELSE UNCHANGED <<sem_turn_done, own_done>>
  /\ UNCHANGED <<stackVars, tableVars, workerVars, rrVars>>

\* The anchors: restart, which this device does not hear; (re)subscribe.
AnchorResets(s) ==
  /\ link[s] = "live"
  /\ link' = [link EXCEPT ![s] = "stale"]
  /\ owes' = [owes EXCEPT ![s] = 0]
  /\ UNCHANGED <<peer, ccc, adv, quick, tableVars, workerVars, rrVars,
                 sem_turn_done, own_done>>

AnchorSubscribes(s) ==
  /\ link[s] = "live"
  /\ \/ ccc' = ccc \union {peer[s]}
     \/ ccc' = ccc \ {peer[s]}
  /\ UNCHANGED <<link, peer, adv, quick, tableVars, workerVars, rrVars,
                 turnVars>>

-----------------------------------------------------------------------------
(* The worker.                                                              *)

WorkerTake ==
  /\ worker = "wait" /\ sem_refl_work = 1
  /\ sem_refl_work' = 0
  /\ worker' = "drain"
  /\ adv_failed' = FALSE
  /\ UNCHANGED <<stackVars, anchors, conn_count, new_conn_q, worker_conn,
                 settled, rrVars, turnVars>>

\* Lines 199-207, under the lock: links with the new one's address are dropped.
\* Before it, looking only at the slots after.
LaterSlot(j, n) == j \in anchors /\ j > n /\ peer[j] = peer[n]
Duplicate(j, n) == j \in anchors /\ j # n /\ peer[j] = peer[n]

WorkerGet ==
  /\ worker = "drain" /\ new_conn_q # <<>>
  /\ worker_conn' = Head(new_conn_q)
  /\ new_conn_q' = Tail(new_conn_q)
  /\ link' = [j \in Slot |-> IF Duplicate(j, worker_conn') /\ link[j] # "none"
                               THEN "ending" ELSE link[j]]
  /\ worker' = "settings"
  /\ UNCHANGED <<peer, ccc, adv, quick, anchors, conn_count, sem_refl_work,
                 adv_failed, settled, rrVars, turnVars>>

WorkerSettings ==
  /\ worker = "settings"
  /\ settled' = settled \union ({worker_conn} \intersect anchors)
  /\ worker_conn' = NoSlot
  /\ worker' = "drain"
  /\ UNCHANGED <<stackVars, tableVars, adv_failed, rrVars, turnVars>>

\* advertising_start takes an object, the first that is free, or fails.
AdvertisingStart ==
  IF adv # NoSlot
    THEN UNCHANGED <<adv, adv_failed>>
    ELSE /\ adv_failed' = (Free = {})
         /\ IF Free = {} THEN UNCHANGED adv
                         ELSE adv' \in {s \in Free : \A r \in Free : s <= r}

WorkerDrained ==
  /\ worker = "drain" /\ new_conn_q = <<>>
  /\ worker' = "adv"
  /\ UNCHANGED <<stackVars, tableVars, worker_conn, adv_failed, settled, rrVars,
                 turnVars>>

WorkerAdvertise ==
  /\ worker = "adv"
  /\ IF conn_count < MaxConn THEN AdvertisingStart
                             ELSE UNCHANGED <<adv, adv_failed>>
  /\ worker' = "wait"
  /\ UNCHANGED <<link, peer, ccc, quick, tableVars, worker_conn, settled,
                 rrVars, turnVars>>

-----------------------------------------------------------------------------
(* The round-robin thread.                                                  *)

\* A link in the table that the stack finds connected and subscribed.
Grantable(s) ==
  s \in anchors /\ link[s] \in {"live", "stale"} /\ peer[s] \in ccc

After(i) == (idx + i) % MaxConn

\* Line 263, forgotten and as it is.
DrainForgotten == UNCHANGED sem_turn_done
DrainDone == sem_turn_done' = 0

\* Lines 242-263: the next grantable slot, from idx on.
RrGrant ==
  /\ rr = "scan"
  /\ \E i \in 0 .. MaxConn - 1 :
       /\ Grantable(After(i))
       /\ \A k \in 0 .. i - 1 : ~Grantable(After(k))
       /\ c' = After(i)
  /\ idx' = c'
  /\ active_turn_conn' = c'
  /\ DrainDone
  /\ rr' = "notify"
  /\ UNCHANGED <<stackVars, tableVars, workerVars, own_done, owes>>

RrNobody ==
  /\ rr = "scan"
  /\ \A s \in Slot : ~Grantable(s)
  /\ idx' = 0
  /\ UNCHANGED <<stackVars, tableVars, workerVars, rr, c, active_turn_conn,
                 turnVars>>

\* A live anchor takes GO, or keeps it in its semaphore while it is busy.
RrNotify ==
  /\ rr = "notify"
  /\ \/ /\ link[c] \in {"live", "stale"}
        /\ owes' = [owes EXCEPT ![c] = IF link[c] = "live" /\ @ < 2 THEN @ + 1
                                                                    ELSE @]
        /\ rr' = "await"
     \/ UNCHANGED owes /\ rr' = "end"
  /\ UNCHANGED <<stackVars, tableVars, workerVars, idx, c, active_turn_conn,
                 sem_turn_done, own_done>>

\* Line 271: DONE, or 1150 ms without.
RrAwaited ==
  /\ rr = "await"
  /\ sem_turn_done' = 0
  /\ rr' = "end"
  /\ UNCHANGED <<stackVars, tableVars, workerVars, idx, c, active_turn_conn,
                 own_done, owes>>

\* Line 276, forgotten and as it is.
SameIdx == UNCHANGED idx
NextIdx == idx' = (idx + 1) % MaxConn

RrEnd ==
  /\ rr = "end"
  /\ active_turn_conn' = NoSlot
  /\ c' = NoSlot
  /\ NextIdx
  /\ own_done' = FALSE
  /\ rr' = "scan"
  /\ UNCHANGED <<stackVars, tableVars, workerVars, sem_turn_done, owes>>

-----------------------------------------------------------------------------
LinkEvent(s) == DisconnectedCb(s) \/ WriteDone(s) \/ AnchorResets(s)
                \/ AnchorSubscribes(s)
Connection == ConnectFailed \/ \E a \in Anchor : ConnectedCb(a)
Worker == WorkerTake \/ WorkerGet \/ WorkerSettings \/ WorkerDrained
          \/ WorkerAdvertise
RoundRobin == RrGrant \/ RrNobody \/ RrNotify \/ RrAwaited \/ RrEnd

RotNext == Connection \/ Worker \/ RoundRobin \/ \E s \in Slot : LinkEvent(s)

\* The two threads run, and waits end.
RotFairness == WF_rotVars(Worker) /\ WF_rotVars(RoundRobin)

RotSpec == RotInit /\ [][RotNext]_rotVars /\ RotFairness

-----------------------------------------------------------------------------
(* Properties.                                                              *)

\* No connection is lost on its way to the worker, though k_msgq_put drops one
\* when the queue is full (line 141): an advertisement brings one connection,
\* and the worker starts the next only after it has emptied the queue.
NewConnsKept ==
  \A s \in anchors : s \in settled \/ Unsettled(s)

\* When the worker is done no anchor has two links, but for one it has just
\* dropped (lines 189-207).
NoDuplicates ==
  worker = "wait" /\ sem_refl_work = 0 =>
    \A r, s \in Slot : r # s /\ {link[r], link[s]} \subseteq {"live", "stale"}
                         => peer[r] # peer[s]

\* A DONE that is there to end the turn came in this turn, and from the link
\* whose turn it is, though turn_write reads active_turn_conn unlocked (58).
DoneIsOfTurn == rr \in {"notify", "await"} /\ sem_turn_done = 1 => own_done

\* A turn is one link's from its grant to its end: its connection object is
\* not given to another anchor meanwhile (bt_conn_ref, line 248).
TurnIsOfOneLink ==
  [][c # NoSlot /\ c' = c => peer'[c] = peer[c]]_rotVars

\* "Worker resumes advertising so the anchor can reconnect" (line 170): when
\* the worker waits and there is room, the target advertises.
Advertises ==
  worker = "wait" /\ sem_refl_work = 0 /\ conn_count < MaxConn => adv # NoSlot

\* It does, but for an advertising_start that failed, which nobody repeats.
AdvertisesUnlessFailed == adv_failed \/ Advertises

\* A link that stays grantable gets turn after turn.
EveryLinkServed ==
  \A s \in Slot : []<>(c = s) \/ []<>~Grantable(s)
=============================================================================
