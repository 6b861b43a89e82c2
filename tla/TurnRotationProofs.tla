------------------------- MODULE TurnRotationProofs -------------------------
(***************************************************************************)
(* What the target of cs_ipt_multi keeps whatever the number of anchors    *)
(* and of connection objects: new connections reach the worker, a turn is  *)
(* of one link, and the DONE that ends it is of that turn.                 *)
(***************************************************************************)
EXTENDS TurnRotation, TLAPS

\* The object that advertising holds is nobody else's.
AdvIsFree ==
  adv # NoSlot => /\ link[adv] = "none"
                  /\ adv \notin anchors
                  /\ ~Unsettled(adv)
                  /\ adv # c

\* Each advertisement brings one connection at most, and the worker starts the
\* next from an empty queue: what waits in the queue, with what advertising may
\* still bring, is one or, once the worker has been past the start, two.
QueueBound ==
  /\ Len(new_conn_q) <= 2
  /\ adv # NoSlot \/ worker = "adv" => Len(new_conn_q) <= 1
  /\ adv # NoSlot /\ worker = "adv" => Len(new_conn_q) = 0

\* worker_conn is a link only between a get and the settings.
WorkerHasLink == worker_conn # NoSlot <=> worker = "settings"

TableInv == AdvIsFree /\ QueueBound /\ NewConnsKept

RotInv == RotTypeOK /\ TableInv /\ WorkerHasLink /\ DoneIsOfTurn

LEMMA ModSlot == \A n \in Nat : n % MaxConn \in Slot
BY MaxConnIsPositive DEF Slot

LEMMA ZeroSlot == 0 \in Slot
BY MaxConnIsPositive DEF Slot

LEMMA NoSlotOut == NoSlot \notin Slot
BY NoSlotIsNone DEF Slot

\* What is queued after a connection is appended, and after the head is taken.
LEMMA QueuedAppend ==
  ASSUME NEW q \in Seq(Slot), NEW e \in Slot, NEW s \in Slot
  PROVE  (\E i \in 1 .. Len(Append(q, e)) : Append(q, e)[i] = s)
           <=> (\E i \in 1 .. Len(q) : q[i] = s) \/ s = e
<1>1. Len(Append(q, e)) = Len(q) + 1 /\ Append(q, e)[Len(q) + 1] = e
  OBVIOUS
<1>2. \A i \in 1 .. Len(q) : Append(q, e)[i] = q[i]
  OBVIOUS
<1>3. ASSUME NEW i \in 1 .. Len(Append(q, e)), Append(q, e)[i] = s
      PROVE  (\E j \in 1 .. Len(q) : q[j] = s) \/ s = e
  <2>1. CASE i = Len(q) + 1
    BY <1>1, <1>3, <2>1
  <2>2. CASE i # Len(q) + 1
    <3>1. i \in 1 .. Len(q)
      BY <1>1, <1>3, <2>2
    <3> QED BY <1>2, <1>3, <3>1
  <2> QED BY <2>1, <2>2
<1>4. ASSUME s = e PROVE \E i \in 1 .. Len(Append(q, e)) : Append(q, e)[i] = s
  <2>1. Len(q) + 1 \in 1 .. Len(Append(q, e))
    BY <1>1
  <2> QED BY <1>1, <1>4, <2>1
<1>5. ASSUME NEW i \in 1 .. Len(q), q[i] = s
      PROVE  \E j \in 1 .. Len(Append(q, e)) : Append(q, e)[j] = s
  <2>1. i \in 1 .. Len(Append(q, e))
    BY <1>1, <1>5
  <2> QED BY <1>2, <1>5, <2>1
<1> QED BY <1>3, <1>4, <1>5

LEMMA QueuedTail ==
  ASSUME NEW q \in Seq(Slot), q # <<>>, NEW s \in Slot
  PROVE  (\E i \in 1 .. Len(q) : q[i] = s)
           <=> (\E i \in 1 .. Len(Tail(q)) : Tail(q)[i] = s) \/ s = Head(q)
<1>1. Len(q) \in Nat \ {0} /\ Len(Tail(q)) = Len(q) - 1 /\ Head(q) = q[1]
  OBVIOUS
<1>2. \A i \in 1 .. Len(Tail(q)) : Tail(q)[i] = q[i + 1]
  OBVIOUS
<1>3. ASSUME NEW i \in 1 .. Len(q), q[i] = s
      PROVE  (\E j \in 1 .. Len(Tail(q)) : Tail(q)[j] = s) \/ s = Head(q)
  <2>1. CASE i = 1
    BY <1>1, <1>3, <2>1
  <2>2. CASE i # 1
    <3>1. i - 1 \in 1 .. Len(Tail(q)) /\ (i - 1) + 1 = i
      BY <1>1, <1>3, <2>2
    <3>2. Tail(q)[i - 1] = s
      BY <1>2, <1>3, <3>1
    <3> QED BY <3>1, <3>2
  <2> QED BY <2>1, <2>2
<1>4. ASSUME NEW i \in 1 .. Len(Tail(q)), Tail(q)[i] = s
      PROVE  \E j \in 1 .. Len(q) : q[j] = s
  <2>1. i + 1 \in 1 .. Len(q)
    BY <1>1, <1>4
  <2> QED BY <1>2, <1>4, <2>1
<1>5. ASSUME s = Head(q) PROVE \E j \in 1 .. Len(q) : q[j] = s
  <2>1. 1 \in 1 .. Len(q)
    BY <1>1
  <2> QED BY <1>1, <1>5, <2>1
<1> QED BY <1>3, <1>4, <1>5

-----------------------------------------------------------------------------
(* The invariant at first, and types.                                       *)

LEMMA InitInv == RotInit => RotInv
<1> SUFFICES ASSUME RotInit PROVE RotInv
  OBVIOUS
<1>1. RotTypeOK
  BY ZeroSlot DEF RotInit, RotTypeOK
<1>2. AdvIsFree /\ NewConnsKept /\ DoneIsOfTurn /\ WorkerHasLink
  BY DEF RotInit, AdvIsFree, NewConnsKept, DoneIsOfTurn, WorkerHasLink
<1>3. QueueBound
  BY DEF RotInit, QueueBound
<1> QED BY <1>1, <1>2, <1>3 DEF RotInv, TableInv

LEMMA CallbackTypes ==
  ASSUME RotTypeOK,
         Connection \/ \E s \in Slot : LinkEvent(s)
  PROVE  RotTypeOK'
<1> USE DEF RotTypeOK, stackVars, tableVars, workerVars, rrVars, turnVars
<1>1. CASE ConnectFailed
  BY <1>1 DEF ConnectFailed
<1>2. ASSUME NEW a \in Anchor, ConnectedCb(a) PROVE RotTypeOK'
  <2>1. adv \in Slot
    BY <1>2 DEF ConnectedCb
  <2>2. new_conn_q' \in Seq(Slot)
    BY <1>2, <2>1 DEF ConnectedCb, Enqueue
  <2>3. /\ link' \in [Slot -> {"none", "live", "stale", "ending"}]
        /\ peer' \in [Slot -> Anchor]
        /\ adv' \in Slot \union {NoSlot}
        /\ anchors' \subseteq Slot
    BY <1>2, <2>1 DEF ConnectedCb
  <2>4. conn_count' \in Int /\ sem_refl_work' \in {0, 1}
    BY <1>2 DEF ConnectedCb
  <2>5. UNCHANGED <<ccc, quick, workerVars, rrVars, turnVars>>
    BY <1>2 DEF ConnectedCb
  <2>6. /\ ccc' \subseteq Anchor /\ quick' \in BOOLEAN
        /\ worker' \in {"wait", "drain", "settings", "adv"}
        /\ worker_conn' \in Slot \union {NoSlot}
        /\ adv_failed' \in BOOLEAN /\ settled' \subseteq Slot
    BY <2>5
  <2>7. /\ rr' \in {"scan", "notify", "await", "end"} /\ idx' \in Slot
        /\ {c', active_turn_conn'} \subseteq Slot \union {NoSlot}
        /\ sem_turn_done' \in {0, 1} /\ own_done' \in BOOLEAN
        /\ owes' \in [Slot -> 0 .. 2]
    BY <2>5
  <2> QED BY <2>2, <2>3, <2>4, <2>6, <2>7
<1>3. ASSUME NEW s \in Slot, DisconnectedCb(s) PROVE RotTypeOK'
  BY <1>3 DEF DisconnectedCb
<1>4. ASSUME NEW s \in Slot, WriteDone(s) PROVE RotTypeOK'
  <2>1. owes[s] \in 0 .. 2 /\ owes[s] > 0
    BY <1>4 DEF WriteDone
  <2>2. owes[s] - 1 \in 0 .. 2
    BY <2>1
  <2>3. owes' \in [Slot -> 0 .. 2]
    BY <1>4, <2>2 DEF WriteDone
  <2>4. sem_turn_done' \in {0, 1} /\ own_done' \in BOOLEAN
    BY <1>4 DEF WriteDone
  <2>5. UNCHANGED <<stackVars, tableVars, workerVars, rrVars>>
    BY <1>4 DEF WriteDone
  <2> QED BY <2>3, <2>4, <2>5
<1>5. ASSUME NEW s \in Slot, AnchorResets(s) PROVE RotTypeOK'
  BY <1>5 DEF AnchorResets
<1>6. ASSUME NEW s \in Slot, AnchorSubscribes(s) PROVE RotTypeOK'
  BY <1>6 DEF AnchorSubscribes
<1> QED BY <1>1, <1>2, <1>3, <1>4, <1>5, <1>6 DEF Connection, LinkEvent

LEMMA WorkerTypes ==
  ASSUME RotTypeOK, Worker
  PROVE  RotTypeOK'
<1> USE DEF RotTypeOK, stackVars, tableVars, workerVars, rrVars, turnVars
<1>1. CASE WorkerTake
  BY <1>1 DEF WorkerTake
<1>2. CASE WorkerGet
  <2>1. worker_conn' \in Slot /\ new_conn_q' \in Seq(Slot)
    BY <1>2 DEF WorkerGet
  <2>2. link' \in [Slot -> {"none", "live", "stale", "ending"}]
    BY <1>2 DEF WorkerGet
  <2> QED BY <1>2, <2>1, <2>2 DEF WorkerGet
<1>3. CASE WorkerSettings
  BY <1>3 DEF WorkerSettings
<1>4. CASE WorkerDrained
  BY <1>4 DEF WorkerDrained
<1>5. CASE WorkerAdvertise
  <2>1. adv' \in Slot \union {NoSlot} /\ adv_failed' \in BOOLEAN
    BY <1>5 DEF WorkerAdvertise, AdvertisingStart, Free
  <2>2. /\ worker' = "wait"
        /\ UNCHANGED <<link, peer, ccc, quick, tableVars, worker_conn,
                       settled, rrVars, turnVars>>
    BY <1>5 DEF WorkerAdvertise
  <2> QED BY <2>1, <2>2
<1> QED BY <1>1, <1>2, <1>3, <1>4, <1>5 DEF Worker

\* The slot a grant goes to is one, and is connected.
LEMMA GrantedSlot ==
  ASSUME RotTypeOK, RrGrant
  PROVE  c' \in Slot /\ Grantable(c')
<1>1. \A i \in 0 .. MaxConn - 1 : idx + i \in Nat
  BY MaxConnIsPositive DEF RotTypeOK, Slot
<1> QED BY <1>1, ModSlot DEF RrGrant, After

LEMMA RoundRobinTypes ==
  ASSUME RotTypeOK, RoundRobin
  PROVE  RotTypeOK'
<1> USE DEF RotTypeOK, stackVars, tableVars, workerVars, rrVars, turnVars
<1>1. CASE RrGrant
  BY <1>1, GrantedSlot DEF RrGrant, DrainDone
<1>2. CASE RrNobody
  BY <1>2, ZeroSlot DEF RrNobody
<1>3. CASE RrNotify
  <2>1. owes' \in [Slot -> 0 .. 2]
    BY <1>3 DEF RrNotify
  <2> QED BY <1>3, <2>1 DEF RrNotify
<1>4. CASE RrAwaited
  BY <1>4 DEF RrAwaited
<1>5. CASE RrEnd
  <2>1. idx' \in Slot
    <3>1. idx + 1 \in Nat
      BY DEF Slot
    <3> QED BY <1>5, <3>1, ModSlot DEF RrEnd, NextIdx
  <2> QED BY <1>5, <2>1 DEF RrEnd
<1> QED BY <1>1, <1>2, <1>3, <1>4, <1>5 DEF RoundRobin

LEMMA TypeInv ==
  ASSUME RotTypeOK, [RotNext]_rotVars
  PROVE  RotTypeOK'
<1>1. CASE UNCHANGED rotVars
  BY <1>1 DEF RotTypeOK, rotVars, stackVars, tableVars, workerVars, rrVars,
              turnVars
<1>2. CASE Connection \/ \E s \in Slot : LinkEvent(s)
  BY <1>2, CallbackTypes
<1>3. CASE Worker
  BY <1>3, WorkerTypes
<1>4. CASE RoundRobin
  BY <1>4, RoundRobinTypes
<1> QED BY <1>1, <1>2, <1>3, <1>4 DEF RotNext

-----------------------------------------------------------------------------
(* The queue, the table and the object that advertising holds.              *)

\* The stack has no room for a connection that the queue has not.
LEMMA RoomForNew ==
  ASSUME RotTypeOK, AdvIsFree, QueueBound, adv # NoSlot
  PROVE  Len(new_conn_q) < MaxConn
<1>0. new_conn_q \in Seq(Slot)
  BY DEF RotTypeOK
<1> DEFINE n == Len(new_conn_q)
<1>1. n \in Nat
  BY <1>0
<1>2. n <= 1
  BY DEF QueueBound
<1> SUFFICES n < MaxConn
  OBVIOUS
<1>3. CASE MaxConn = 1
  <2>1. \A s \in Slot : s = adv
    BY <1>3 DEF RotTypeOK, Slot
  <2>2. SUFFICES ASSUME n = 1 PROVE FALSE
    <3> HIDE DEF n
    <3> QED BY <1>1, <1>2, <1>3
  <2>3. 1 \in 1 .. Len(new_conn_q) /\ new_conn_q[1] \in Slot
    BY <1>0, <2>2
  <2> QED BY <2>1, <2>3 DEF AdvIsFree, Unsettled, Queued
<1>4. CASE MaxConn # 1
  <2> HIDE DEF n
  <2> QED BY <1>1, <1>2, <1>4, MaxConnIsPositive
<1> QED BY <1>3, <1>4

LEMMA ConnectedTable ==
  ASSUME RotTypeOK, TableInv, NEW a \in Anchor, ConnectedCb(a)
  PROVE  TableInv'
<1>1. /\ adv \in Slot /\ adv' = NoSlot
      /\ anchors' = anchors \union {adv}
      /\ UNCHANGED <<settled, worker, worker_conn>>
  BY DEF ConnectedCb, RotTypeOK, workerVars
<1>2. new_conn_q' = Append(new_conn_q, adv)
  BY RoomForNew DEF ConnectedCb, Enqueue, Room, TableInv
<1>3. \A s \in Slot : Queued(s)' <=> Queued(s) \/ s = adv
  BY <1>1, <1>2, QueuedAppend DEF Queued, RotTypeOK
<1>4. Len(new_conn_q') = Len(new_conn_q) + 1
  BY <1>1, <1>2 DEF RotTypeOK
<1>5. QueueBound'
  BY <1>1, <1>4, NoSlotOut DEF QueueBound, TableInv, RotTypeOK
<1>6. NewConnsKept'
  BY <1>1, <1>3 DEF NewConnsKept, TableInv, Unsettled, RotTypeOK
<1> QED BY <1>1, <1>5, <1>6 DEF TableInv, AdvIsFree

\* Links end, settings are lost with them, and advertising may stop.
Lessens ==
  /\ UNCHANGED <<new_conn_q, worker, worker_conn, c>>
  /\ adv' \in {NoSlot, adv}
  /\ anchors' \subseteq anchors
  /\ settled \intersect anchors' \subseteq settled'
  /\ \A s \in Slot : link[s] = "none" => link'[s] = "none"

LEMMA LessensTable ==
  ASSUME RotTypeOK, TableInv, Lessens
  PROVE  TableInv'
BY DEF RotTypeOK, TableInv, Lessens, AdvIsFree, QueueBound, NewConnsKept,
       Unsettled, Queued

LEMMA LinkEventTable ==
  ASSUME RotTypeOK, TableInv, ConnectFailed \/ \E s \in Slot : LinkEvent(s)
  PROVE  TableInv'
<1> USE DEF Lessens, stackVars, tableVars, workerVars, rrVars, RotTypeOK
<1>1. CASE ConnectFailed
  BY <1>1, LessensTable DEF ConnectFailed
<1>2. ASSUME NEW s \in Slot, DisconnectedCb(s) PROVE TableInv'
  BY <1>2, LessensTable DEF DisconnectedCb
<1>3. ASSUME NEW s \in Slot, WriteDone(s) PROVE TableInv'
  BY <1>3, LessensTable DEF WriteDone
<1>4. ASSUME NEW s \in Slot, AnchorResets(s) PROVE TableInv'
  BY <1>4, LessensTable DEF AnchorResets
<1>5. ASSUME NEW s \in Slot, AnchorSubscribes(s) PROVE TableInv'
  BY <1>5, LessensTable DEF AnchorSubscribes
<1> QED BY <1>1, <1>2, <1>3, <1>4, <1>5 DEF LinkEvent

\* Taking the head of the queue makes it the worker's.
LEMMA GetTable ==
  ASSUME RotTypeOK, TableInv, worker_conn = NoSlot, WorkerGet
  PROVE  TableInv'
<1>1. /\ new_conn_q # <<>> /\ new_conn_q \in Seq(Slot)
      /\ new_conn_q' = Tail(new_conn_q)
      /\ worker_conn' = Head(new_conn_q)
      /\ worker = "drain" /\ worker' = "settings"
      /\ UNCHANGED <<adv, anchors, settled, c>>
  BY DEF WorkerGet, RotTypeOK, rrVars
<1>2. \A s \in Slot : Unsettled(s)' <=> Unsettled(s)
  <2>1. \A s \in Slot : Queued(s) <=> Queued(s)' \/ s = Head(new_conn_q)
    BY <1>1, QueuedTail DEF Queued
  <2> QED BY <1>1, <2>1, NoSlotOut DEF Unsettled
<1>3. Len(new_conn_q) \in Nat /\ Len(new_conn_q') = Len(new_conn_q) - 1
  BY <1>1
<1>4. QueueBound'
  BY <1>1, <1>3 DEF QueueBound, TableInv
<1>5. NewConnsKept'
  BY <1>1, <1>2 DEF NewConnsKept, TableInv, RotTypeOK
<1>6. AdvIsFree'
  <2>1. \A j \in Slot : link[j] = "none" => link'[j] = "none"
    BY DEF WorkerGet
  <2> QED BY <1>1, <1>2, <2>1 DEF AdvIsFree, TableInv, RotTypeOK
<1> QED BY <1>4, <1>5, <1>6 DEF TableInv

LEMMA AdvertiseTable ==
  ASSUME RotTypeOK, TableInv, WorkerAdvertise
  PROVE  TableInv'
<1>1. /\ UNCHANGED <<link, new_conn_q, anchors, settled, worker_conn, c>>
      /\ worker = "adv" /\ worker' = "wait"
      /\ adv' = adv \/ (adv = NoSlot /\ adv' \in Free)
  BY DEF WorkerAdvertise, AdvertisingStart, tableVars, rrVars
<1>2. QueueBound' /\ NewConnsKept'
  BY <1>1 DEF TableInv, QueueBound, NewConnsKept, Unsettled, Queued
<1>3. AdvIsFree'
  BY <1>1, NoSlotOut DEF TableInv, AdvIsFree, Unsettled, Queued, Free,
                         Referenced, ReferencedButByTurn
<1> QED BY <1>2, <1>3 DEF TableInv

LEMMA WorkerTable ==
  ASSUME RotTypeOK, TableInv, WorkerHasLink, Worker
  PROVE  TableInv' /\ WorkerHasLink'
<1> USE DEF stackVars, tableVars, rrVars
<1>1. CASE WorkerTake
  BY <1>1 DEF WorkerTake, WorkerHasLink, TableInv, AdvIsFree, QueueBound,
              NewConnsKept, Unsettled, Queued
<1>2. CASE WorkerGet
  <2>1. worker_conn' # NoSlot
    BY <1>2, NoSlotOut DEF WorkerGet, RotTypeOK
  <2> QED BY <1>2, <2>1, GetTable DEF WorkerGet, WorkerHasLink
<1>3. CASE WorkerSettings
  BY <1>3, NoSlotOut DEF WorkerSettings, WorkerHasLink, TableInv, AdvIsFree,
              QueueBound, NewConnsKept, Unsettled, Queued, RotTypeOK
<1>4. CASE WorkerDrained
  <2>1. Len(new_conn_q') = 0
    BY <1>4 DEF WorkerDrained
  <2> QED BY <1>4, <2>1 DEF WorkerDrained, WorkerHasLink, TableInv, AdvIsFree,
              QueueBound, NewConnsKept, Unsettled, Queued
<1>5. CASE WorkerAdvertise
  BY <1>5, AdvertiseTable DEF WorkerAdvertise, WorkerHasLink
<1> QED BY <1>1, <1>2, <1>3, <1>4, <1>5 DEF Worker

LEMMA RoundRobinTable ==
  ASSUME RotTypeOK, TableInv, RoundRobin
  PROVE  TableInv' /\ UNCHANGED <<worker, worker_conn, peer>>
<1>1. UNCHANGED <<link, peer, adv, anchors, new_conn_q, worker, worker_conn,
                  settled>>
  BY DEF RoundRobin, RrGrant, RrNobody, RrNotify, RrAwaited, RrEnd, stackVars,
         tableVars, workerVars
<1>2. c' \in {c, NoSlot} \/ (c' \in Slot /\ link[c'] # "none")
  <2>1. CASE RrGrant
    BY <2>1, GrantedSlot DEF Grantable
  <2>2. CASE ~RrGrant
    BY <2>2 DEF RoundRobin, RrNobody, RrNotify, RrAwaited, RrEnd
  <2> QED BY <2>1, <2>2
<1> QED BY <1>1, <1>2 DEF TableInv, AdvIsFree, QueueBound, NewConnsKept,
                          Unsettled, Queued

-----------------------------------------------------------------------------
(* The invariant in every state.                                            *)

LEMMA DoneStep ==
  ASSUME DoneIsOfTurn, [RotNext]_rotVars
  PROVE  DoneIsOfTurn'
<1> USE DEF DoneIsOfTurn, stackVars, tableVars, workerVars, rrVars, turnVars
<1>1. CASE Connection
  BY <1>1 DEF Connection, ConnectFailed, ConnectedCb
<1>2. CASE Worker
  BY <1>2 DEF Worker, WorkerTake, WorkerGet, WorkerSettings, WorkerDrained,
              WorkerAdvertise
<1>3. CASE RoundRobin
  BY <1>3 DEF RoundRobin, RrGrant, DrainDone, RrNobody, RrNotify, RrAwaited,
              RrEnd
<1>4. ASSUME NEW s \in Slot, LinkEvent(s) PROVE DoneIsOfTurn'
  BY <1>4 DEF LinkEvent, DisconnectedCb, WriteDone, AnchorResets,
              AnchorSubscribes
<1>5. CASE UNCHANGED rotVars
  BY <1>5 DEF rotVars
<1> QED BY <1>1, <1>2, <1>3, <1>4, <1>5 DEF RotNext

LEMMA NextInv ==
  ASSUME RotInv, [RotNext]_rotVars
  PROVE  RotInv'
<1> USE DEF RotInv
<1>1. RotTypeOK' /\ DoneIsOfTurn'
  BY TypeInv, DoneStep
<1>2. CASE \E a \in Anchor : ConnectedCb(a)
  BY <1>1, <1>2, ConnectedTable DEF ConnectedCb, WorkerHasLink, workerVars
<1>3. CASE ConnectFailed \/ \E s \in Slot : LinkEvent(s)
  <2>1. UNCHANGED <<worker, worker_conn>>
    BY <1>3 DEF ConnectFailed, LinkEvent, DisconnectedCb, WriteDone,
                AnchorResets, AnchorSubscribes, workerVars
  <2> QED BY <1>1, <1>3, <2>1, LinkEventTable DEF WorkerHasLink
<1>4. CASE Worker
  BY <1>1, <1>4, WorkerTable
<1>5. CASE RoundRobin
  BY <1>1, <1>5, RoundRobinTable DEF WorkerHasLink
<1>6. CASE UNCHANGED rotVars
  BY <1>1, <1>6 DEF TableInv, AdvIsFree, QueueBound, NewConnsKept, Unsettled,
                    Queued, WorkerHasLink, rotVars, stackVars, tableVars,
                    workerVars, rrVars
<1> QED BY <1>2, <1>3, <1>4, <1>5, <1>6 DEF RotNext, Connection

LEMMA Invariance == RotSpec => []RotInv
BY InitInv, NextInv, PTL DEF RotSpec

-----------------------------------------------------------------------------
(* Two links of one anchor, and advertising.                                *)

Up(s) == link[s] \in {"live", "stale"}

\* Every link is in the table, where the worker looks for those to drop; of
\* two links of an anchor the worker has yet to see one; and it waits, with
\* nothing to wake it up, only behind an empty queue.
DropInv ==
  /\ \A s \in Slot : link[s] # "none" => s \in anchors
  /\ \A r, s \in Slot : r # s /\ Up(r) /\ Up(s) /\ peer[r] = peer[s] =>
                          Queued(r) \/ Queued(s)
  /\ worker \in {"wait", "adv"} /\ sem_refl_work = 0 => new_conn_q = <<>>

LEMMA DropInit == RotInit => DropInv /\ AdvertisesUnlessFailed
BY DEF RotInit, DropInv, Up, AdvertisesUnlessFailed, Advertises

LEMMA ConnectionDrop ==
  ASSUME RotInv, DropInv, Connection
  PROVE  DropInv'
<1> USE DEF RotInv, TableInv
<1>1. CASE ConnectFailed
  BY <1>1 DEF ConnectFailed, DropInv, Up, Queued, workerVars
<1>2. ASSUME NEW a \in Anchor, ConnectedCb(a) PROVE DropInv'
  <2>1. /\ adv \in Slot /\ link[adv] = "none"
        /\ link' = [link EXCEPT ![adv] = "live"]
        /\ peer' = [peer EXCEPT ![adv] = a]
        /\ anchors' = anchors \union {adv}
        /\ sem_refl_work' = 1
    BY <1>2 DEF ConnectedCb, RotTypeOK, AdvIsFree
  <2>2. new_conn_q' = Append(new_conn_q, adv)
    BY <1>2, RoomForNew DEF ConnectedCb, Enqueue, Room
  <2>3. \A s \in Slot : Queued(s)' <=> Queued(s) \/ s = adv
    BY <2>1, <2>2, QueuedAppend DEF Queued, RotTypeOK
  <2>4. \A s \in Slot : link'[s] # "none" => s \in anchors'
    BY <2>1 DEF DropInv, RotTypeOK
  <2>5. ASSUME NEW r \in Slot, NEW s \in Slot, r # s, Up(r)', Up(s)',
               peer'[r] = peer'[s]
        PROVE  Queued(r)' \/ Queued(s)'
    <3>1. CASE r = adv \/ s = adv
      BY <2>3, <3>1
    <3>2. CASE r # adv /\ s # adv
      BY <2>1, <2>3, <2>5, <3>2 DEF DropInv, Up, RotTypeOK
    <3> QED BY <3>1, <3>2
  <2> QED BY <2>1, <2>4, <2>5 DEF DropInv
<1> QED BY <1>1, <1>2 DEF Connection

LEMMA LinkEventDrop ==
  ASSUME RotInv, DropInv, NEW s \in Slot, LinkEvent(s)
  PROVE  DropInv'
<1>1. /\ UNCHANGED <<peer, new_conn_q, worker>>
      /\ sem_refl_work' = 0 => sem_refl_work = 0
  BY DEF LinkEvent, DisconnectedCb, WriteDone, AnchorResets, AnchorSubscribes,
         stackVars, tableVars, workerVars
<1>2. /\ \A r \in Slot : Up(r)' => Up(r)
      /\ \A r \in Slot : link'[r] # "none" =>
                           link[r] # "none" /\ (r \in anchors => r \in anchors')
  <2> USE DEF stackVars, tableVars, Up, RotInv, RotTypeOK
  <2>1. CASE DisconnectedCb(s)
    BY <2>1 DEF DisconnectedCb
  <2>2. CASE WriteDone(s)
    BY <2>2 DEF WriteDone
  <2>3. CASE AnchorResets(s)
    BY <2>3 DEF AnchorResets
  <2>4. CASE AnchorSubscribes(s)
    BY <2>4 DEF AnchorSubscribes
  <2> QED BY <2>1, <2>2, <2>3, <2>4 DEF LinkEvent
<1> QED BY <1>1, <1>2 DEF DropInv, Queued

\* The link the worker has got is the only one of its anchor that stays.
LEMMA GetDrop ==
  ASSUME RotInv, DropInv, WorkerGet
  PROVE  DropInv'
<1>1. /\ new_conn_q # <<>> /\ new_conn_q \in Seq(Slot)
      /\ new_conn_q' = Tail(new_conn_q)
      /\ worker_conn' = Head(new_conn_q)
      /\ worker' = "settings" /\ UNCHANGED <<peer, anchors>>
      /\ \A j \in Slot : link'[j] = IF Duplicate(j, worker_conn')
                                       /\ link[j] # "none"
                                      THEN "ending" ELSE link[j]
  BY DEF WorkerGet, RotInv, RotTypeOK
<1>2. \A s \in Slot : Queued(s) <=> Queued(s)' \/ s = Head(new_conn_q)
  BY <1>1, QueuedTail DEF Queued
<1>3. \A s \in Slot : Up(s)' => Up(s) /\ ~Duplicate(s, worker_conn')
  BY <1>1 DEF Up
<1>4. \A s \in Slot : link'[s] # "none" => link[s] # "none"
  BY <1>1
<1>5. ASSUME NEW r \in Slot, NEW s \in Slot, r # s, Up(r)', Up(s)',
             peer'[r] = peer'[s]
      PROVE  Queued(r)' \/ Queued(s)'
  <2>1. /\ Up(r) /\ Up(s) /\ peer[r] = peer[s]
        /\ ~Duplicate(r, worker_conn') /\ ~Duplicate(s, worker_conn')
    BY <1>1, <1>3, <1>5
  <2>2. /\ Queued(r) \/ Queued(s)
        /\ r \in anchors /\ s \in anchors
    BY <1>5, <2>1 DEF DropInv, Up
  <2>3. r # worker_conn' /\ s # worker_conn'
    BY <1>5, <2>1, <2>2 DEF Duplicate
  <2> QED BY <1>1, <1>2, <2>2, <2>3
<1> QED BY <1>1, <1>4, <1>5 DEF DropInv

LEMMA WorkerDrop ==
  ASSUME RotInv, DropInv, Worker
  PROVE  DropInv'
<1>1. CASE WorkerGet
  BY <1>1, GetDrop
<1>2. CASE ~WorkerGet
  <2>1. UNCHANGED <<link, peer, anchors, new_conn_q>>
    BY <1>2 DEF Worker, WorkerTake, WorkerSettings, WorkerDrained,
                WorkerAdvertise, stackVars, tableVars
  <2>2. worker' \in {"wait", "adv"} /\ sem_refl_work' = 0 =>
          new_conn_q' = <<>>
    BY <1>2 DEF Worker, WorkerTake, WorkerSettings, WorkerDrained,
                WorkerAdvertise, tableVars, DropInv
  <2> QED BY <2>1, <2>2 DEF DropInv, Up, Queued
<1> QED BY <1>1, <1>2

\* What a step that is neither the stack's nor the worker's leaves alone.
LEMMA OtherDrop ==
  ASSUME DropInv, AdvertisesUnlessFailed, RoundRobin \/ UNCHANGED rotVars
  PROVE  DropInv' /\ AdvertisesUnlessFailed'
<1>1. UNCHANGED <<link, peer, adv, anchors, new_conn_q, sem_refl_work, worker,
                  conn_count, adv_failed>>
  BY DEF RoundRobin, RrGrant, RrNobody, RrNotify, RrAwaited, RrEnd, rotVars,
         stackVars, tableVars, workerVars
<1> QED BY <1>1 DEF DropInv, Up, Queued, AdvertisesUnlessFailed, Advertises

\* Whatever stops advertising, or makes room for a link, wakes the worker up.
LEMMA AdvertisesStep ==
  ASSUME RotInv, AdvertisesUnlessFailed,
         Connection \/ Worker \/ \E s \in Slot : LinkEvent(s)
  PROVE  AdvertisesUnlessFailed'
<1> USE DEF AdvertisesUnlessFailed, Advertises
<1>1. CASE Connection
  BY <1>1 DEF Connection, ConnectFailed, ConnectedCb
<1>2. CASE \E s \in Slot : LinkEvent(s)
  BY <1>2 DEF LinkEvent, DisconnectedCb, WriteDone, AnchorResets,
              AnchorSubscribes, stackVars, tableVars, workerVars
<1>3. CASE WorkerAdvertise
  <2>1. conn_count' = conn_count /\ worker = "adv"
    BY <1>3 DEF WorkerAdvertise, tableVars
  <2>2. CASE conn_count < MaxConn
    <3>1. AdvertisingStart
      BY <1>3, <2>2 DEF WorkerAdvertise
    <3>2. CASE adv # NoSlot
      BY <3>1, <3>2 DEF AdvertisingStart
    <3>3. CASE adv = NoSlot /\ Free = {}
      <4>1. adv_failed' = TRUE
        BY <3>1, <3>3, Zenon DEF AdvertisingStart
      <4> QED BY <4>1
    <3>4. CASE adv = NoSlot /\ Free # {}
      <4>1. adv' \in Free
        BY <3>1, <3>4 DEF AdvertisingStart
      <4> QED BY <4>1, NoSlotOut DEF Free
    <3> QED BY <3>2, <3>3, <3>4
  <2>3. CASE ~(conn_count < MaxConn)
    BY <2>1, <2>3
  <2> QED BY <2>2, <2>3
<1>4. CASE WorkerTake \/ WorkerGet \/ WorkerSettings \/ WorkerDrained
  BY <1>4 DEF WorkerTake, WorkerGet, WorkerSettings, WorkerDrained
<1> QED BY <1>1, <1>2, <1>3, <1>4 DEF Worker

LEMMA DropNext ==
  ASSUME RotInv, DropInv, AdvertisesUnlessFailed, [RotNext]_rotVars
  PROVE  DropInv' /\ AdvertisesUnlessFailed'
BY ConnectionDrop, LinkEventDrop, WorkerDrop, OtherDrop, AdvertisesStep
   DEF RotNext

LEMMA DropInvariance == RotSpec => [](DropInv /\ AdvertisesUnlessFailed)
<1>1. /\ RotInv /\ (DropInv /\ AdvertisesUnlessFailed) /\ [RotNext]_rotVars
      => (DropInv /\ AdvertisesUnlessFailed)'
  BY DropNext
<1> QED BY <1>1, DropInit, Invariance, PTL DEF RotSpec

-----------------------------------------------------------------------------
(* The theorems.                                                            *)

\* The target's variables keep their types (lines 38-47, 99-100).
THEOREM RotTypeCorrect == RotSpec => []RotTypeOK
<1>1. RotInv => RotTypeOK
  BY DEF RotInv
<1> QED BY <1>1, Invariance, PTL

\* k_msgq_put never finds the queue full (line 141): every new link gets to
\* the worker, even with one connection object.
THEOREM NewConnectionsKept == RotSpec => []NewConnsKept
<1>1. RotInv => NewConnsKept
  BY DEF RotInv, TableInv
<1> QED BY <1>1, Invariance, PTL

\* The DONE that ends a turn came in it (lines 58, 262-271).
THEOREM DoneBelongsToTurn == RotSpec => []DoneIsOfTurn
<1>1. RotInv => DoneIsOfTurn
  BY DEF RotInv
<1> QED BY <1>1, Invariance, PTL

\* The connection object of a turn is not given away during it (line 248).
THEOREM TurnKeepsLink == RotSpec => TurnIsOfOneLink
<1>1. RotInv /\ [RotNext]_rotVars
        => [c # NoSlot /\ c' = c => peer'[c] = peer[c]]_rotVars
  <2> SUFFICES ASSUME RotInv, [RotNext]_rotVars, c # NoSlot, c' = c
               PROVE  peer'[c] = peer[c]
    OBVIOUS
  <2>1. CASE \E a \in Anchor : ConnectedCb(a)
    <3>1. adv # c
      BY <2>1 DEF ConnectedCb, RotInv, TableInv, AdvIsFree
    <3> QED BY <2>1, <3>1 DEF ConnectedCb, RotInv, RotTypeOK
  <2>2. CASE UNCHANGED peer
    BY <2>2
  <2>3. (\E a \in Anchor : ConnectedCb(a)) \/ UNCHANGED peer
    BY DEF RotNext, Connection, ConnectFailed, LinkEvent, DisconnectedCb,
           WriteDone, AnchorResets, AnchorSubscribes, Worker, WorkerTake,
           WorkerGet, WorkerSettings, WorkerDrained, WorkerAdvertise,
           RoundRobin, RrGrant, RrNobody, RrNotify, RrAwaited, RrEnd, rotVars,
           stackVars
  <2> QED BY <2>1, <2>2, <2>3
<1> QED BY <1>1, Invariance, PTL DEF RotSpec, TurnIsOfOneLink

\* When the worker is done no anchor has two links, but for one it has just
\* dropped (lines 189-207).
THEOREM OneLinkPerAnchor == RotSpec => []NoDuplicates
<1>1. DropInv => NoDuplicates
  <2> SUFFICES ASSUME DropInv, worker = "wait", sem_refl_work = 0,
                      NEW r \in Slot, NEW s \in Slot, r # s,
                      {link[r], link[s]} \subseteq {"live", "stale"},
                      peer[r] = peer[s]
               PROVE  FALSE
    BY DEF NoDuplicates
  <2>1. new_conn_q = <<>> /\ (Queued(r) \/ Queued(s))
    BY DEF DropInv, Up
  <2>2. 1 .. Len(new_conn_q) = {}
    BY <2>1
  <2> QED BY <2>1, <2>2 DEF Queued
<1> QED BY <1>1, DropInvariance, PTL

\* When the worker waits and there is room the target advertises, unless an
\* advertising_start failed, which nobody repeats (line 170).
THEOREM AdvertisesWithRoom == RotSpec => []AdvertisesUnlessFailed
BY DropInvariance, PTL
=============================================================================
