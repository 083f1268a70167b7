--------------------------- MODULE ToolGate_proof ----------------------------
(***************************************************************************)
(* Theorems about ToolGate, for every number of reservations and every set *)
(* of abort signals: type correctness, an inductive invariant that relates *)
(* the queue, the counters and the states of the waiters, and from it that *)
(* exclusive tools run alone, that no admissible waiter is left in the     *)
(* queue, and that the gate implements the order promised to the model.    *)
(***************************************************************************)
EXTENDS ToolGate, SequenceTheorems, FiniteSetTheorems, TLAPS

-----------------------------------------------------------------------------
(* Splicing an element out of a sequence.                                  *)

\* RemoveAt keeps the elements before the place and shifts those after it.
LEMMA RemoveAtProperties ==
  ASSUME NEW S, NEW s \in Seq(S), NEW i \in 1 .. Len(s)
  PROVE  /\ RemoveAt(s, i) \in Seq(S)
         /\ Len(RemoveAt(s, i)) = Len(s) - 1
         /\ \A k \in 1 .. Len(s) - 1 :
              RemoveAt(s, i)[k] = IF k < i THEN s[k] ELSE s[k + 1]
<1> DEFINE a == SubSeq(s, 1, i - 1)
           b == SubSeq(s, i + 1, Len(s))
<1>1. Len(s) \in Nat
  BY LenProperties
<1>2. a \in Seq(S) /\ Len(a) = i - 1 /\ \A k \in 1 .. i - 1 : a[k] = s[k]
  BY <1>1, SubSeqProperties
<1>3. /\ b \in Seq(S) /\ Len(b) = Len(s) - i
      /\ \A k \in 1 .. Len(s) - i : b[k] = s[i + k]
  BY <1>1, SubSeqProperties
<1> HIDE DEF a, b
<1>4. /\ a \o b \in Seq(S) /\ Len(a \o b) = Len(a) + Len(b)
      /\ \A k \in 1 .. Len(a) + Len(b) :
           (a \o b)[k] = IF k <= Len(a) THEN a[k] ELSE b[k - Len(a)]
  BY <1>2, <1>3, ConcatProperties
<1>5. ASSUME NEW k \in 1 .. Len(s) - 1
      PROVE  (a \o b)[k] = IF k < i THEN s[k] ELSE s[k + 1]
  <2>1. CASE k < i
    BY <2>1, <1>1, <1>2, <1>3, <1>4
  <2>2. CASE ~(k < i)
    <3>1. k - (i - 1) \in 1 .. Len(s) - i /\ i + (k - (i - 1)) = k + 1
      BY <2>2, <1>1
    <3>2. (a \o b)[k] = b[k - (i - 1)]
      BY <2>2, <1>1, <1>2, <1>3, <1>4
    <3> QED
      BY <2>2, <3>1, <3>2, <1>3
  <2> QED
    BY <2>1, <2>2
<1>6. RemoveAt(s, i) = a \o b
  BY DEF RemoveAt, a, b
<1>7. Len(a) + Len(b) = Len(s) - 1
  BY <1>1, <1>2, <1>3
<1> QED
  BY <1>4, <1>5, <1>6, <1>7

-----------------------------------------------------------------------------
(* The inductive invariant.  TypeOK alone is not inductive: that drain()   *)
(* finds a head to admit, and that a release finds a reader to count down, *)
(* follow from what the other parts say of the queue and the counters.     *)

\* drain() goes on exactly while the head can be admitted.
DrainInv == draining <=> CanAdmit

\* The queue holds the waiters that wait, each once, in the order they came.
QueueInv ==
  /\ \A i \in 1 .. Len(queue) : queue[i] \in InQueue
  /\ \A c \in InQueue : \E i \in 1 .. Len(queue) : queue[i] = c
  /\ \A i, j \in 1 .. Len(queue) : i < j => queue[i] < queue[j]

\* The counters agree with the waiters that hold the gate.
Readers == {c \in Holding : mode[c] = "parallel"}
CounterInv ==
  /\ activeReaders = Cardinality(Readers)
  /\ activeWriter <=> \E c \in Holding : mode[c] = "exclusive"

\* Nothing that conflicts with a waiter in the queue has been let past it.
Past == {d \in Waiters : state[d] \in {"admitted", "running", "settled", "released"}}
OvertakeInv ==
  \A c \in InQueue, d \in Past :
    c < d => mode[c] = "parallel" /\ mode[d] = "parallel"

GateInv == /\ TypeOK /\ DrainInv /\ QueueInv
           /\ CounterInv /\ ExclusiveAlone /\ OvertakeInv

-----------------------------------------------------------------------------
(* Lemmas on the parts of the invariant.                                   *)

\* The waiters are finitely many, and so are those that hold the gate.
LEMMA FiniteReaders ==
  /\ IsFiniteSet(Waiters)
  /\ IsFiniteSet(Readers)
<1>1. IsFiniteSet(Waiters)
  BY NAssumption, FS_Interval DEF Waiters, NAssumption
<1>2. Readers \subseteq Waiters
  BY DEF Readers, Holding
<1> QED
  BY <1>1, <1>2, FS_Subset

\* What the counters say depends on the mode and the holders only.
LEMMA HoldersUnchanged ==
  ASSUME CounterInv, ExclusiveAlone, Holding' = Holding,
         UNCHANGED mode, UNCHANGED counters
  PROVE  CounterInv' /\ ExclusiveAlone'
<1>1. Readers' = Readers
  BY DEF Readers
<1>2. CounterInv'
  BY <1>1 DEF CounterInv, counters
<1>3. ExclusiveAlone'
  BY DEF ExclusiveAlone
<1> QED
  BY <1>2, <1>3

\* A waiter that is cancelled is spliced out of the queue, and what is left
\* is in order.
LEMMA LeaveQueueKeepsOrder ==
  ASSUME TypeOK, QueueInv, NEW c \in Waiters, c \in InQueue, LeaveQueue(c),
         state' = [state EXCEPT ![c] = "cancelled"]
  PROVE  /\ queue' \in Seq(Waiters)
         /\ QueueInv'
         /\ InQueue' = InQueue \ {c}
<1>1. PICK i \in 1 .. Len(queue) : queue[i] = c /\ queue' = RemoveAt(queue, i)
  <2>1. DOMAIN queue = 1 .. Len(queue)
    BY LenProperties DEF TypeOK
  <2> QED
    BY <2>1 DEF LeaveQueue
<1>2. Len(queue) \in Nat
  BY LenProperties DEF TypeOK
<1>3. /\ queue' \in Seq(Waiters) /\ Len(queue') = Len(queue) - 1
      /\ \A k \in 1 .. Len(queue) - 1 :
           queue'[k] = IF k < i THEN queue[k] ELSE queue[k + 1]
  BY <1>1, RemoveAtProperties DEF TypeOK
<1>4. InQueue' = InQueue \ {c}
  BY DEF InQueue, TypeOK
<1>5. ASSUME NEW k \in 1 .. Len(queue')
      PROVE  queue'[k] \in InQueue'
  <2>1. CASE k < i
    <3>1. queue'[k] = queue[k] /\ queue[k] < queue[i] /\ queue[k] \in InQueue
      BY <2>1, <1>1, <1>2, <1>3, <1>5 DEF QueueInv
    <3>2. queue[k] # c
      BY <3>1, <1>1 DEF Waiters
    <3> QED
      BY <3>1, <3>2, <1>4
  <2>2. CASE ~(k < i)
    <3>1. /\ k + 1 \in 1 .. Len(queue) /\ queue'[k] = queue[k + 1]
          /\ queue[i] < queue[k + 1] /\ queue[k + 1] \in InQueue
      BY <2>2, <1>1, <1>2, <1>3, <1>5 DEF QueueInv
    <3>2. queue[k + 1] # c
      BY <3>1, <1>1 DEF Waiters
    <3> QED
      BY <3>1, <3>2, <1>4
  <2> QED
    BY <2>1, <2>2
<1>6. ASSUME NEW d \in InQueue'
      PROVE  \E k \in 1 .. Len(queue') : queue'[k] = d
  <2>1. PICK j \in 1 .. Len(queue) : queue[j] = d
    BY <1>4, <1>6 DEF QueueInv
  <2>2. j # i
    BY <2>1, <1>1, <1>4, <1>6
  <2>3. CASE j < i
    BY <2>1, <2>3, <1>1, <1>2, <1>3
  <2>4. CASE j > i
    <3>1. j - 1 \in 1 .. Len(queue') /\ ~(j - 1 < i) /\ (j - 1) + 1 = j
      BY <2>1, <2>4, <1>1, <1>2, <1>3
    <3> QED
      BY <3>1, <2>1, <1>2, <1>3
  <2> QED
    BY <2>1, <2>2, <2>3, <2>4
<1>7. ASSUME NEW k \in 1 .. Len(queue'), NEW l \in 1 .. Len(queue'), k < l
      PROVE  queue'[k] < queue'[l]
  <2>1. /\ k \in 1 .. Len(queue) /\ k + 1 \in 1 .. Len(queue)
        /\ l \in 1 .. Len(queue) /\ l + 1 \in 1 .. Len(queue)
    BY <1>2, <1>3, <1>7
  <2>2. /\ queue'[k] = IF k < i THEN queue[k] ELSE queue[k + 1]
        /\ queue'[l] = IF l < i THEN queue[l] ELSE queue[l + 1]
    BY <1>2, <1>3, <1>7
  <2> QED
    BY <2>1, <2>2, <1>1, <1>7 DEF QueueInv
<1>8. QueueInv'
  BY <1>5, <1>6, <1>7 DEF QueueInv
<1> QED
  BY <1>3, <1>4, <1>8

\* Nothing that was not past the gate is let past it.
LEMMA OvertakeUnchanged ==
  ASSUME OvertakeInv, InQueue' \subseteq InQueue, Past' = Past, UNCHANGED mode
  PROVE  OvertakeInv'
BY DEF OvertakeInv

\* The head of a queue that is not empty is a waiter of the queue, the least.
LEMMA HeadOfQueue ==
  ASSUME TypeOK, QueueInv, queue # <<>>
  PROVE  /\ Head(queue) = queue[1] /\ Head(queue) \in InQueue
         /\ Head(queue) \in Waiters
         /\ Tail(queue) \in Seq(Waiters) /\ Len(Tail(queue)) = Len(queue) - 1
         /\ \A k \in 1 .. Len(queue) - 1 : Tail(queue)[k] = queue[k + 1]
         /\ \A c \in InQueue : c # Head(queue) => Head(queue) < c
         /\ Len(queue) \in Nat /\ 1 \in 1 .. Len(queue)
<1>1. Len(queue) \in Nat /\ 1 \in 1 .. Len(queue)
  BY EmptySeq, LenProperties DEF TypeOK
<1>2. /\ Head(queue) = queue[1]
      /\ Tail(queue) \in Seq(Waiters) /\ Len(Tail(queue)) = Len(queue) - 1
      /\ \A k \in 1 .. Len(queue) - 1 : Tail(queue)[k] = queue[k + 1]
  BY <1>1, HeadTailProperties DEF TypeOK
<1>3. Head(queue) \in InQueue /\ Head(queue) \in Waiters
  BY <1>1, <1>2 DEF QueueInv, InQueue
<1>4. ASSUME NEW c \in InQueue, c # Head(queue)
      PROVE  Head(queue) < c
  <2>1. PICK i \in 1 .. Len(queue) : queue[i] = c
    BY DEF QueueInv
  <2>2. 1 < i
    BY <2>1, <1>1, <1>2, <1>4
  <2> QED
    BY <2>1, <2>2, <1>1, <1>2 DEF QueueInv
<1> QED
  BY <1>1, <1>2, <1>3, <1>4

\* A step that drains sets DrainInv right.
LEMMA DrainHolds == ASSUME Drain PROVE DrainInv' /\ draining' \in BOOLEAN
BY DEF Drain, DrainInv, CanAdmit

\* A step that changes neither the queue nor its head has nothing to drain.
LEMMA NothingToDrain ==
  ASSUME DrainInv, UNCHANGED <<queue, counters, mode, draining>>,
         queue # <<>> => state'[Head(queue)] = state[Head(queue)]
  PROVE  DrainInv'
BY DEF DrainInv, CanAdmit, counters

-----------------------------------------------------------------------------
(* Every operation keeps the invariant.                                    *)

\* A reservation.  It joins the queue behind every waiter that came before.
LEMMA ReserveKeepsInv ==
  ASSUME GateInv, NEW c \in Waiters, ReserveNumber(c)
  PROVE  GateInv'
<1> USE DEF GateInv
<1>1. /\ UNCHANGED <<mode, signal, activeReaders, activeWriter, draining,
                     aborted, listeners>>
      /\ state[c] = "none"
      /\ \A d \in Waiters : c < d => state[d] = "none"
  BY DEF ReserveNumber, Reserve, rigid, counters
<1>2. Holding' = Holding /\ Past' = Past
  BY DEF ReserveNumber, Reserve, Holding, Past, TypeOK
<1>3. CounterInv' /\ ExclusiveAlone'
  BY <1>1, <1>2, HoldersUnchanged DEF counters
<1>4. Len(queue) \in Nat
  BY LenProperties DEF TypeOK
<1>5. CASE signal[c] \in aborted
  <2>1. state' = [state EXCEPT ![c] = "cancelled"] /\ UNCHANGED queue
    BY <1>5 DEF ReserveNumber, Reserve
  <2>2. InQueue' = InQueue
    BY <2>1, <1>1 DEF InQueue, TypeOK
  <2>3. TypeOK'
    BY <2>1, <1>1 DEF TypeOK, States
  <2>4. QueueInv'
    BY <2>1, <2>2 DEF QueueInv
  <2>5. queue # <<>> => Head(queue) \in InQueue
    BY HeadOfQueue
  <2>6. queue # <<>> => state'[Head(queue)] = state[Head(queue)]
    BY <2>1, <2>5, <1>1 DEF InQueue, TypeOK
  <2>7. DrainInv'
    BY <2>1, <2>6, <1>1, NothingToDrain DEF counters
  <2>8. OvertakeInv'
    BY <2>2, <1>1, <1>2, OvertakeUnchanged
  <2> QED
    BY <2>3, <2>4, <2>7, <2>8, <1>3
<1>6. CASE signal[c] \notin aborted
  <2>1. state' = [state EXCEPT ![c] = "waiting"] /\ queue' = Append(queue, c)
    BY <1>6 DEF ReserveNumber, Reserve
  <2>2. InQueue' = InQueue \union {c}
    BY <2>1, <1>1 DEF InQueue, TypeOK
  <2>3. /\ queue' \in Seq(Waiters) /\ Len(queue') = Len(queue) + 1
        /\ \A k \in 1 .. Len(queue) : queue'[k] = queue[k]
        /\ queue'[Len(queue) + 1] = c
    BY <2>1, <1>4, AppendProperties DEF TypeOK
  <2>4. TypeOK'
    BY <2>1, <2>3, <1>1 DEF TypeOK, States
  <2>5. \A d \in InQueue : d < c
    <3>1. \A d \in Waiters : d \in InQueue => d # c /\ ~(c < d)
      BY <1>1 DEF InQueue
    <3> QED
      BY <3>1, NAssumption DEF InQueue, Waiters, NAssumption
  <2>6. QueueInv'
    <3>1. \A k \in 1 .. Len(queue') : queue'[k] \in InQueue'
      BY <2>2, <2>3, <1>4 DEF QueueInv
    <3>2. \A d \in InQueue' : \E k \in 1 .. Len(queue') : queue'[k] = d
      BY <2>2, <2>3, <1>4 DEF QueueInv
    <3>3. ASSUME NEW k \in 1 .. Len(queue'), NEW l \in 1 .. Len(queue'), k < l
          PROVE  queue'[k] < queue'[l]
      <4>1. k \in 1 .. Len(queue) /\ queue'[k] = queue[k]
        BY <3>3, <2>3, <1>4
      <4>2. CASE l = Len(queue) + 1
        BY <4>1, <4>2, <2>3, <2>5 DEF QueueInv
      <4>3. CASE l # Len(queue) + 1
        <5>1. l \in 1 .. Len(queue) /\ queue'[l] = queue[l]
          BY <4>3, <2>3, <1>4
        <5> QED
          BY <5>1, <4>1, <3>3 DEF QueueInv
      <4> QED
        BY <4>2, <4>3
    <3> QED
      BY <3>1, <3>2, <3>3 DEF QueueInv
  <2>7. DrainInv'
    <3>1. ~draining /\ ~CanAdmit
      BY DEF ReserveNumber, Reserve, Quiet, DrainInv
    <3>2. ~CanAdmit'
      <4>1. CASE queue = <<>>
        <5>1. Len(queue) = 0
          BY <4>1, EmptySeq
        <5>2. queue'[1] = c /\ queue' # <<>>
          BY <5>1, <2>3, EmptySeq
        <5>3. Head(queue') = c
          BY <5>2, <2>3, HeadTailProperties
        <5> QED
          BY <5>3, <2>1 DEF CanAdmit, TypeOK
      <4>2. CASE queue # <<>>
        <5>1. /\ Head(queue) = queue[1] /\ Head(queue) \in InQueue
              /\ 1 \in 1 .. Len(queue)
          BY <4>2, HeadOfQueue
        <5>2. queue' # <<>>
          BY <2>3, <1>4, EmptySeq
        <5>3. Head(queue') = Head(queue)
          BY <5>1, <5>2, <2>3, HeadTailProperties
        <5>4. state'[Head(queue)] = state[Head(queue)]
          BY <5>1, <2>1, <1>1 DEF InQueue, TypeOK
        <5> QED
          BY <3>1, <4>2, <5>2, <5>3, <5>4, <1>1 DEF CanAdmit
      <4> QED
        BY <4>1, <4>2
    <3> QED
      BY <3>1, <3>2, <1>1 DEF DrainInv
  <2>8. OvertakeInv'
    <3>1. \A d \in Past : ~(c < d)
      BY <1>1 DEF Past
    <3> QED
      BY <3>1, <2>2, <1>1, <1>2 DEF OvertakeInv
  <2> QED
    BY <2>4, <2>6, <2>7, <2>8, <1>3
<1> QED
  BY <1>5, <1>6

\* run() makes a waiter ready where it stands.
LEMMA RunKeepsInv ==
  ASSUME GateInv, NEW c \in Waiters, Run(c)
  PROVE  GateInv'
<1> USE DEF GateInv
<1>1. /\ state[c] = "waiting" /\ state' = [state EXCEPT ![c] = "ready"]
      /\ UNCHANGED <<mode, signal, queue, activeReaders, activeWriter,
                     aborted, listeners>>
      /\ Drain
  BY DEF Run, rigid, counters
<1>2. Holding' = Holding /\ Past' = Past /\ InQueue' = InQueue
  BY <1>1 DEF Holding, Past, InQueue, TypeOK
<1>3. DrainInv' /\ draining' \in BOOLEAN
  BY <1>1, DrainHolds
<1>4. TypeOK'
  BY <1>1, <1>3 DEF TypeOK, States
<1>5. QueueInv'
  BY <1>1, <1>2 DEF QueueInv
<1>6. CounterInv' /\ ExclusiveAlone'
  BY <1>1, <1>2, HoldersUnchanged DEF counters
<1>7. OvertakeInv'
  BY <1>1, <1>2, OvertakeUnchanged
<1> QED
  BY <1>3, <1>4, <1>5, <1>6, <1>7

\* cancel() and an abort listener take a waiter out of the queue.
LEMMA LeavingKeepsInv ==
  ASSUME GateInv, NEW c \in Waiters, c \in InQueue, LeaveQueue(c), Drain,
         state' = [state EXCEPT ![c] = "cancelled"],
         UNCHANGED <<mode, signal, activeReaders, activeWriter, aborted>>,
         listeners' \subseteq listeners
  PROVE  GateInv'
<1> USE DEF GateInv
<1>1. queue' \in Seq(Waiters) /\ QueueInv' /\ InQueue' = InQueue \ {c}
  BY LeaveQueueKeepsOrder
<1>2. Holding' = Holding /\ Past' = Past
  BY DEF Holding, Past, InQueue, TypeOK
<1>3. DrainInv' /\ draining' \in BOOLEAN
  BY DrainHolds
<1>4. TypeOK'
  BY <1>1, <1>3 DEF TypeOK, States
<1>5. CounterInv' /\ ExclusiveAlone'
  BY <1>2, HoldersUnchanged DEF counters
<1>6. OvertakeInv'
  BY <1>1, <1>2, OvertakeUnchanged
<1> QED
  BY <1>1, <1>3, <1>4, <1>5, <1>6

\* Aborting a signal only arms the listeners.
LEMMA AbortKeepsInv ==
  ASSUME GateInv, NEW s \in Signals, Abort(s)
  PROVE  GateInv'
<1> USE DEF GateInv
<1>1. /\ UNCHANGED <<mode, signal, state, queue, activeReaders, activeWriter,
                     draining>>
      /\ aborted' = aborted \union {s}
      /\ listeners' = {c \in InQueue : signal[c] = s}
  BY DEF Abort, rigid, counters
<1>2. Holding' = Holding /\ Past' = Past /\ InQueue' = InQueue
  BY <1>1 DEF Holding, Past, InQueue
<1>3. TypeOK'
  BY <1>1 DEF TypeOK, InQueue
<1>4. DrainInv'
  BY <1>1, NothingToDrain DEF counters
<1>5. QueueInv'
  BY <1>1, <1>2 DEF QueueInv
<1>6. CounterInv' /\ ExclusiveAlone'
  BY <1>1, <1>2, HoldersUnchanged DEF counters
<1>7. OvertakeInv'
  BY <1>1, <1>2, OvertakeUnchanged
<1> QED
  BY <1>3, <1>4, <1>5, <1>6, <1>7

\* The operation of a waiter that holds the gate begins or ends.
LEMMA OperationKeepsInv ==
  ASSUME GateInv, NEW c \in Waiters, Begin(c) \/ End(c)
  PROVE  GateInv'
<1> USE DEF GateInv
<1>1. /\ state[c] \in {"admitted", "running"}
      /\ \/ state' = [state EXCEPT ![c] = "running"]
         \/ state' = [state EXCEPT ![c] = "settled"]
      /\ UNCHANGED <<mode, signal, queue, activeReaders, activeWriter,
                     draining, aborted, listeners>>
  BY DEF Begin, End, rigid, counters
<1>2. Holding' = Holding /\ Past' = Past /\ InQueue' = InQueue
  BY <1>1 DEF Holding, Past, InQueue, TypeOK
<1>3. TypeOK'
  BY <1>1 DEF TypeOK, States
<1>4. queue # <<>> => Head(queue) \in InQueue
  BY HeadOfQueue
<1>5. queue # <<>> => state'[Head(queue)] = state[Head(queue)]
  BY <1>1, <1>4 DEF InQueue, TypeOK
<1>6. DrainInv'
  BY <1>1, <1>5, NothingToDrain DEF counters
<1>7. QueueInv'
  BY <1>1, <1>2 DEF QueueInv
<1>8. CounterInv' /\ ExclusiveAlone'
  BY <1>1, <1>2, HoldersUnchanged DEF counters
<1>9. OvertakeInv'
  BY <1>1, <1>2, OvertakeUnchanged
<1> QED
  BY <1>3, <1>6, <1>7, <1>8, <1>9

(***************************************************************************)
(* admit(): the head, which is ready, takes the gate.  The counters say    *)
(* that nothing it conflicts with holds the gate, and the waiters left in  *)
(* the queue came after it.                                                *)
(***************************************************************************)
LEMMA AdmitKeepsInv ==
  ASSUME GateInv, Admit
  PROVE  GateInv'
<1> USE DEF GateInv
<1> DEFINE h == Head(queue)
<1>1. CanAdmit
  BY DEF Admit, DrainInv
<1>2. queue # <<>> /\ state[h] = "ready" /\ ~activeWriter
  BY <1>1 DEF CanAdmit
<1>3. /\ h = queue[1] /\ h \in InQueue /\ h \in Waiters
      /\ \A c \in InQueue : c # h => h < c
      /\ Tail(queue) \in Seq(Waiters) /\ Len(Tail(queue)) = Len(queue) - 1
      /\ \A k \in 1 .. Len(queue) - 1 : Tail(queue)[k] = queue[k + 1]
      /\ Len(queue) \in Nat /\ 1 \in 1 .. Len(queue)
  BY <1>2, HeadOfQueue
<1>4. mode[h] = "exclusive" => activeReaders = 0
  BY <1>1 DEF CanAdmit
<1> HIDE DEF h
<1>5. /\ state' = [state EXCEPT ![h] = "admitted"] /\ queue' = Tail(queue)
      /\ listeners' = listeners \ {h}
      /\ UNCHANGED <<mode, signal, aborted>>
      /\ Drain
  BY DEF Admit, rigid, h
<1>6. \/ /\ mode[h] = "parallel" /\ activeReaders' = activeReaders + 1
         /\ activeWriter' = activeWriter
      \/ /\ mode[h] = "exclusive" /\ activeReaders' = activeReaders
         /\ activeWriter' = TRUE
  BY <1>3 DEF Admit, h, TypeOK
<1>7. /\ Holding' = Holding \union {h} /\ h \notin Holding
      /\ InQueue' = InQueue \ {h} /\ Past' = Past \union {h}
  BY <1>2, <1>3, <1>5 DEF Holding, InQueue, Past, TypeOK
<1>8. DrainInv' /\ draining' \in BOOLEAN
  BY <1>5, DrainHolds
<1>9. TypeOK'
  <2>1. state' \in [Waiters -> States]
    BY <1>5 DEF TypeOK, States
  <2>2. activeReaders' \in Nat
    BY <1>6 DEF TypeOK
  <2>3. activeWriter' \in BOOLEAN
    BY <1>6 DEF TypeOK
  <2> QED
    BY <2>1, <2>2, <2>3, <1>3, <1>5, <1>8 DEF TypeOK
<1>10. QueueInv'
  <2>1. ASSUME NEW k \in 1 .. Len(queue')
        PROVE  /\ k + 1 \in 1 .. Len(queue)
               /\ queue'[k] = queue[k + 1] /\ queue'[k] # h
    <3>1. k + 1 \in 1 .. Len(queue) /\ queue'[k] = queue[k + 1] /\ 1 < k + 1
      BY <1>3, <1>5
    <3>2. queue[1] < queue[k + 1]
      BY <3>1, <1>3 DEF QueueInv
    <3> QED
      BY <3>1, <3>2, <1>3 DEF Waiters
  <2>2. \A k \in 1 .. Len(queue') : queue'[k] \in InQueue'
    BY <2>1, <1>7 DEF QueueInv
  <2>3. ASSUME NEW c \in InQueue'
        PROVE  \E k \in 1 .. Len(queue') : queue'[k] = c
    <3>1. PICK j \in 1 .. Len(queue) : queue[j] = c
      BY <1>7, <2>3 DEF QueueInv
    <3>2. j # 1
      BY <3>1, <1>3, <1>7, <2>3
    <3>3. j - 1 \in 1 .. Len(queue') /\ (j - 1) + 1 = j
      BY <3>1, <3>2, <1>3, <1>5
    <3> QED
      BY <3>1, <3>3, <2>1
  <2>4. ASSUME NEW k \in 1 .. Len(queue'), NEW l \in 1 .. Len(queue'), k < l
        PROVE  queue'[k] < queue'[l]
    <3>1. k + 1 < l + 1
      BY <2>4, <1>3, <1>5
    <3> QED
      BY <3>1, <2>1 DEF QueueInv
  <2> QED
    BY <2>2, <2>3, <2>4 DEF QueueInv
<1>11. CounterInv'
  <2>1. CASE mode[h] = "parallel"
    <3>1. Readers' = Readers \union {h} /\ h \notin Readers
      BY <2>1, <1>5, <1>7 DEF Readers
    <3>2. Cardinality(Readers') = Cardinality(Readers) + 1
      BY <3>1, FiniteReaders, FS_AddElement
    <3>3. activeReaders' = Cardinality(Readers')
      BY <2>1, <3>2, <1>6 DEF CounterInv
    <3>4. (\E c \in Holding' : mode'[c] = "exclusive")
            <=> \E c \in Holding : mode[c] = "exclusive"
      BY <2>1, <1>5, <1>7
    <3>5. activeWriter' = activeWriter
      BY <2>1, <1>6
    <3> QED
      BY <3>3, <3>4, <3>5 DEF CounterInv
  <2>2. CASE mode[h] = "exclusive"
    <3>1. Readers' = Readers
      BY <2>2, <1>5, <1>7 DEF Readers
    <3>2. activeReaders' = Cardinality(Readers')
      BY <2>2, <3>1, <1>6 DEF CounterInv
    <3>3. activeWriter' = TRUE
      BY <2>2, <1>6
    <3>4. \E c \in Holding' : mode'[c] = "exclusive"
      BY <2>2, <1>5, <1>7
    <3> QED
      BY <3>2, <3>3, <3>4 DEF CounterInv
  <2> QED
    BY <2>1, <2>2, <1>6
<1>12. ExclusiveAlone'
  <2>1. \A c \in Holding : mode[c] = "parallel"
    BY <1>2 DEF CounterInv, Holding, TypeOK
  <2>2. CASE mode[h] = "parallel"
    BY <2>1, <2>2, <1>5, <1>7 DEF ExclusiveAlone
  <2>3. CASE mode[h] = "exclusive"
    <3>1. Cardinality(Readers) = 0
      BY <2>3, <1>4 DEF CounterInv, h
    <3>2. Readers = {}
      BY <3>1, FiniteReaders, FS_EmptySet
    <3>3. Holding = {}
      BY <2>1, <3>2 DEF Readers
    <3> QED
      BY <3>3, <1>7 DEF ExclusiveAlone
  <2> QED
    BY <2>2, <2>3, <1>6
<1>13. OvertakeInv'
  <2>1. \A c \in InQueue' : ~(c < h)
    BY <1>3, <1>7 DEF InQueue, Waiters
  <2> QED
    BY <2>1, <1>5, <1>7 DEF OvertakeInv
<1> QED
  BY <1>8, <1>9, <1>10, <1>11, <1>12, <1>13

\* release(): the counter of its kind is given back and the queue is drained.
LEMMA ReleaseKeepsInv ==
  ASSUME GateInv, NEW c \in Waiters, Release(c)
  PROVE  GateInv'
<1> USE DEF GateInv
<1>1. /\ state[c] = "settled" /\ state' = [state EXCEPT ![c] = "released"]
      /\ UNCHANGED <<mode, signal, queue, aborted, listeners>>
      /\ Drain
  BY DEF Release, rigid
<1>2. \/ /\ mode[c] = "parallel" /\ activeReaders' = activeReaders - 1
         /\ activeWriter' = activeWriter
      \/ /\ mode[c] = "exclusive" /\ activeReaders' = activeReaders
         /\ activeWriter' = FALSE
  BY DEF Release, TypeOK
<1>3. /\ Holding' = Holding \ {c} /\ c \in Holding
      /\ InQueue' = InQueue /\ Past' = Past
  BY <1>1 DEF Holding, InQueue, Past, TypeOK
<1>4. DrainInv' /\ draining' \in BOOLEAN
  BY <1>1, DrainHolds
<1>5. CounterInv' /\ activeReaders' \in Nat /\ activeWriter' \in BOOLEAN
  <2>1. CASE mode[c] = "parallel"
    <3>1. Readers' = Readers \ {c} /\ c \in Readers
      BY <2>1, <1>1, <1>3 DEF Readers
    <3>2. /\ Cardinality(Readers') = Cardinality(Readers) - 1
          /\ IsFiniteSet(Readers')
      BY <3>1, FiniteReaders, FS_RemoveElement
    <3>3. Cardinality(Readers') \in Nat
      BY <3>2, FS_CardinalityType
    <3>4. activeReaders' = Cardinality(Readers')
      BY <2>1, <3>2, <1>2 DEF CounterInv
    <3>5. (\E d \in Holding' : mode'[d] = "exclusive")
            <=> \E d \in Holding : mode[d] = "exclusive"
      BY <2>1, <1>1, <1>3
    <3>6. activeWriter' = activeWriter
      BY <2>1, <1>2
    <3> QED
      BY <3>3, <3>4, <3>5, <3>6 DEF CounterInv, TypeOK
  <2>2. CASE mode[c] = "exclusive"
    <3>1. Readers' = Readers
      BY <2>2, <1>1, <1>3 DEF Readers
    <3>2. activeReaders' = Cardinality(Readers') /\ activeReaders' \in Nat
      BY <2>2, <3>1, <1>2 DEF CounterInv, TypeOK
    <3>3. activeWriter' = FALSE
      BY <2>2, <1>2
    <3>4. ~ \E d \in Holding' : mode'[d] = "exclusive"
      BY <2>2, <1>1, <1>3 DEF ExclusiveAlone
    <3> QED
      BY <3>2, <3>3, <3>4 DEF CounterInv
  <2> QED
    BY <2>1, <2>2, <1>2
<1>6. TypeOK'
  BY <1>1, <1>4, <1>5 DEF TypeOK, States
<1>7. QueueInv'
  BY <1>1, <1>3 DEF QueueInv
<1>8. ExclusiveAlone'
  BY <1>1, <1>3 DEF ExclusiveAlone
<1>9. OvertakeInv'
  BY <1>1, <1>3, OvertakeUnchanged
<1> QED
  BY <1>4, <1>5, <1>6, <1>7, <1>8, <1>9

-----------------------------------------------------------------------------
(* The theorems.                                                           *)

\* The invariant holds at the start.
LEMMA InitInv == Init => GateInv
<1> SUFFICES ASSUME Init PROVE GateInv
  OBVIOUS
<1>1. Holding = {} /\ InQueue = {} /\ Past = {} /\ Len(queue) = 0
  BY EmptySeq DEF Init, Holding, InQueue, Past
<1>2. TypeOK
  BY EmptySeq DEF Init, TypeOK, States
<1>3. DrainInv
  BY DEF Init, DrainInv, CanAdmit
<1>4. QueueInv
  BY <1>1 DEF QueueInv
<1>5. Readers = {} /\ Cardinality(Readers) = 0
  BY <1>1, FS_EmptySet DEF Readers
<1>6. CounterInv
  BY <1>1, <1>5 DEF Init, CounterInv
<1>7. ExclusiveAlone /\ OvertakeInv
  BY <1>1 DEF ExclusiveAlone, OvertakeInv
<1> QED
  BY <1>2, <1>3, <1>4, <1>6, <1>7 DEF GateInv

\* Every step keeps the invariant.
LEMMA NextInv == GateInv /\ [Next]_gateVars => GateInv'
<1> SUFFICES ASSUME GateInv, [Next]_gateVars PROVE GateInv'
  OBVIOUS
<1>1. CASE UNCHANGED gateVars
  BY <1>1 DEF gateVars, GateInv, TypeOK, DrainInv, CanAdmit, QueueInv,
     CounterInv, Readers, ExclusiveAlone, OvertakeInv, InQueue, Holding, Past
<1>2. CASE Admit
  BY <1>2, AdmitKeepsInv
<1>3. ASSUME NEW c \in Waiters, ReserveNumber(c) PROVE GateInv'
  BY <1>3, ReserveKeepsInv
<1>4. ASSUME NEW c \in Waiters, Run(c) PROVE GateInv'
  BY <1>4, RunKeepsInv
<1>5. ASSUME NEW c \in Waiters, Cancel(c) PROVE GateInv'
  BY <1>5, LeavingKeepsInv DEF Cancel, rigid, counters
<1>6. ASSUME NEW c \in Waiters, OnAbort(c) PROVE GateInv'
  <2>1. c \in InQueue
    BY <1>6 DEF OnAbort, LeaveQueue, GateInv, TypeOK, QueueInv
  <2> QED
    BY <1>6, <2>1, LeavingKeepsInv DEF OnAbort, rigid, counters
<1>7. ASSUME NEW c \in Waiters, Begin(c) \/ End(c) PROVE GateInv'
  BY <1>7, OperationKeepsInv
<1>8. ASSUME NEW c \in Waiters, Release(c) PROVE GateInv'
  BY <1>8, ReleaseKeepsInv
<1>9. ASSUME NEW s \in Signals, Abort(s) PROVE GateInv'
  BY <1>9, AbortKeepsInv
<1> QED
  BY <1>1, <1>2, <1>3, <1>4, <1>5, <1>6, <1>7, <1>8, <1>9 DEF Next

\* The gate always satisfies its invariant.
THEOREM GateInvHolds == Spec => []GateInv
BY InitInv, NextInv, PTL DEF Spec

\* Every variable keeps its type.
THEOREM TypeCorrect == Spec => []TypeOK
<1>1. GateInv => TypeOK
  BY DEF GateInv
<1> QED
  BY <1>1, GateInvHolds, PTL

\* An exclusive tool always holds the gate alone.
THEOREM MutualExclusion == Spec => []ExclusiveAlone
<1>1. GateInv => ExclusiveAlone
  BY DEF GateInv
<1> QED
  BY <1>1, GateInvHolds, PTL

\* Once the code has returned, no waiter is left in the queue that could be
\* admitted: no operation forgets to drain.
THEOREM NoWakeupIsLost == Spec => []NoLostWakeup
<1>1. GateInv => NoLostWakeup
  BY DEF GateInv, NoLostWakeup, DrainInv, Quiet
<1> QED
  BY <1>1, GateInvHolds, PTL

-----------------------------------------------------------------------------
(* The gate implements ToolOrder.                                          *)

\* The phase of a call in ToolOrder, from the state of its waiter.
LEMMA PhaseValues ==
  ASSUME NEW c \in Waiters
  PROVE  /\ OrderPhase[c] = "running" <=> c \in Holding
         /\ OrderPhase[c] = "done" <=> state[c] = "released"
         /\ state[c] \in {"none", "waiting", "ready"} => OrderPhase[c] = "idle"
BY DEF OrderPhase, Holding

\* Changing the state of one waiter changes the phase of its call.
LEMMA PhaseStep ==
  ASSUME NEW c \in Waiters, TypeOK, NEW v \in States, NEW p,
         state' = [state EXCEPT ![c] = v],
         \/ v \in {"waiting", "ready"} /\ p = "idle"
         \/ v \in {"admitted", "running", "settled"} /\ p = "running"
         \/ v = "released" /\ p = "done"
         \/ v = "cancelled" /\ p = "dropped"
  PROVE  OrderPhase' = [OrderPhase EXCEPT ![c] = p]
<1>1. ASSUME NEW d \in Waiters
      PROVE  OrderPhase'[d] = IF d = c THEN p ELSE OrderPhase[d]
  <2>1. CASE d = c
    <3>1. state'[d] = v
      BY <2>1 DEF TypeOK
    <3> QED
      BY <2>1, <3>1 DEF OrderPhase, Holding
  <2>2. CASE d # c
    <3>1. state'[d] = state[d]
      BY <2>2 DEF TypeOK
    <3> QED
      BY <2>2, <3>1 DEF OrderPhase, Holding
  <2> QED
    BY <2>1, <2>2
<1>2. /\ OrderPhase = [d \in Waiters |-> OrderPhase[d]]
      /\ OrderPhase' = [d \in Waiters |-> OrderPhase'[d]]
  BY DEF OrderPhase
<1> QED
  BY <1>1, <1>2

\* Each step of the gate is a step of ToolOrder or leaves it unchanged.
LEMMA StepImplementsOrder ==
  ASSUME GateInv, [Next]_gateVars
  PROVE  [Order!Next]_(Order!vars)
<1> USE DEF GateInv
<1>1. Order!Calls = Waiters
  BY DEF Order!Calls, Waiters
<1>2. ASSUME UNCHANGED <<state, mode>>
      PROVE  UNCHANGED Order!vars
  BY <1>2 DEF Order!vars, OrderPhase, Holding
<1>3. ASSUME NEW c \in Waiters, UNCHANGED mode, NEW v \in States, NEW w \in States,
             state[c] = v, state' = [state EXCEPT ![c] = w],
             \/ v = "none" /\ w = "waiting"
             \/ v = "waiting" /\ w = "ready"
             \/ v = "admitted" /\ w = "running"
             \/ v = "running" /\ w = "settled"
      PROVE  UNCHANGED Order!vars
  <2>1. OrderPhase' = [OrderPhase EXCEPT ![c] = OrderPhase[c]]
    BY <1>3, PhaseStep DEF OrderPhase, Holding
  <2>2. OrderPhase' = OrderPhase
    BY <2>1 DEF OrderPhase
  <2> QED
    BY <1>3, <2>2 DEF Order!vars
<1>4. ASSUME NEW c \in Waiters, UNCHANGED mode,
             state[c] \in {"none", "waiting", "ready"},
             state' = [state EXCEPT ![c] = "cancelled"]
      PROVE  Order!Next
  <2>1. OrderPhase' = [OrderPhase EXCEPT ![c] = "dropped"]
    BY <1>4, PhaseStep DEF States
  <2>2. OrderPhase[c] = "idle"
    BY <1>4, PhaseValues
  <2> QED
    BY <1>1, <1>4, <2>1, <2>2 DEF Order!Next, Order!Drop
<1>5. CASE UNCHANGED gateVars
  BY <1>2, <1>5 DEF gateVars
<1>6. CASE Admit
  <2> DEFINE h == Head(queue)
  <2>1. CanAdmit
    BY <1>6 DEF Admit, DrainInv
  <2>2. /\ queue # <<>> /\ state[h] = "ready" /\ ~activeWriter
        /\ mode[h] = "exclusive" => activeReaders = 0
    BY <2>1 DEF CanAdmit
  <2>3. h \in InQueue /\ h \in Waiters
    BY <2>2, HeadOfQueue
  <2>4. state' = [state EXCEPT ![h] = "admitted"] /\ UNCHANGED mode
    BY <1>6 DEF Admit, rigid
  <2> HIDE DEF h
  <2>5. OrderPhase' = [OrderPhase EXCEPT ![h] = "running"]
    BY <2>3, <2>4, PhaseStep DEF States
  <2>6. OrderPhase[h] = "idle"
    BY <2>2, <2>3, PhaseValues
  <2>7. \A d \in Holding : mode[d] = "parallel"
    BY <2>2 DEF CounterInv, Holding, TypeOK
  <2>8. mode[h] = "exclusive" => Holding = {}
    <3>1. SUFFICES ASSUME mode[h] = "exclusive" PROVE Holding = {}
      OBVIOUS
    <3>2. Readers = {}
      BY <3>1, <2>2, FiniteReaders, FS_EmptySet DEF CounterInv
    <3> QED
      BY <3>2, <2>7 DEF Readers
  <2>9. ASSUME NEW d \in Waiters, Order!Conflict(h, d)
        PROVE  OrderPhase[d] # "running" /\ (h < d => OrderPhase[d] # "done")
    <3>1. h # d /\ (mode[h] = "exclusive" \/ mode[d] = "exclusive")
      BY <2>9 DEF Order!Conflict
    <3>2. d \notin Holding
      BY <3>1, <2>7, <2>8
    <3>3. h < d => state[d] # "released"
      BY <3>1, <2>3 DEF OvertakeInv, Past
    <3> QED
      BY <3>2, <3>3, PhaseValues
  <2>10. Order!Start(h)
    BY <1>1, <2>4, <2>5, <2>6, <2>9 DEF Order!Start
  <2> QED
    BY <1>1, <2>3, <2>10 DEF Order!Next
<1>7. ASSUME NEW c \in Waiters, ReserveNumber(c)
      PROVE  [Order!Next]_(Order!vars)
  <2>1. /\ state[c] = "none" /\ UNCHANGED mode
        /\ \/ state' = [state EXCEPT ![c] = "cancelled"]
           \/ state' = [state EXCEPT ![c] = "waiting"]
    BY <1>7 DEF ReserveNumber, Reserve, rigid
  <2> QED
    BY <2>1, <1>3, <1>4 DEF States
<1>8. ASSUME NEW c \in Waiters, Run(c)
      PROVE  [Order!Next]_(Order!vars)
  BY <1>3, <1>8 DEF Run, rigid, States
<1>9. ASSUME NEW c \in Waiters, Cancel(c)
      PROVE  [Order!Next]_(Order!vars)
  BY <1>4, <1>9 DEF Cancel, rigid, InQueue
<1>10. ASSUME NEW c \in Waiters, OnAbort(c)
       PROVE  [Order!Next]_(Order!vars)
  <2>1. c \in InQueue
    BY <1>10 DEF OnAbort, LeaveQueue, TypeOK, QueueInv
  <2> QED
    BY <1>4, <1>10, <2>1 DEF OnAbort, rigid, InQueue
<1>11. ASSUME NEW c \in Waiters, Begin(c) \/ End(c)
       PROVE  [Order!Next]_(Order!vars)
  BY <1>3, <1>11 DEF Begin, End, rigid, States
<1>12. ASSUME NEW c \in Waiters, Release(c)
       PROVE  [Order!Next]_(Order!vars)
  <2>1. /\ state[c] = "settled" /\ UNCHANGED mode
        /\ state' = [state EXCEPT ![c] = "released"]
    BY <1>12 DEF Release, rigid
  <2>2. OrderPhase' = [OrderPhase EXCEPT ![c] = "done"]
    BY <2>1, PhaseStep DEF States
  <2>3. OrderPhase[c] = "running"
    BY <2>1, PhaseValues DEF Holding
  <2>4. Order!Finish(c)
    BY <2>1, <2>2, <2>3 DEF Order!Finish
  <2> QED
    BY <1>1, <2>4 DEF Order!Next
<1>13. ASSUME NEW s \in Signals, Abort(s)
       PROVE  [Order!Next]_(Order!vars)
  BY <1>2, <1>13 DEF Abort, rigid
<1> QED
  BY <1>5, <1>6, <1>7, <1>8, <1>9, <1>10, <1>11, <1>12, <1>13 DEF Next

\* The gate implements the order promised to the model: whatever is cancelled
\* or aborted, an exclusive call runs alone and no call starts once a later
\* call it conflicts with has started.
THEOREM OrderImplemented == Spec => ImplementsOrder
<1>1. Init => Order!Init
  BY DEF Init, Order!Init, Order!Calls, OrderPhase, Holding, Waiters
<1>2. GateInv /\ [Next]_gateVars => [Order!Next]_(Order!vars)
  BY StepImplementsOrder
<1> QED
  BY <1>1, <1>2, GateInvHolds, PTL DEF Spec, ImplementsOrder, Order!Spec

=============================================================================
