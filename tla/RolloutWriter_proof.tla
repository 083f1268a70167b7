------------------------ MODULE RolloutWriter_proof -------------------------
(***************************************************************************)
(* Theorems about RolloutWriter, for every line length and every bound:    *)
(* type correctness, then the inductive invariant WriterInv and the safety *)
(* properties that follow from it.                                         *)
(***************************************************************************)
EXTENDS RolloutWriter, SequenceTheorems, TLAPS

-----------------------------------------------------------------------------
(* Lines and their units.                                                  *)

\* Units first .. last of a line are a sequence of units of the right length.
LEMMA ChunkType ==
  ASSUME NEW r \in Records, NEW first \in 1 .. LineLen, NEW last \in 0 .. LineLen,
         first - 1 <= last
  PROVE  /\ Chunk(r, first, last) \in Seq(Units)
         /\ Len(Chunk(r, first, last)) = last - first + 1
         /\ \A i \in 1 .. last - first + 1 :
              Chunk(r, first, last)[i] = Unit(r, first + i - 1)
<1>1. \A i \in 1 .. last - first + 1 : Unit(r, first + i - 1) \in Units
  BY LineLenAssumption DEF Unit, Units, LineLenAssumption
<1>2. last - first + 1 \in Nat
  BY LineLenAssumption DEF LineLenAssumption
<1> QED
  BY <1>1, <1>2 DEF Chunk

\* The newline unit of a record is a unit.
LEMMA NewlineType == ASSUME NEW r \in Records PROVE Unit(r, LineLen) \in Units
  BY LineLenAssumption DEF Unit, Units, LineLenAssumption

-----------------------------------------------------------------------------
(* Type correctness.  The numbering of the records belongs to it: what an  *)
(* append acknowledges is a record only because operations end below       *)
(* nextSeq.  Boolean flags are kept apart from the data, which the provers *)
(* treat differently.                                                      *)

FlagsOK == accepting \in BOOLEAN /\ needsRecovery \in BOOLEAN

FileOK ==
  /\ lines \in Seq(Seq(Units)) /\ tail \in Seq(Units)
  /\ synced \in [lines : Nat, tail : Nat]

QueueOK ==
  /\ ops \in Seq(OpRecords)
  /\ phase \in {"drain", "sync"} /\ attempt \in {0, 1}

BufferOK ==
  /\ writer \in {"open", "discarding", "closed", "lost"}
  /\ nextSeq \in Nat \ {0} /\ gen \in Nat \ {0}
  /\ pending \in Seq(Records) /\ offset \in 0 .. LineLen - 1

HistoryOK ==
  /\ numbered \in Seq(Records) /\ promised \in Seq(Records)
  /\ acked \subseteq Records

AllOK == FlagsOK /\ FileOK /\ QueueOK /\ BufferOK /\ HistoryOK
         /\ NumberingInv /\ QueueInv

LEMMA TypeParts == AllOK <=> TypeOK /\ NumberingInv /\ QueueInv
  BY DEF AllOK, TypeOK, FlagsOK, FileOK, QueueOK, BufferOK, HistoryOK

\* The initial state has the types the code declares.
LEMMA InitType == Init => AllOK
<1> SUFFICES ASSUME Init PROVE AllOK
  OBVIOUS
<1>1. FlagsOK
  BY DEF Init, FlagsOK
<1>2. FileOK
  BY DEF Init, FileOK
<1>3. QueueOK
  BY DEF Init, QueueOK
<1>4. BufferOK
  BY LineLenAssumption DEF Init, BufferOK, LineLenAssumption
<1>5. HistoryOK
  BY DEF Init, HistoryOK
<1>6. NumberingInv
  BY DEF Init, NumberingInv
<1>7. QueueInv
  BY DEF Init, QueueInv, Live
<1> QED
  BY <1>1, <1>2, <1>3, <1>4, <1>5, <1>6, <1>7 DEF AllOK

\* A write leaves lines and tail sequences of units.
LEMMA PutUnitsType ==
  ASSUME AllOK, Draining, NEW n \in 0 .. LineLen - offset, PutUnits(n)
  PROVE  lines' \in Seq(Seq(Units)) /\ tail' \in Seq(Units)
<1> USE LineLenAssumption DEF LineLenAssumption
<1> DEFINE units == Chunk(pending[1], offset + 1, offset + n)
<1>1. pending[1] \in Records
  BY DEF AllOK, BufferOK, Draining
<1>2. /\ offset + 1 \in 1 .. LineLen /\ offset + n \in 0 .. LineLen
      /\ (offset + 1) - 1 <= offset + n
  BY DEF AllOK, BufferOK
<1>3. units \in Seq(Units)
  BY <1>1, <1>2, ChunkType
<1>4. lines \in Seq(Seq(Units)) /\ tail \in Seq(Units)
  BY DEF AllOK, FileOK
<1>5. tail \o units \in Seq(Units)
  BY <1>3, <1>4, ConcatProperties
<1>6. CASE offset + n = LineLen
  <2>1. lines' = Append(lines, tail \o units) /\ tail' = <<>>
    BY <1>6 DEF PutUnits
  <2> QED
    BY <2>1, <1>4, <1>5
<1>7. CASE offset + n # LineLen
  <2>1. lines' = lines /\ tail' = tail \o units
    BY <1>7 DEF PutUnits
  <2> QED
    BY <2>1, <1>4, <1>5
<1> QED
  BY <1>6, <1>7

\* So does reconciling the tail.
LEMMA ReconcileType ==
  ASSUME AllOK, Draining, TailCommitted \/ TailAbsent
  PROVE  FileOK'
<1>1. pending[1] \in Records
  BY DEF AllOK, BufferOK, Draining
<1>2. /\ lines \in Seq(Seq(Units)) /\ tail \in Seq(Units)
      /\ synced \in [lines : Nat, tail : Nat]
  BY DEF AllOK, FileOK
<1>3. Append(tail, Unit(pending[1], LineLen)) \in Seq(Units)
  BY <1>1, <1>2, NewlineType
<1>4. CASE UNCHANGED <<lines, tail, synced>>
  BY <1>2, <1>4 DEF FileOK
<1>5. ASSUME lines' = Append(lines, Append(tail, Unit(pending[1], LineLen))),
             tail' = <<>>, synced' = [lines |-> Len(lines'), tail |-> 0]
      PROVE  FileOK'
  <2>1. lines' \in Seq(Seq(Units))
    BY <1>2, <1>3, <1>5
  <2> QED
    BY <2>1, <1>5 DEF FileOK
<1>6. ASSUME tail' = <<>>, synced' = [synced EXCEPT !.tail = 0], UNCHANGED lines
      PROVE  FileOK'
  BY <1>2, <1>6 DEF FileOK
<1> QED
  BY <1>4, <1>5, <1>6 DEF TailCommitted, TailAbsent

\* So does the repair of a torn tail.
LEMMA RepairType ==
  ASSUME AllOK, CompleteTail \/ CutTail
  PROVE  lines' \in Seq(Seq(Units)) /\ tail' \in Seq(Units)
<1>1. lines \in Seq(Seq(Units)) /\ tail \in Seq(Units)
  BY DEF AllOK, FileOK
<1>2. CASE CompleteTail
  <2>1. tail[1] \in Units
    BY <1>1, <1>2 DEF CompleteTail, Parses
  <2>2. tail[1].rec \in Records
    BY <2>1 DEF Units
  <2>3. Append(tail, Unit(tail[1].rec, LineLen)) \in Seq(Units)
    BY <1>1, <2>2, NewlineType
  <2> QED
    BY <1>1, <1>2, <2>3 DEF CompleteTail
<1>3. CASE CutTail
  BY <1>1, <1>3 DEF CutTail
<1> QED
  BY <1>2, <1>3

\* Queueing an operation adds one to those that end within the numbering.
LEMMA EnqueueNumbering ==
  ASSUME AllOK, NEW kind, NEW first, NEW end, Enqueue(kind, first, end),
         NEW k \in DOMAIN ops', ops'[k].end # end
  PROVE  ops'[k].end \in Nat /\ ops'[k].end <= nextSeq
<1>1. ops \in Seq(OpRecords) /\ \A i \in DOMAIN ops : ops[i].end <= nextSeq
  BY DEF AllOK, QueueOK, NumberingInv
<1>2. \A i \in DOMAIN ops : ops[i] \in OpRecords
  BY <1>1
<1>3. \A i \in DOMAIN ops : ops[i].end \in Nat
  BY <1>2 DEF OpRecords
<1>4. /\ DOMAIN ops' = 1 .. Len(ops) + 1
      /\ \A i \in 1 .. Len(ops) : ops'[i] = ops[i]
      /\ ops'[Len(ops) + 1].end = end
  BY <1>1 DEF Enqueue
<1>5. k # Len(ops) + 1
  BY <1>4
<1>6. k \in DOMAIN ops /\ ops'[k] = ops[k]
  BY <1>1, <1>4, <1>5
<1> QED
  BY <1>1, <1>3, <1>6

\* Popping the running operation keeps the order of the others, and nothing
\* is queued behind a shutdown.
LEMMA PopQueue ==
  ASSUME AllOK, ops # <<>>
  PROVE  /\ Tail(ops) \in Seq(OpRecords) /\ Len(Tail(ops)) = Len(ops) - 1
         /\ \A k \in DOMAIN Tail(ops) : k + 1 \in DOMAIN ops /\ Tail(ops)[k] = ops[k + 1]
         /\ Op.kind = "shutdown" => Tail(ops) = <<>>
<1>1. ops \in Seq(OpRecords) /\ Len(ops) \in Nat \ {0}
  BY EmptySeq DEF AllOK, QueueOK
<1>2. /\ Tail(ops) \in Seq(OpRecords) /\ Len(Tail(ops)) = Len(ops) - 1
      /\ \A k \in 1 .. Len(Tail(ops)) : Tail(ops)[k] = ops[k + 1]
  BY <1>1, HeadTailProperties
<1>3. ASSUME Op.kind = "shutdown" PROVE Tail(ops) = <<>>
  <2>1. 1 \in DOMAIN ops /\ ops[1].kind = "shutdown"
    BY <1>1, <1>3 DEF Op
  <2>2. 1 = Len(ops)
    BY <2>1 DEF AllOK, QueueInv
  <2>3. Len(Tail(ops)) = 0
    BY <2>2, <1>2
  <2> QED
    BY <2>3, <1>2, EmptySeq
<1> QED
  BY <1>1, <1>2, <1>3

\* A rejected operation leaves the queue in order.
LEMMA RejectQueue ==
  ASSUME AllOK, ops # <<>>, Reject
  PROVE  QueueInv'
<1>1. QueueInv /\ ops' = Tail(ops) /\ UNCHANGED <<writer, nextSeq>>
  BY DEF AllOK, Reject
<1>2. CASE Op.kind = "shutdown"
  BY <1>1, <1>2, PopQueue DEF QueueInv
<1>3. CASE Op.kind # "shutdown"
  <2>1. accepting' = accepting
    BY <1>3 DEF Reject, AllOK, FlagsOK
  <2>2. ASSUME NEW k \in DOMAIN ops', ops'[k].kind = "shutdown"
        PROVE  k = Len(ops') /\ ops'[k].end = nextSeq /\ ~accepting /\ writer = "open"
    <3>1. k + 1 \in DOMAIN ops /\ ops'[k] = ops[k + 1]
      BY <1>1, <2>2, PopQueue
    <3>2. k + 1 = Len(ops) /\ ops'[k].end = nextSeq /\ ~accepting /\ writer = "open"
      BY <3>1, <2>2, <1>1 DEF QueueInv
    <3>3. k \in 1 .. Len(ops')
      BY <2>2, <1>1, PopQueue
    <3> QED
      BY <3>2, <3>3, <1>1, PopQueue
  <2>3. ~Live' => ops = <<>>
    BY <1>1 DEF QueueInv, Live
  <2> QED
    BY <2>1, <2>2, <2>3, <1>1 DEF QueueInv
<1> QED
  BY <1>2, <1>3

\* Every step keeps the types and the numbering.
LEMMA NextType == AllOK /\ [Next]_vars => AllOK'
<1> SUFFICES ASSUME AllOK, [Next]_vars PROVE AllOK'
  OBVIOUS
<1> USE LineLenAssumption DEF LineLenAssumption
<1>t. FlagsOK /\ FileOK /\ QueueOK /\ BufferOK /\ HistoryOK /\ NumberingInv /\ QueueInv
  BY DEF AllOK
<1>1. ASSUME NEW n \in 1 .. 2, AppendItems(n) PROVE AllOK'
  <2> DEFINE batch == [i \in 1 .. n |-> [seq |-> nextSeq + i - 1, gen |-> gen]]
  <2>a. batch \in Seq(Records) /\ Len(batch) = n
    BY <1>t DEF BufferOK, Records
  <2>b. pending \o batch \in Seq(Records)
    BY <2>a, <1>t, ConcatProperties DEF BufferOK
  <2>c. /\ numbered \o batch \in Seq(Records)
        /\ Len(numbered \o batch) = Len(numbered) + n
        /\ \A i \in 1 .. Len(numbered) + n : (numbered \o batch)[i] =
             IF i <= Len(numbered) THEN numbered[i] ELSE batch[i - Len(numbered)]
    BY <2>a, <1>t, ConcatProperties DEF HistoryOK
  <2>d. pending' = pending \o batch /\ numbered' = numbered \o batch
    BY <1>1 DEF AppendItems
  <2>1. FlagsOK'
    BY <1>t, <1>1
    DEF FlagsOK, AppendItems, fileVars, historyVars
  <2>2. FileOK'
    BY <1>t, <1>1
    DEF FileOK, AppendItems, fileVars, historyVars
  <2>3. QueueOK'
    BY <1>t, <1>1
    DEF QueueOK, AppendItems, fileVars, historyVars, BufferOK, Enqueue, OpRecords
  <2>4. BufferOK'
    <3>1. nextSeq' \in Nat \ {0}
      BY <1>1, <1>t DEF AppendItems, BufferOK
    <3>2. pending' \in Seq(Records)
      BY <2>b, <2>d
    <3>3. UNCHANGED <<writer, gen, offset>>
      BY <1>1 DEF AppendItems
    <3> QED
      BY <3>1, <3>2, <3>3, <1>t DEF BufferOK
  <2>5. HistoryOK'
    BY <1>t, <1>1, <2>c
    DEF HistoryOK, AppendItems, fileVars, historyVars
  <2>6. NumberingInv'
    <3>1. nextSeq \in Nat \ {0} /\ nextSeq' = nextSeq + n /\ Len(numbered) = nextSeq - 1
      BY <1>1, <1>t DEF AppendItems, BufferOK, NumberingInv
    <3>2. Len(numbered') = nextSeq' - 1
      BY <2>c, <2>d, <3>1
    <3>3. ASSUME NEW i \in DOMAIN numbered' PROVE numbered'[i].seq = i
      <4>1. i \in 1 .. Len(numbered) + n
        BY <2>c, <2>d, <3>3
      <4>2. CASE i <= Len(numbered)
        BY <4>1, <4>2, <2>c, <2>d, <1>t DEF NumberingInv, HistoryOK
      <4>3. CASE i > Len(numbered)
        <5>1. Len(numbered) \in Nat /\ i \in Int
          BY <4>1, <3>1
        <5>2. i - Len(numbered) \in 1 .. n
          BY <4>1, <4>3, <5>1
        <5>3. numbered'[i] = batch[i - Len(numbered)]
          BY <4>1, <4>3, <5>1, <2>c, <2>d
        <5>4. batch[i - Len(numbered)].seq = nextSeq + (i - Len(numbered)) - 1
          BY <5>2
        <5> QED
          BY <5>1, <5>3, <5>4, <3>1
      <4> QED
        BY <4>1, <4>2, <4>3, <3>1
    <3>4. Enqueue("append", nextSeq, nextSeq + n)
      BY <1>1 DEF AppendItems
    <3>5. \A k \in DOMAIN ops' : ops'[k].end <= nextSeq'
      BY <3>1, <3>4, EnqueueNumbering
    <3> QED
      BY <3>2, <3>3, <3>5 DEF NumberingInv
  <2>7. QueueInv'
    BY <1>t, <1>1
    DEF QueueInv, Live, AppendItems, fileVars, historyVars, Enqueue, QueueOK
  <2> QED
    BY <2>1, <2>2, <2>3, <2>4, <2>5, <2>6, <2>7 DEF AllOK
<1>2. CASE FlushThread
  <2>1. FlagsOK'
    BY <1>t, <1>2
    DEF FlagsOK, FlushThread, fileVars, historyVars
  <2>2. FileOK'
    BY <1>t, <1>2
    DEF FileOK, FlushThread, fileVars, historyVars
  <2>3. QueueOK'
    BY <1>t, <1>2
    DEF QueueOK, FlushThread, fileVars, historyVars, BufferOK, Enqueue, OpRecords
  <2>4. BufferOK'
    BY <1>t, <1>2
    DEF BufferOK, FlushThread, fileVars, historyVars
  <2>5. HistoryOK'
    BY <1>t, <1>2
    DEF HistoryOK, FlushThread, fileVars, historyVars
  <2>6. NumberingInv'
    <3>1. Enqueue("flush", nextSeq, nextSeq)
      BY <1>2 DEF FlushThread
    <3>2. \A k \in DOMAIN ops' : ops'[k].end <= nextSeq
      BY <3>1, <1>t, EnqueueNumbering DEF BufferOK
    <3> QED
      BY <3>2, <1>2, <1>t DEF FlushThread, NumberingInv, historyVars
  <2>7. QueueInv'
    BY <1>t, <1>2
    DEF QueueInv, Live, FlushThread, fileVars, historyVars, Enqueue, QueueOK
  <2> QED
    BY <2>1, <2>2, <2>3, <2>4, <2>5, <2>6, <2>7 DEF AllOK
<1>3. CASE ShutdownThread
  <2>1. FlagsOK'
    BY <1>t, <1>3
    DEF FlagsOK, ShutdownThread, fileVars, historyVars
  <2>2. FileOK'
    BY <1>t, <1>3
    DEF FileOK, ShutdownThread, fileVars, historyVars
  <2>3. QueueOK'
    BY <1>t, <1>3
    DEF QueueOK, ShutdownThread, fileVars, historyVars, BufferOK, Enqueue, OpRecords
  <2>4. BufferOK'
    BY <1>t, <1>3
    DEF BufferOK, ShutdownThread, fileVars, historyVars
  <2>5. HistoryOK'
    BY <1>t, <1>3
    DEF HistoryOK, ShutdownThread, fileVars, historyVars
  <2>6. NumberingInv'
    <3>1. Enqueue("shutdown", nextSeq, nextSeq)
      BY <1>3 DEF ShutdownThread
    <3>2. \A k \in DOMAIN ops' : ops'[k].end <= nextSeq
      BY <3>1, <1>t, EnqueueNumbering DEF BufferOK
    <3> QED
      BY <3>2, <1>3, <1>t DEF ShutdownThread, NumberingInv, historyVars
  <2>7. QueueInv'
    BY <1>t, <1>3
    DEF QueueInv, Live, ShutdownThread, fileVars, historyVars, Enqueue, QueueOK
  <2> QED
    BY <2>1, <2>2, <2>3, <2>4, <2>5, <2>6, <2>7 DEF AllOK
<1>4. CASE DiscardThread
  <2>1. FlagsOK'
    BY <1>t, <1>4
    DEF FlagsOK, DiscardThread, fileVars, historyVars
  <2>2. FileOK'
    BY <1>t, <1>4
    DEF FileOK, DiscardThread, fileVars, historyVars
  <2>3. QueueOK'
    BY <1>t, <1>4
    DEF QueueOK, DiscardThread, fileVars, historyVars, BufferOK, Enqueue, OpRecords
  <2>4. BufferOK'
    BY <1>t, <1>4
    DEF BufferOK, DiscardThread, fileVars, historyVars
  <2>5. HistoryOK'
    BY <1>t, <1>4
    DEF HistoryOK, DiscardThread, fileVars, historyVars
  <2>6. NumberingInv'
    BY <1>t, <1>4
    DEF NumberingInv, DiscardThread, fileVars, historyVars, BufferOK, QueueOK, HistoryOK, Enqueue, OpRecords
  <2>7. QueueInv'
    BY <1>t, <1>4
    DEF QueueInv, Live, DiscardThread, fileVars, historyVars
  <2> QED
    BY <2>1, <2>2, <2>3, <2>4, <2>5, <2>6, <2>7 DEF AllOK
<1>5. ASSUME NEW n \in 1 .. LineLen, WriteChunk(n) PROVE AllOK'
  <2>a. lines' \in Seq(Seq(Units)) /\ tail' \in Seq(Units)
    <3>1. n \in 0 .. LineLen - offset
      BY <1>5, <1>t DEF WriteChunk, BufferOK
    <3> QED
      BY <3>1, <1>5, PutUnitsType DEF WriteChunk
  <2>1. FlagsOK'
    BY <1>t, <1>5
    DEF FlagsOK, WriteChunk, fileVars, historyVars
  <2>2. FileOK'
    BY <1>t, <1>5, <2>a
    DEF FileOK, WriteChunk, fileVars, historyVars
  <2>3. QueueOK'
    BY <1>t, <1>5
    DEF QueueOK, WriteChunk, fileVars, historyVars
  <2>4. BufferOK'
    BY <1>t, <1>5
    DEF BufferOK, WriteChunk, fileVars, historyVars, Draining, ShiftPending
  <2>5. HistoryOK'
    BY <1>t, <1>5
    DEF HistoryOK, WriteChunk, fileVars, historyVars
  <2>6. NumberingInv'
    BY <1>t, <1>5
    DEF NumberingInv, WriteChunk, fileVars, historyVars
  <2>7. QueueInv'
    BY <1>t, <1>5
    DEF QueueInv, Live, WriteChunk, fileVars, historyVars
  <2> QED
    BY <2>1, <2>2, <2>3, <2>4, <2>5, <2>6, <2>7 DEF AllOK
<1>6. CASE WriteNothing
  <2>1. FlagsOK'
    BY <1>t, <1>6
    DEF FlagsOK, WriteNothing, fileVars, historyVars, Reject
  <2>2. FileOK'
    BY <1>t, <1>6
    DEF FileOK, WriteNothing, fileVars, historyVars
  <2>3. QueueOK'
    BY <1>t, <1>6
    DEF QueueOK, WriteNothing, fileVars, historyVars, Reject, Draining
  <2>4. BufferOK'
    BY <1>t, <1>6
    DEF BufferOK, WriteNothing, fileVars, historyVars, Reject
  <2>5. HistoryOK'
    BY <1>t, <1>6
    DEF HistoryOK, WriteNothing, fileVars, historyVars, Reject
  <2>6. NumberingInv'
    BY <1>t, <1>6
    DEF NumberingInv, WriteNothing, fileVars, historyVars, Reject, QueueOK, Draining
  <2>7. QueueInv'
    BY <1>6, RejectQueue DEF WriteNothing, Draining
  <2> QED
    BY <2>1, <2>2, <2>3, <2>4, <2>5, <2>6, <2>7 DEF AllOK
<1>7. ASSUME NEW n \in 0 .. LineLen, WriteFails(n) PROVE AllOK'
  <2>a. lines' \in Seq(Seq(Units)) /\ tail' \in Seq(Units)
    <3>1. CASE n = 0
      BY <3>1, <1>7, <1>t DEF WriteFails, FileOK
    <3>2. CASE n # 0
      BY <3>2, <1>7, PutUnitsType DEF WriteFails
    <3> QED
      BY <3>1, <3>2
  <2>1. FlagsOK'
    BY <1>t, <1>7
    DEF FlagsOK, WriteFails, fileVars, historyVars, Reject
  <2>2. FileOK'
    BY <1>t, <1>7, <2>a
    DEF FileOK, WriteFails, fileVars, historyVars
  <2>3. QueueOK'
    BY <1>t, <1>7
    DEF QueueOK, WriteFails, fileVars, historyVars, Reject, Draining
  <2>4. BufferOK'
    BY <1>t, <1>7
    DEF BufferOK, WriteFails, fileVars, historyVars, Reject
  <2>5. HistoryOK'
    BY <1>t, <1>7
    DEF HistoryOK, WriteFails, fileVars, historyVars, Reject
  <2>6. NumberingInv'
    BY <1>t, <1>7
    DEF NumberingInv, WriteFails, fileVars, historyVars, Reject, QueueOK, Draining
  <2>7. QueueInv'
    <3>1. CASE attempt = 1
      BY <3>1, <1>7, RejectQueue DEF WriteFails, Draining
    <3>2. CASE attempt # 1
      BY <3>2, <1>t, <1>7 DEF WriteFails, QueueInv, Live
    <3> QED
      BY <3>1, <3>2
  <2> QED
    BY <2>1, <2>2, <2>3, <2>4, <2>5, <2>6, <2>7 DEF AllOK
<1>8. CASE Recover
  <2>a. FileOK'
    BY <1>8, ReconcileType DEF Recover
  <2>1. FlagsOK'
    BY <1>t, <1>8
    DEF FlagsOK, Recover, fileVars, historyVars
  <2>2. FileOK'
    BY <1>t, <1>8, <2>a
    DEF FileOK, Recover, fileVars, historyVars
  <2>3. QueueOK'
    BY <1>t, <1>8
    DEF QueueOK, Recover, fileVars, historyVars
  <2>4. BufferOK'
    BY <1>t, <1>8
    DEF BufferOK, Recover, fileVars, historyVars, Draining, ShiftPending
  <2>5. HistoryOK'
    BY <1>t, <1>8
    DEF HistoryOK, Recover, fileVars, historyVars
  <2>6. NumberingInv'
    BY <1>t, <1>8
    DEF NumberingInv, Recover, fileVars, historyVars
  <2>7. QueueInv'
    BY <1>t, <1>8
    DEF QueueInv, Live, Recover, fileVars, historyVars
  <2> QED
    BY <2>1, <2>2, <2>3, <2>4, <2>5, <2>6, <2>7 DEF AllOK
<1>9. CASE RecoverFails
  <2>b. FileOK'
    <3>1. CASE TailCommitted \/ TailAbsent
      BY <3>1, <1>9, ReconcileType DEF RecoverFails
    <3>2. CASE UNCHANGED <<lines, tail, synced, offset>>
      BY <3>2, <1>t DEF FileOK
    <3>3. ASSUME lines' = Append(lines, Append(tail, Unit(pending[1], LineLen))),
                 tail' = <<>>, UNCHANGED synced
          PROVE  FileOK'
      <4>1. pending[1] \in Records
        BY <1>t, <1>9 DEF RecoverFails, Draining, BufferOK
      <4>2. Append(tail, Unit(pending[1], LineLen)) \in Seq(Units)
        BY <4>1, <1>t, NewlineType DEF FileOK
      <4>3. lines' \in Seq(Seq(Units))
        BY <4>2, <3>3, <1>t DEF FileOK
      <4> QED
        BY <4>3, <3>3, <1>t DEF FileOK
    <3> QED
      BY <3>1, <3>2, <3>3, <1>9 DEF RecoverFails
  <2>1. FlagsOK'
    BY <1>t, <1>9
    DEF FlagsOK, RecoverFails, fileVars, historyVars, Reject
  <2>2. FileOK'
    BY <1>t, <1>9, <2>b
    DEF FileOK, RecoverFails, fileVars, historyVars
  <2>3. QueueOK'
    BY <1>t, <1>9
    DEF QueueOK, RecoverFails, fileVars, historyVars, Reject, Draining
  <2>4. BufferOK'
    BY <1>t, <1>9
    DEF BufferOK, RecoverFails, fileVars, historyVars, Reject
  <2>5. HistoryOK'
    BY <1>t, <1>9
    DEF HistoryOK, RecoverFails, fileVars, historyVars, Reject
  <2>6. NumberingInv'
    BY <1>t, <1>9
    DEF NumberingInv, RecoverFails, fileVars, historyVars, Reject, QueueOK, Draining
  <2>7. QueueInv'
    BY <1>9, RejectQueue DEF RecoverFails, Draining
  <2> QED
    BY <2>1, <2>2, <2>3, <2>4, <2>5, <2>6, <2>7 DEF AllOK
<1>10. CASE DrainDone
  <2>a. {numbered[i] : i \in Op.first .. Op.end - 1} \subseteq Records
    <3>1. Op \in OpRecords /\ Op.end <= nextSeq
      BY <1>10, <1>t DEF DrainDone, QueueOK, NumberingInv, Op
    <3> QED
      BY <3>1, <1>t DEF OpRecords, HistoryOK, NumberingInv, BufferOK
  <2>1. FlagsOK'
    BY <1>t, <1>10
    DEF FlagsOK, DrainDone, fileVars, historyVars
  <2>2. FileOK'
    BY <1>t, <1>10
    DEF FileOK, DrainDone, fileVars, historyVars
  <2>3. QueueOK'
    BY <1>t, <1>10
    DEF QueueOK, DrainDone, fileVars, historyVars
  <2>4. BufferOK'
    BY <1>t, <1>10
    DEF BufferOK, DrainDone, fileVars, historyVars
  <2>5. HistoryOK'
    BY <1>t, <1>10, <2>a
    DEF HistoryOK, DrainDone, fileVars, historyVars
  <2>6. NumberingInv'
    BY <1>t, <1>10
    DEF NumberingInv, DrainDone, fileVars, historyVars, QueueOK
  <2>7. QueueInv'
    BY <1>t, <1>10, PopQueue
    DEF QueueInv, Live, DrainDone, fileVars, historyVars, Op, QueueOK
  <2> QED
    BY <2>1, <2>2, <2>3, <2>4, <2>5, <2>6, <2>7 DEF AllOK
<1>11. CASE Sync
  <2>a. SubSeq(numbered, 1, Op.end - 1) \in Seq(Records)
    <3>1. Op \in OpRecords /\ Op.end <= nextSeq
      BY <1>11, <1>t DEF Sync, Running, QueueOK, NumberingInv, Op
    <3> QED
      BY <3>1, <1>t DEF OpRecords, HistoryOK, NumberingInv, BufferOK
  <2>1. FlagsOK'
    BY <1>t, <1>11
    DEF FlagsOK, Sync, fileVars, historyVars
  <2>2. FileOK'
    BY <1>t, <1>11
    DEF FileOK, Sync, fileVars, historyVars
  <2>3. QueueOK'
    BY <1>t, <1>11
    DEF QueueOK, Sync, fileVars, historyVars, Running
  <2>4. BufferOK'
    BY <1>t, <1>11
    DEF BufferOK, Sync, fileVars, historyVars
  <2>5. HistoryOK'
    BY <1>t, <1>11, <2>a
    DEF HistoryOK, Sync, fileVars, historyVars
  <2>6. NumberingInv'
    BY <1>t, <1>11
    DEF NumberingInv, Sync, fileVars, historyVars, QueueOK, Running
  <2>7. QueueInv'
    BY <1>t, <1>11, PopQueue
    DEF QueueInv, Live, Sync, fileVars, historyVars, Op, QueueOK, Running
  <2> QED
    BY <2>1, <2>2, <2>3, <2>4, <2>5, <2>6, <2>7 DEF AllOK
<1>12. CASE SyncFails
  <2>1. FlagsOK'
    BY <1>t, <1>12
    DEF FlagsOK, SyncFails, fileVars, historyVars, Reject, Running
  <2>2. FileOK'
    BY <1>t, <1>12
    DEF FileOK, SyncFails, fileVars, historyVars
  <2>3. QueueOK'
    BY <1>t, <1>12
    DEF QueueOK, SyncFails, fileVars, historyVars, Reject, Draining, Running
  <2>4. BufferOK'
    BY <1>t, <1>12
    DEF BufferOK, SyncFails, fileVars, historyVars, Reject, Running
  <2>5. HistoryOK'
    BY <1>t, <1>12
    DEF HistoryOK, SyncFails, fileVars, historyVars, Reject, Running
  <2>6. NumberingInv'
    BY <1>t, <1>12
    DEF NumberingInv, SyncFails, fileVars, historyVars, Reject, QueueOK, Draining, Running
  <2>7. QueueInv'
    BY <1>12, RejectQueue DEF SyncFails, Running
  <2> QED
    BY <2>1, <2>2, <2>3, <2>4, <2>5, <2>6, <2>7 DEF AllOK
<1>13. CASE FinishDiscard
  <2>1. FlagsOK'
    BY <1>t, <1>13
    DEF FlagsOK, FinishDiscard, fileVars, historyVars
  <2>2. FileOK'
    BY <1>t, <1>13
    DEF FileOK, FinishDiscard, fileVars, historyVars
  <2>3. QueueOK'
    BY <1>t, <1>13
    DEF QueueOK, FinishDiscard, fileVars, historyVars
  <2>4. BufferOK'
    BY <1>t, <1>13
    DEF BufferOK, FinishDiscard, fileVars, historyVars
  <2>5. HistoryOK'
    BY <1>t, <1>13
    DEF HistoryOK, FinishDiscard, fileVars, historyVars
  <2>6. NumberingInv'
    BY <1>t, <1>13
    DEF NumberingInv, FinishDiscard, fileVars, historyVars
  <2>7. QueueInv'
    BY <1>t, <1>13
    DEF QueueInv, Live, FinishDiscard, fileVars, historyVars
  <2> QED
    BY <2>1, <2>2, <2>3, <2>4, <2>5, <2>6, <2>7 DEF AllOK
<1>14. CASE Crash
  <2>1. FlagsOK'
    BY <1>t, <1>14
    DEF FlagsOK, Crash, fileVars, historyVars, DropWriter
  <2>2. FileOK'
    BY <1>t, <1>14
    DEF FileOK, Crash, fileVars, historyVars, DropWriter
  <2>3. QueueOK'
    BY <1>t, <1>14
    DEF QueueOK, Crash, fileVars, historyVars, DropWriter
  <2>4. BufferOK'
    BY <1>t, <1>14
    DEF BufferOK, Crash, fileVars, historyVars, DropWriter
  <2>5. HistoryOK'
    BY <1>t, <1>14
    DEF HistoryOK, Crash, fileVars, historyVars, DropWriter
  <2>6. NumberingInv'
    BY <1>t, <1>14
    DEF NumberingInv, Crash, fileVars, historyVars, DropWriter
  <2>7. QueueInv'
    BY <1>t, <1>14
    DEF QueueInv, Live, Crash, fileVars, historyVars, DropWriter
  <2> QED
    BY <2>1, <2>2, <2>3, <2>4, <2>5, <2>6, <2>7 DEF AllOK
<1>15. CASE PowerLoss
  <2>a. FileOK'
    <3>1. PICK n \in synced.lines .. Len(lines) :
            LET rest == IF n < Len(lines) THEN lines[n + 1] ELSE tail
                least == IF n = synced.lines THEN synced.tail ELSE 0 IN
            \E k \in least .. Len(rest) :
              /\ n < Len(lines) => k < Len(rest)
              /\ lines' = SubSeq(lines, 1, n)
              /\ tail' = SubSeq(rest, 1, k)
              /\ synced' = [lines |-> n, tail |-> k]
      BY <1>15 DEF PowerLoss
    <3> DEFINE rest == IF n < Len(lines) THEN lines[n + 1] ELSE tail
               least == IF n = synced.lines THEN synced.tail ELSE 0
    <3>2. PICK k \in least .. Len(rest) :
              /\ lines' = SubSeq(lines, 1, n)
              /\ tail' = SubSeq(rest, 1, k)
              /\ synced' = [lines |-> n, tail |-> k]
      BY <3>1
    <3>3. n \in 0 .. Len(lines) /\ rest \in Seq(Units) /\ least \in Nat
      BY <1>t DEF FileOK
    <3>4. k \in 0 .. Len(rest)
      BY <3>3
    <3>5. lines' \in Seq(Seq(Units))
      BY <3>2, <3>3, <1>t DEF FileOK
    <3>6. tail' \in Seq(Units)
      BY <3>2, <3>3, <3>4
    <3>7. synced' \in [lines : Nat, tail : Nat]
      BY <3>2, <3>3, <3>4
    <3> QED
      BY <3>5, <3>6, <3>7 DEF FileOK
  <2>1. FlagsOK'
    BY <1>t, <1>15
    DEF FlagsOK, PowerLoss, fileVars, historyVars, DropWriter
  <2>2. FileOK'
    BY <1>t, <1>15, <2>a
    DEF FileOK, PowerLoss, fileVars, historyVars, DropWriter
  <2>3. QueueOK'
    BY <1>t, <1>15
    DEF QueueOK, PowerLoss, fileVars, historyVars, DropWriter
  <2>4. BufferOK'
    BY <1>t, <1>15
    DEF BufferOK, PowerLoss, fileVars, historyVars, DropWriter
  <2>5. HistoryOK'
    BY <1>t, <1>15
    DEF HistoryOK, PowerLoss, fileVars, historyVars, DropWriter
  <2>6. NumberingInv'
    BY <1>t, <1>15
    DEF NumberingInv, PowerLoss, fileVars, historyVars, DropWriter
  <2>7. QueueInv'
    BY <1>t, <1>15
    DEF QueueInv, Live, PowerLoss, fileVars, historyVars, DropWriter
  <2> QED
    BY <2>1, <2>2, <2>3, <2>4, <2>5, <2>6, <2>7 DEF AllOK
<1>16. CASE ResumeThread
  <2>a. lines' \in Seq(Seq(Units)) /\ tail' \in Seq(Units)
    BY <1>16, RepairType DEF ResumeThread
  <2>r. \A i \in DOMAIN lines' : RecordOf(lines'[i]) \in Records /\ RecordOf(lines'[i]).seq = i
    <3> SUFFICES ASSUME NEW i \in DOMAIN lines'
                 PROVE  RecordOf(lines'[i]) \in Records /\ RecordOf(lines'[i]).seq = i
      OBVIOUS
    <3>1. lines'[i] \in Seq(Units) /\ lines'[i] # <<>> /\ RecordOf(lines'[i]).seq = i
      BY <2>a, <1>16 DEF ResumeThread, Readable, IsRecordLine
    <3>2. lines'[i][1] \in Units
      BY <3>1
    <3> QED
      BY <3>1, <3>2 DEF RecordOf, Units
  <2>n. numbered' \in Seq(Records) /\ Len(numbered') = Len(lines')
        /\ \A i \in DOMAIN numbered' : numbered'[i].seq = i
    <3>1. DOMAIN lines' = 1 .. Len(lines') /\ Len(lines') \in Nat
      BY <2>a
    <3>2. numbered' = [i \in 1 .. Len(lines') |-> RecordOf(lines'[i])]
      BY <3>1, <1>16 DEF ResumeThread
    <3> QED
      BY <3>1, <3>2, <2>r
  <2>1. FlagsOK'
    BY <1>t, <1>16
    DEF FlagsOK, ResumeThread, fileVars, historyVars
  <2>2. FileOK'
    BY <1>t, <1>16, <2>a
    DEF FileOK, ResumeThread, fileVars, historyVars, CutTail
  <2>3. QueueOK'
    BY <1>t, <1>16
    DEF QueueOK, ResumeThread, fileVars, historyVars
  <2>4. BufferOK'
    BY <1>t, <1>16, <2>a
    DEF BufferOK, ResumeThread, fileVars, historyVars
  <2>5. HistoryOK'
    BY <1>t, <1>16, <2>a, <2>n
    DEF HistoryOK, ResumeThread, fileVars, historyVars
  <2>6. NumberingInv'
    <3>1. nextSeq' = Len(lines') + 1 /\ ops' = ops /\ Len(lines') \in Nat
      BY <2>a, <1>16 DEF ResumeThread
    <3>2. ops = <<>>
      BY <1>16, <1>t DEF ResumeThread, QueueInv
    <3> QED
      BY <2>n, <3>1, <3>2 DEF NumberingInv
  <2>7. QueueInv'
    BY <1>t, <1>16
    DEF QueueInv, Live, ResumeThread, fileVars, historyVars
  <2> QED
    BY <2>1, <2>2, <2>3, <2>4, <2>5, <2>6, <2>7 DEF AllOK
<1>17. CASE ResumeFails
  <2>a. lines' \in Seq(Seq(Units)) /\ tail' \in Seq(Units)
    BY <1>17, RepairType DEF ResumeFails
  <2>1. FlagsOK'
    BY <1>t, <1>17
    DEF FlagsOK, ResumeFails, fileVars, historyVars
  <2>2. FileOK'
    <3>0. synced \in [lines : Nat, tail : Nat]
      BY <1>t DEF FileOK
    <3>3. Len(lines') \in Nat
      BY <2>a
    <3>4. [synced EXCEPT !.tail = 0] \in [lines : Nat, tail : Nat]
      BY <3>0
    <3>2. \/ UNCHANGED synced
          \/ synced' = [lines |-> Len(lines'), tail |-> 0]
          \/ synced' = [synced EXCEPT !.tail = 0]
      BY <1>17 DEF ResumeFails, CutTail
    <3>1. synced' \in [lines : Nat, tail : Nat]
      BY <3>0, <3>2, <3>3, <3>4
    <3> QED
      BY <3>1, <2>a DEF FileOK
  <2>3. QueueOK'
    BY <1>t, <1>17
    DEF QueueOK, ResumeFails, fileVars, historyVars
  <2>4. BufferOK'
    BY <1>t, <1>17
    DEF BufferOK, ResumeFails, fileVars, historyVars
  <2>5. HistoryOK'
    BY <1>t, <1>17
    DEF HistoryOK, ResumeFails, fileVars, historyVars
  <2>6. NumberingInv'
    BY <1>t, <1>17
    DEF NumberingInv, ResumeFails, fileVars, historyVars
  <2>7. QueueInv'
    BY <1>t, <1>17
    DEF QueueInv, Live, ResumeFails, fileVars, historyVars
  <2> QED
    BY <2>1, <2>2, <2>3, <2>4, <2>5, <2>6, <2>7 DEF AllOK
<1>18. CASE UNCHANGED vars
  <2>1. FlagsOK'
    BY <1>t, <1>18
    DEF FlagsOK, vars, fileVars, historyVars
  <2>2. FileOK'
    BY <1>t, <1>18
    DEF FileOK, vars, fileVars, historyVars
  <2>3. QueueOK'
    BY <1>t, <1>18
    DEF QueueOK, vars, fileVars, historyVars
  <2>4. BufferOK'
    BY <1>t, <1>18
    DEF BufferOK, vars, fileVars, historyVars
  <2>5. HistoryOK'
    BY <1>t, <1>18
    DEF HistoryOK, vars, fileVars, historyVars
  <2>6. NumberingInv'
    BY <1>t, <1>18
    DEF NumberingInv, vars, fileVars, historyVars
  <2>7. QueueInv'
    BY <1>t, <1>18
    DEF QueueInv, Live, vars, fileVars, historyVars
  <2> QED
    BY <2>1, <2>2, <2>3, <2>4, <2>5, <2>6, <2>7 DEF AllOK
<1> QED
  BY <1>1, <1>2, <1>3, <1>4, <1>5, <1>6, <1>7, <1>8, <1>9, <1>10, <1>11, <1>12,
     <1>13, <1>14, <1>15, <1>16, <1>17, <1>18 DEF Next, Calls, OpStep

\* In every reachable state the variables hold the kinds of values the code
\* declares: LiveWriter, PendingWrite, the queue and the file.
THEOREM TypeCorrect == Spec => []TypeOK
<1>1. AllOK => TypeOK
  BY TypeParts
<1> QED
  BY <1>1, InitType, NextType, PTL DEF Spec
=============================================================================
