--------------------- MODULE RolloutWriterSafety_proof ----------------------
(***************************************************************************)
(* WriterInv is an invariant of RolloutWriter, and with it the safety      *)
(* properties of the writer, for every line length and every bound; and    *)
(* the writer implements RolloutLog.                                       *)
(***************************************************************************)
EXTENDS RolloutWriter_proof

IInv == AllOK /\ WriterInv

-----------------------------------------------------------------------------
(* Lines, chunks of lines, and what tells two of them apart.               *)

\* The first k units of a line.
LEMMA HeadChunk ==
  ASSUME NEW r \in Records, NEW k \in 0 .. LineLen
  PROVE  /\ Chunk(r, 1, k) \in Seq(Units) /\ Len(Chunk(r, 1, k)) = k
         /\ \A i \in 1 .. k : Chunk(r, 1, k)[i] = Unit(r, i)
<1> USE LineLenAssumption DEF LineLenAssumption
<1>1. 1 \in 1 .. LineLen /\ 1 - 1 <= k /\ k - 1 + 1 = k
  OBVIOUS
<1>2. /\ Chunk(r, 1, k) \in Seq(Units) /\ Len(Chunk(r, 1, k)) = k - 1 + 1
      /\ \A i \in 1 .. k - 1 + 1 : Chunk(r, 1, k)[i] = Unit(r, 1 + i - 1)
  BY <1>1, ChunkType
<1>3. ASSUME NEW i \in 1 .. k PROVE Chunk(r, 1, k)[i] = Unit(r, i)
  <2>1. i \in 1 .. k - 1 + 1 /\ 1 + i - 1 = i
    BY <1>1
  <2> QED
    BY <2>1, <1>2
<1> QED
  BY <1>1, <1>2, <1>3

\* A whole line, the record it stands for, and nothing else.
LEMMA LineFacts ==
  ASSUME NEW r \in Records
  PROVE  /\ LineOf(r) \in Seq(Units) /\ Len(LineOf(r)) = LineLen
         /\ \A i \in 1 .. LineLen : LineOf(r)[i] = Unit(r, i)
         /\ LineOf(r) # <<>> /\ RecordOf(LineOf(r)) = r
         /\ IsRecordLine(LineOf(r))
<1> USE LineLenAssumption DEF LineLenAssumption
<1>1. /\ LineOf(r) \in Seq(Units) /\ Len(LineOf(r)) = LineLen
      /\ \A i \in 1 .. LineLen : LineOf(r)[i] = Unit(r, i)
  BY HeadChunk DEF LineOf
<1>2. LineOf(r)[1] = Unit(r, 1) /\ LineOf(r) # <<>>
  BY <1>1
<1>3. LineOf(r)[1].rec = r
  BY <1>2 DEF Unit
<1> QED
  BY <1>1, <1>2, <1>3 DEF RecordOf, IsRecordLine

LEMMA ChunkEmpty == ASSUME NEW r \in Records PROVE Chunk(r, 1, 0) = <<>>
<1>1. Chunk(r, 1, 0) \in Seq(Units) /\ Len(Chunk(r, 1, 0)) = 0
  BY HeadChunk, LineLenAssumption DEF LineLenAssumption
<1> QED
  BY <1>1, EmptySeq

LEMMA ChunkGrow ==
  ASSUME NEW r \in Records, NEW k \in 0 .. LineLen - 1, NEW n \in 0 .. LineLen - k
  PROVE  Chunk(r, 1, k) \o Chunk(r, k + 1, k + n) = Chunk(r, 1, k + n)
<1> USE LineLenAssumption DEF LineLenAssumption
<1> DEFINE a == Chunk(r, 1, k)
           b == Chunk(r, k + 1, k + n)
           c == Chunk(r, 1, k + n)
<1>1. /\ a \in Seq(Units) /\ Len(a) = k
      /\ \A i \in 1 .. k : a[i] = Unit(r, i)
  BY HeadChunk
<1>2. k + 1 \in 1 .. LineLen /\ k + n \in 0 .. LineLen /\ (k + 1) - 1 <= k + n
  OBVIOUS
<1>3. /\ b \in Seq(Units) /\ Len(b) = (k + n) - (k + 1) + 1
      /\ \A i \in 1 .. (k + n) - (k + 1) + 1 : b[i] = Unit(r, (k + 1) + i - 1)
  BY <1>2, ChunkType
<1>4. /\ c \in Seq(Units) /\ Len(c) = k + n
      /\ \A i \in 1 .. k + n : c[i] = Unit(r, i)
  BY <1>2, HeadChunk
<1>5. Len(b) = n /\ \A i \in 1 .. n : b[i] = Unit(r, k + i)
  <2>1. (k + n) - (k + 1) + 1 = n
    OBVIOUS
  <2>2. ASSUME NEW i \in 1 .. n PROVE b[i] = Unit(r, k + i)
    <3>1. i \in 1 .. (k + n) - (k + 1) + 1 /\ (k + 1) + i - 1 = k + i
      BY <2>1
    <3> QED
      BY <3>1, <1>3
  <2> QED
    BY <2>1, <2>2, <1>3
<1> HIDE DEF a, b, c
<1>6. /\ a \o b \in Seq(Units) /\ Len(a \o b) = k + n
      /\ \A i \in 1 .. k + n : (a \o b)[i] = IF i <= k THEN a[i] ELSE b[i - k]
  BY ZenonT(30), <1>1, <1>3, <1>5, ConcatProperties
<1>7. ASSUME NEW i \in 1 .. k + n PROVE (a \o b)[i] = c[i]
  <2>1. CASE i <= k
    BY <2>1, <1>1, <1>4, <1>6
  <2>2. CASE i > k
    <3>1. i - k \in 1 .. n /\ k + (i - k) = i
      BY <2>2
    <3>2. b[i - k] = Unit(r, i)
      BY <3>1, <1>5
    <3>3. (a \o b)[i] = b[i - k]
      BY <2>2, <1>6
    <3>4. c[i] = Unit(r, i)
      BY <1>4
    <3> QED
      BY <3>2, <3>3, <3>4
  <2>3. i <= k \/ i > k
    OBVIOUS
  <2> QED
    BY <2>1, <2>2, <2>3
<1>8. a \o b = c
  BY <1>4, <1>6, <1>7, SeqEqual
<1> QED
  BY <1>8 DEF a, b, c

LEMMA ChunkNewline ==
  ASSUME NEW r \in Records
  PROVE  Append(Chunk(r, 1, LineLen - 1), Unit(r, LineLen)) = LineOf(r)
<1> USE LineLenAssumption DEF LineLenAssumption
<1> DEFINE a == Chunk(r, 1, LineLen - 1)
           b == Append(a, Unit(r, LineLen))
<1>1. /\ a \in Seq(Units) /\ Len(a) = LineLen - 1
      /\ \A i \in 1 .. LineLen - 1 : a[i] = Unit(r, i)
  BY HeadChunk
<1>2. Unit(r, LineLen) \in Units
  BY NewlineType
<1> HIDE DEF a
<1>3. /\ b \in Seq(Units) /\ Len(b) = LineLen
      /\ \A i \in 1 .. LineLen : b[i] = Unit(r, i)
  BY <1>1, <1>2
<1> HIDE DEF b
<1>4. b = LineOf(r)
  BY <1>3, LineFacts, SeqEqual
<1> QED
  BY <1>4 DEF a, b

LEMMA ChunkPrefix ==
  ASSUME NEW r \in Records, NEW m \in 0 .. LineLen, NEW k \in 0 .. m
  PROVE  SubSeq(Chunk(r, 1, m), 1, k) = Chunk(r, 1, k)
<1> USE LineLenAssumption DEF LineLenAssumption
<1> DEFINE a == Chunk(r, 1, m)
           c == Chunk(r, 1, k)
<1>1. /\ a \in Seq(Units) /\ Len(a) = m
      /\ \A i \in 1 .. m : a[i] = Unit(r, i)
  BY HeadChunk
<1>2. /\ c \in Seq(Units) /\ Len(c) = k
      /\ \A i \in 1 .. k : c[i] = Unit(r, i)
  BY HeadChunk
<1> HIDE DEF a, c
<1>3. /\ SubSeq(a, 1, k) \in Seq(Units) /\ Len(SubSeq(a, 1, k)) = k
      /\ \A i \in 1 .. k : SubSeq(a, 1, k)[i] = Unit(r, i)
  BY <1>1
<1>4. SubSeq(a, 1, k) = c
  BY <1>2, <1>3, SeqEqual
<1> QED
  BY <1>4 DEF a, c

\* The line of one record ends with the line of another only if they are one.
LEMMA EndsWithLine ==
  ASSUME NEW r \in Records, NEW s \in Records
  PROVE  EndsWith(LineOf(r), LineOf(s)) <=> r = s
<1> USE LineLenAssumption DEF LineLenAssumption
<1>1. /\ LineOf(r) \in Seq(Units) /\ Len(LineOf(r)) = LineLen
      /\ LineOf(s) \in Seq(Units) /\ Len(LineOf(s)) = LineLen
  BY LineFacts
<1>2. SubSeq(LineOf(r), LineLen - LineLen + 1, LineLen) = LineOf(r)
  BY <1>1, SubSeqFull
<1>3. EndsWith(LineOf(r), LineOf(s)) <=> LineOf(r) = LineOf(s)
  BY <1>1, <1>2 DEF EndsWith
<1> QED
  BY <1>3, LineFacts

-----------------------------------------------------------------------------
(* What the invariant says of the head of the retry buffer, and what each  *)
(* kind of write, reconciliation and repair makes of the file.             *)

LEMMA IInvFacts ==
  ASSUME IInv
  PROVE  /\ lines \in Seq(Seq(Units)) /\ tail \in Seq(Units) /\ Len(lines) \in Nat
         /\ numbered \in Seq(Records) /\ Len(numbered) = nextSeq - 1
         /\ pending \in Seq(Records) /\ Len(pending) \in Nat
         /\ promised \in Seq(Records) /\ Len(promised) \in Nat
         /\ nextSeq \in Nat \ {0} /\ Len(numbered) \in Nat
         /\ offset \in 0 .. LineLen - 1 /\ Len(tail) \in 0 .. LineLen - 1
         /\ synced.lines \in Nat /\ ops \in Seq(OpRecords)
BY LineLenAssumption DEF IInv, AllOK, WriterInv, FileOK, BufferOK, HistoryOK, QueueOK,
     NumberingInv, FileInv, LineLenAssumption

\* The head of the buffer is the next record of the file, or, after a failed
\* write, its last one.
LEMMA HeadOfBuffer ==
  ASSUME IInv, Draining
  PROVE  /\ Live /\ pending[1] \in Records /\ Len(pending) >= 1
         /\ \/ /\ Len(numbered) - Len(pending) = Len(lines)
               /\ pending[1] = numbered[Len(lines) + 1]
               /\ Len(lines) < Len(numbered)
               /\ tail = Chunk(pending[1], 1, Len(tail))
               /\ needsRecovery \/ offset = Len(tail)
            \/ /\ needsRecovery /\ tail = <<>>
               /\ Len(numbered) - Len(pending) + 1 = Len(lines)
               /\ lines # <<>> /\ Last(lines) = LineOf(pending[1])
<1>1. pending # <<>> /\ ops # <<>>
  BY DEF Draining
<1>2. Live
  BY <1>1 DEF IInv, WriterInv, QueueInv
<1>3. Len(pending) >= 1 /\ pending[1] \in Records /\ 1 \in DOMAIN pending
  BY <1>1, IInvFacts
<1>4. pending[1] = numbered[Len(numbered) - Len(pending) + 1]
  BY <1>3 DEF IInv, WriterInv, BufferInv
<1>5. CASE /\ Len(numbered) - Len(pending) = Len(lines)
           /\ needsRecovery \/ offset = Len(tail)
  <2>1. pending[1] = numbered[Len(lines) + 1] /\ Len(lines) < Len(numbered)
    BY <1>3, <1>4, <1>5, IInvFacts
  <2>2. tail = Chunk(pending[1], 1, Len(tail))
    <3>1. CASE tail = <<>>
      BY <3>1, <1>3, ChunkEmpty, EmptySeq
    <3>2. CASE tail # <<>>
      BY <3>2, <2>1 DEF IInv, WriterInv, FileInv
    <3> QED
      BY <3>1, <3>2
  <2> QED
    BY <1>2, <1>3, <1>5, <2>1, <2>2
<1>6. CASE /\ needsRecovery /\ tail = <<>>
           /\ Len(numbered) - Len(pending) + 1 = Len(lines)
  <2>1. Len(lines) \in DOMAIN lines /\ lines # <<>>
    <3>1. Len(pending) <= Len(numbered)
      BY DEF IInv, WriterInv, BufferInv
    <3>2. Len(lines) \in 1 .. Len(lines)
      BY <3>1, <1>6, IInvFacts
    <3> QED
      BY <3>2, IInvFacts, EmptySeq
  <2>2. lines[Len(lines)] = LineOf(numbered[Len(lines)])
    BY <2>1 DEF IInv, WriterInv, FileInv
  <2> QED
    BY <1>2, <1>3, <1>4, <1>6, <2>1, <2>2 DEF Last
<1> QED
  BY <1>2, <1>5, <1>6 DEF IInv, WriterInv, BufferInv

\* Appending the next record's line, or a torn part of it, keeps FileInv.
LEMMA FileGrows ==
  ASSUME IInv, UNCHANGED numbered, Len(lines) < Len(numbered),
         lines' = Append(lines, LineOf(numbered[Len(lines) + 1])), tail' = <<>>
  PROVE  FileInv' /\ Len(lines') = Len(lines) + 1
<1> USE LineLenAssumption DEF LineLenAssumption
<1> DEFINE line == LineOf(numbered[Len(lines) + 1])
<1>1. line \in Seq(Units)
  BY IInvFacts, LineFacts
<1> HIDE DEF line
<1>2. /\ Len(lines') = Len(lines) + 1
      /\ \A i \in 1 .. Len(lines) : lines'[i] = lines[i]
      /\ lines'[Len(lines) + 1] = line /\ DOMAIN lines' = 1 .. Len(lines) + 1
  BY <1>1, IInvFacts DEF line
<1>3. ASSUME NEW i \in DOMAIN lines' PROVE lines'[i] = LineOf(numbered'[i])
  <2>1. CASE i = Len(lines) + 1
    BY <2>1, <1>2 DEF line
  <2>2. CASE i \in 1 .. Len(lines)
    <3>1. i \in DOMAIN lines
      BY <2>2, IInvFacts
    <3>2. lines[i] = LineOf(numbered[i])
      BY <3>1 DEF IInv, WriterInv, FileInv
    <3> QED
      BY <2>2, <3>2, <1>2
  <2>3. i = Len(lines) + 1 \/ i \in 1 .. Len(lines)
    BY SMTT(30), <1>2, IInvFacts
  <2> QED
    BY <2>1, <2>2, <2>3
<1>4. Len(lines') <= Len(numbered')
  BY <1>2, IInvFacts
<1>5. Len(tail') < LineLen
  BY EmptySeq
<1> QED
  BY <1>2, <1>3, <1>4, <1>5 DEF FileInv

LEMMA TailChanges ==
  ASSUME IInv, UNCHANGED <<lines, numbered>>, Len(tail') < LineLen,
         \/ tail' = <<>>
         \/ /\ Len(lines) < Len(numbered)
            /\ tail' = Chunk(numbered[Len(lines) + 1], 1, Len(tail'))
  PROVE  FileInv'
BY DEF IInv, WriterInv, FileInv

\* A write of n units of the head: the line is complete, or the tail longer.
LEMMA PutUnitsFile ==
  ASSUME IInv, Draining, ~needsRecovery, NEW n \in 0 .. LineLen - offset,
         PutUnits(n), UNCHANGED numbered
  PROVE  /\ FileInv'
         /\ offset + n = LineLen => Len(lines') = Len(lines) + 1 /\ tail' = <<>>
         /\ offset + n # LineLen => UNCHANGED lines /\ Len(tail') = offset + n
<1> USE LineLenAssumption DEF LineLenAssumption
<1>1. /\ pending[1] \in Records /\ pending[1] = numbered[Len(lines) + 1]
      /\ Len(lines) < Len(numbered)
      /\ tail = Chunk(pending[1], 1, offset) /\ offset \in 0 .. LineLen - 1
      /\ Len(numbered) - Len(pending) = Len(lines)
  BY HeadOfBuffer, IInvFacts
<1>2. offset + n \in 0 .. LineLen
  BY <1>1
<1>3. tail \o Chunk(pending[1], offset + 1, offset + n)
        = Chunk(pending[1], 1, offset + n)
  BY <1>1, ChunkGrow
<1>4. CASE offset + n = LineLen
  <2>1. lines' = Append(lines, LineOf(numbered[Len(lines) + 1])) /\ tail' = <<>>
    BY <1>1, <1>3, <1>4 DEF PutUnits, LineOf
  <2> QED
    BY <2>1, <1>1, <1>4, FileGrows
<1>5. CASE offset + n # LineLen
  <2>1. lines' = lines /\ tail' = Chunk(pending[1], 1, offset + n)
    BY <1>3, <1>5 DEF PutUnits
  <2>2. Len(tail') = offset + n
    BY <2>1, <1>1, <1>2, HeadChunk
  <2>3. Len(tail') < LineLen
    BY <2>2, <1>2, <1>5
  <2>4. tail' = Chunk(numbered[Len(lines) + 1], 1, Len(tail'))
    BY <2>1, <2>2, <1>1
  <2> QED
    BY <2>1, <2>2, <2>3, <2>4, <1>1, <1>5, TailChanges
<1> QED
  BY <1>4, <1>5

\* The head was in the file, or is now: it no longer counts as unwritten.
LEMMA CommittedFile ==
  ASSUME IInv, Draining, needsRecovery, UNCHANGED numbered,
         \/ /\ tail = <<>> /\ lines # <<>>
            /\ EndsWith(Last(lines), LineOf(pending[1]))
            /\ UNCHANGED <<lines, tail>>
         \/ /\ tail = Chunk(pending[1], 1, LineLen - 1)
            /\ lines' = Append(lines, Append(tail, Unit(pending[1], LineLen)))
            /\ tail' = <<>>
  PROVE  /\ FileInv' /\ tail' = <<>>
         /\ Len(numbered) - Len(pending) + 1 = Len(lines')
         /\ Len(lines') \in Nat /\ Len(lines) <= Len(lines')
<1> USE LineLenAssumption DEF LineLenAssumption
<1>1. CASE /\ tail = <<>> /\ lines # <<>>
           /\ EndsWith(Last(lines), LineOf(pending[1]))
           /\ UNCHANGED <<lines, tail>>
  <2>1. FileInv'
    BY <1>1, TailChanges, IInvFacts, EmptySeq
  <2>2. Len(numbered) - Len(pending) # Len(lines)
    <3> SUFFICES ASSUME Len(numbered) - Len(pending) = Len(lines) PROVE FALSE
      OBVIOUS
    <3>1. pending[1] = numbered[Len(lines) + 1] /\ pending[1] \in Records
          /\ Len(lines) < Len(numbered)
      BY HeadOfBuffer, IInvFacts
    <3>2. Len(lines) \in DOMAIN lines /\ Len(lines) \in DOMAIN numbered
          /\ Len(lines) + 1 \in DOMAIN numbered
      BY <1>1, <3>1, IInvFacts, EmptySeq
    <3>3. Last(lines) = LineOf(numbered[Len(lines)]) /\ numbered[Len(lines)] \in Records
      <4>1. lines[Len(lines)] = LineOf(numbered[Len(lines)])
        BY <3>2 DEF IInv, WriterInv, FileInv
      <4>2. numbered[Len(lines)] \in Records
        BY <3>2, IInvFacts
      <4> QED
        BY <4>1, <4>2 DEF Last
    <3>4. numbered[Len(lines)] = numbered[Len(lines) + 1]
      BY <1>1, <3>1, <3>3, EndsWithLine
    <3>5. numbered[Len(lines)].seq = Len(lines)
          /\ numbered[Len(lines) + 1].seq = Len(lines) + 1
      BY <3>2 DEF IInv, WriterInv, NumberingInv
    <3> QED
      BY <3>4, <3>5, IInvFacts
  <2> QED
    BY <1>1, <2>1, <2>2, HeadOfBuffer, IInvFacts
<1>2. CASE /\ tail = Chunk(pending[1], 1, LineLen - 1)
           /\ lines' = Append(lines, Append(tail, Unit(pending[1], LineLen)))
           /\ tail' = <<>>
  <2>1. tail # <<>>
    <3>1. pending[1] \in Records
      BY HeadOfBuffer
    <3>2. Len(tail) = LineLen - 1
      BY <3>1, <1>2, HeadChunk
    <3> QED
      BY <3>2, EmptySeq
  <2>2. /\ pending[1] = numbered[Len(lines) + 1] /\ pending[1] \in Records
        /\ Len(lines) < Len(numbered)
        /\ Len(numbered) - Len(pending) = Len(lines)
    BY <2>1, HeadOfBuffer
  <2>3. lines' = Append(lines, LineOf(numbered[Len(lines) + 1]))
    BY <1>2, <2>2, ChunkNewline
  <2>4. FileInv' /\ Len(lines') = Len(lines) + 1
    BY <2>2, <2>3, <1>2, FileGrows
  <2> QED
    BY SMTT(30), <2>2, <2>4, <1>2, IInvFacts
<1> QED
  BY <1>1, <1>2

\* Nothing of the head is in the file any more.
LEMMA AbsentFile ==
  ASSUME IInv, Draining, needsRecovery, TailAbsent, UNCHANGED numbered
  PROVE  /\ FileInv' /\ tail' = <<>> /\ UNCHANGED lines
         /\ Len(numbered) - Len(pending) = Len(lines)
         /\ synced'.lines = synced.lines
<1> USE LineLenAssumption DEF LineLenAssumption
<1>1. tail' = <<>> /\ UNCHANGED lines /\ synced'.lines = synced.lines
  <2>1. synced \in [lines : Nat, tail : Nat]
    BY DEF IInv, AllOK, FileOK
  <2> QED
    BY <2>1 DEF TailAbsent
<1>2. FileInv'
  BY <1>1, TailChanges, EmptySeq
<1>3. Len(numbered) - Len(pending) = Len(lines)
  <2> SUFFICES ASSUME Len(numbered) - Len(pending) # Len(lines) PROVE FALSE
    OBVIOUS
  <2>1. tail = <<>> /\ lines # <<>> /\ Last(lines) = LineOf(pending[1])
        /\ pending[1] \in Records
    BY HeadOfBuffer
  <2>2. EndsWith(Last(lines), LineOf(pending[1]))
    BY <2>1, EndsWithLine
  <2> QED
    BY <2>1, <2>2 DEF TailAbsent
<1> QED
  BY <1>1, <1>2, <1>3

\* The repair of the tail completes the next record's line or cuts it off.
LEMMA RepairedFile ==
  ASSUME IInv, CompleteTail \/ CutTail, UNCHANGED numbered
  PROVE  /\ FileInv' /\ tail' = <<>> /\ Len(lines') \in Nat
         /\ Len(lines) <= Len(lines')
         /\ CutTail => UNCHANGED lines /\ synced'.lines = synced.lines
<1> USE LineLenAssumption DEF LineLenAssumption
<1>1. CASE CompleteTail
  <2>1. /\ tail # <<>> /\ tail = Chunk(tail[1].rec, 1, LineLen - 1)
        /\ lines' = Append(lines, Append(tail, Unit(tail[1].rec, LineLen)))
        /\ tail' = <<>>
    BY <1>1 DEF CompleteTail, Parses
  <2> DEFINE r == numbered[Len(lines) + 1]
  <2>2. Len(lines) < Len(numbered) /\ tail = Chunk(r, 1, Len(tail))
    BY <2>1 DEF IInv, WriterInv, FileInv
  <2>3. r \in Records
    BY <2>2, IInvFacts
  <2>4. Len(tail) \in 1 .. LineLen - 1
    BY <2>1, IInvFacts, EmptySeq
  <2> HIDE DEF r
  <2>5. tail[1] = Unit(r, 1)
    BY <2>2, <2>3, <2>4, HeadChunk
  <2>6. tail[1].rec = r
    BY <2>5 DEF Unit
  <2>7. Append(tail, Unit(r, LineLen)) = LineOf(r)
    BY <2>1, <2>3, <2>6, ChunkNewline
  <2>8. lines' = Append(lines, LineOf(numbered[Len(lines) + 1]))
    BY <2>1, <2>6, <2>7 DEF r
  <2>9. FileInv' /\ Len(lines') = Len(lines) + 1
    BY <2>1, <2>2, <2>8, FileGrows
  <2>10. ~CutTail
    BY <1>1 DEF CompleteTail, CutTail
  <2> QED
    BY <2>1, <2>9, <2>10, IInvFacts
<1>2. CASE CutTail
  <2>1. synced \in [lines : Nat, tail : Nat]
    BY DEF IInv, AllOK, FileOK
  <2>2. tail' = <<>> /\ UNCHANGED lines /\ synced'.lines = synced.lines
    BY <1>2, <2>1 DEF CutTail
  <2>3. FileInv'
    BY <2>2, TailChanges, EmptySeq
  <2> QED
    BY <2>2, <2>3, IInvFacts
<1> QED
  BY <1>1, <1>2

LEMMA PrefixFacts ==
  ASSUME NEW S, NEW s \in Seq(S), NEW n \in 0 .. Len(s)
  PROVE  /\ SubSeq(s, 1, n) \in Seq(S) /\ Len(SubSeq(s, 1, n)) = n
         /\ DOMAIN SubSeq(s, 1, n) = 1 .. n
         /\ \A i \in 1 .. n : i \in DOMAIN s /\ SubSeq(s, 1, n)[i] = s[i]
OBVIOUS

\* A power loss keeps a prefix of the file that includes what was synced.
LEMMA CutFile ==
  ASSUME IInv, PowerLoss
  PROVE  /\ FileInv' /\ Len(lines') \in Nat /\ Len(lines') <= Len(lines)
         /\ synced.lines <= Len(lines') /\ synced'.lines = Len(lines')
<1> USE LineLenAssumption DEF LineLenAssumption
<1>1. PICK n \in synced.lines .. Len(lines) :
        LET rest == IF n < Len(lines) THEN lines[n + 1] ELSE tail
            least == IF n = synced.lines THEN synced.tail ELSE 0 IN
        \E k \in least .. Len(rest) :
          /\ n < Len(lines) => k < Len(rest)
          /\ lines' = SubSeq(lines, 1, n)
          /\ tail' = SubSeq(rest, 1, k)
          /\ synced' = [lines |-> n, tail |-> k]
  BY DEF PowerLoss
<1> DEFINE rest == IF n < Len(lines) THEN lines[n + 1] ELSE tail
           least == IF n = synced.lines THEN synced.tail ELSE 0
<1>2. PICK k \in least .. Len(rest) :
          /\ n < Len(lines) => k < Len(rest)
          /\ lines' = SubSeq(lines, 1, n)
          /\ tail' = SubSeq(rest, 1, k)
          /\ synced' = [lines |-> n, tail |-> k]
  BY <1>1
<1>3. n \in 0 .. Len(lines) /\ synced.lines <= n /\ UNCHANGED numbered
  BY SMTT(30), IInvFacts DEF PowerLoss, DropWriter
<1>4. least \in Nat
  BY DEF IInv, AllOK, FileOK
<1>5. /\ Len(lines') = n /\ DOMAIN lines' = 1 .. n
      /\ \A i \in 1 .. n : i \in DOMAIN lines /\ lines'[i] = lines[i]
  <2>1. lines' = SubSeq(lines, 1, n) /\ lines \in Seq(Seq(Units))
    BY <1>2, IInvFacts
  <2> QED
    BY <2>1, <1>3, PrefixFacts
<1> DEFINE r == numbered[n + 1]
<1>6. ASSUME n < Len(lines) \/ tail # <<>>
      PROVE  /\ r \in Records /\ n < Len(numbered)
             /\ rest = Chunk(r, 1, Len(rest)) /\ Len(rest) \in 0 .. LineLen
             /\ k < LineLen
  <2>1. CASE n < Len(lines)
    <3>1. n + 1 \in DOMAIN lines /\ rest = lines[n + 1]
      BY SMTT(30), <2>1, <1>3, IInvFacts
    <3>2. rest = LineOf(r) /\ Len(lines) <= Len(numbered)
      BY <3>1 DEF IInv, WriterInv, FileInv
    <3>3. r \in Records /\ n < Len(numbered)
      BY <3>2, <2>1, <1>3, IInvFacts
    <3> HIDE DEF rest, r
    <3>4. Len(rest) = LineLen
      BY <3>2, <3>3, LineFacts
    <3> QED
      BY <3>2, <3>3, <3>4, <2>1, <1>2 DEF LineOf
  <2>2. CASE ~(n < Len(lines))
    <3>1. n = Len(lines) /\ tail # <<>> /\ rest = tail
      BY <2>2, <1>3, <1>6, IInvFacts
    <3>2. n < Len(numbered) /\ rest = Chunk(r, 1, Len(rest)) /\ Len(rest) < LineLen
      BY <3>1 DEF IInv, WriterInv, FileInv
    <3>3. r \in Records
      BY <3>2, <1>3, IInvFacts
    <3>4. Len(rest) \in 0 .. LineLen - 1
      BY <3>1, IInvFacts
    <3> HIDE DEF rest, r
    <3>5. k < LineLen
      BY <3>4, <1>2, <1>4
    <3> QED
      BY <3>2, <3>3, <3>4, <3>5
  <2> QED
    BY <2>1, <2>2
<1>7. /\ Len(tail') < LineLen
      /\ tail' # <<>> => n < Len(numbered) /\ tail' = Chunk(r, 1, Len(tail'))
  <2>1. CASE n < Len(lines) \/ tail # <<>>
    <3> HIDE DEF rest, r, least
    <3>1. k \in 0 .. Len(rest) /\ k \in 0 .. LineLen
      BY <1>4, <1>6, <2>1
    <3>2. tail' = Chunk(r, 1, k)
      BY <3>1, <1>2, <1>6, <2>1, ChunkPrefix
    <3>3. Len(tail') = k
      BY <3>1, <3>2, <1>6, <2>1, HeadChunk
    <3> QED
      BY <3>1, <3>2, <3>3, <1>6, <2>1
  <2>2. CASE ~(n < Len(lines) \/ tail # <<>>)
    <3>1. rest = <<>> /\ Len(rest) = 0
      BY <2>2, EmptySeq
    <3>2. tail' = <<>>
      BY <3>1, <1>2, <1>4, SubSeqEmpty
    <3> QED
      BY <3>2, EmptySeq
  <2> QED
    BY <2>1, <2>2
<1>8. ASSUME NEW i \in DOMAIN lines' PROVE lines'[i] = LineOf(numbered'[i])
  <2>1. i \in DOMAIN lines /\ lines'[i] = lines[i]
    BY <1>5
  <2>2. lines[i] = LineOf(numbered[i])
    BY <2>1 DEF IInv, WriterInv, FileInv
  <2> QED
    BY <2>1, <2>2, <1>3
<1>9. Len(lines') <= Len(numbered')
  BY <1>3, <1>5, IInvFacts DEF IInv, WriterInv, FileInv
<1>10. FileInv'
  BY <1>3, <1>5, <1>7, <1>8, <1>9 DEF FileInv
<1> QED
  BY SMTT(30), <1>2, <1>3, <1>5, <1>10, IInvFacts

-----------------------------------------------------------------------------
(* The batch of an append, and the buffer without its head.                *)

LEMMA AppendFacts ==
  ASSUME IInv, NEW n \in 1 .. 2, AppendItems(n)
  PROVE  /\ Len(numbered') = Len(numbered) + n /\ Len(pending') = Len(pending) + n
         /\ \A i \in 1 .. Len(numbered) : numbered'[i] = numbered[i]
         /\ \A i \in 1 .. Len(pending) : pending'[i] = pending[i]
         /\ \A i \in 1 .. n : /\ pending'[Len(pending) + i] = numbered'[Len(numbered) + i]
                              /\ numbered'[Len(numbered) + i].seq = nextSeq + i - 1
         /\ numbered' \in Seq(Records) /\ pending' \in Seq(Records)
<1> DEFINE batch == [i \in 1 .. n |-> [seq |-> nextSeq + i - 1, gen |-> gen]]
<1>1. /\ batch \in Seq(Records) /\ Len(batch) = n
      /\ \A i \in 1 .. n : batch[i].seq = nextSeq + i - 1
  BY DEF IInv, AllOK, BufferOK, Records
<1>2. pending' = pending \o batch /\ numbered' = numbered \o batch
  BY DEF AppendItems
<1> HIDE DEF batch
<1>3. /\ numbered' \in Seq(Records) /\ Len(numbered') = Len(numbered) + n
      /\ \A i \in 1 .. Len(numbered) + n : numbered'[i] =
           IF i <= Len(numbered) THEN numbered[i] ELSE batch[i - Len(numbered)]
  BY ZenonT(30), <1>1, <1>2, IInvFacts, ConcatProperties
<1>4. /\ pending' \in Seq(Records) /\ Len(pending') = Len(pending) + n
      /\ \A i \in 1 .. Len(pending) + n : pending'[i] =
           IF i <= Len(pending) THEN pending[i] ELSE batch[i - Len(pending)]
  BY ZenonT(30), <1>1, <1>2, IInvFacts, ConcatProperties
<1>5. Len(numbered) \in Nat /\ Len(pending) \in Nat
  BY IInvFacts
<1>6. ASSUME NEW i \in 1 .. n
      PROVE  /\ pending'[Len(pending) + i] = numbered'[Len(numbered) + i]
             /\ numbered'[Len(numbered) + i].seq = nextSeq + i - 1
  <2>1. /\ Len(numbered) + i \in 1 .. Len(numbered) + n
        /\ ~(Len(numbered) + i <= Len(numbered))
        /\ (Len(numbered) + i) - Len(numbered) = i
        /\ Len(pending) + i \in 1 .. Len(pending) + n
        /\ ~(Len(pending) + i <= Len(pending))
        /\ (Len(pending) + i) - Len(pending) = i
    BY <1>5
  <2>2. numbered'[Len(numbered) + i] = batch[i]
    BY <2>1, <1>3
  <2>3. pending'[Len(pending) + i] = batch[i]
    BY <2>1, <1>4
  <2> QED
    BY <2>2, <2>3, <1>1
<1>7. /\ \A i \in 1 .. Len(numbered) : numbered'[i] = numbered[i]
      /\ \A i \in 1 .. Len(pending) : pending'[i] = pending[i]
  BY <1>3, <1>4, <1>5
<1> QED
  BY <1>3, <1>4, <1>6, <1>7

LEMMA ShiftFacts ==
  ASSUME IInv, pending # <<>>, pending' = Tail(pending), UNCHANGED numbered
  PROVE  /\ Len(pending') = Len(pending) - 1 /\ Len(pending') \in Nat
         /\ Len(pending') <= Len(numbered')
         /\ \A i \in DOMAIN pending' :
              pending'[i] = numbered'[Len(numbered') - Len(pending') + i]
<1>1. /\ Len(pending') = Len(pending) - 1 /\ pending' \in Seq(Records)
      /\ \A i \in 1 .. Len(pending') : pending'[i] = pending[i + 1]
  BY IInvFacts, HeadTailProperties
<1>2. Len(pending) <= Len(numbered) /\ Len(pending) \in Nat /\ Len(numbered) \in Nat
  BY IInvFacts DEF IInv, WriterInv, BufferInv
<1>3. ASSUME NEW i \in DOMAIN pending'
      PROVE  pending'[i] = numbered'[Len(numbered') - Len(pending') + i]
  <2>1. i \in 1 .. Len(pending')
    BY <1>1, <1>3
  <2>2. i + 1 \in DOMAIN pending
    BY <2>1, <1>1, <1>2, IInvFacts
  <2>3. pending[i + 1] = numbered[Len(numbered) - Len(pending) + (i + 1)]
    BY <2>2 DEF IInv, WriterInv, BufferInv
  <2>4. Len(numbered) - Len(pending) + (i + 1) = Len(numbered) - Len(pending') + i
    BY <2>1, <1>1, <1>2
  <2> QED
    BY <2>1, <2>3, <2>4, <1>1
<1> QED
  BY <1>1, <1>2, <1>3

-----------------------------------------------------------------------------
(* Every step keeps each part of the invariant.                            *)

LEMMA FileNext == ASSUME IInv, [Next]_vars PROVE FileInv'
<1> USE DEF fileVars, historyVars
<1>0. ASSUME UNCHANGED <<lines, tail, numbered>> PROVE FileInv'
  BY <1>0 DEF IInv, WriterInv, FileInv
<1>1. ASSUME NEW n \in 1 .. 2, AppendItems(n) PROVE FileInv'
  <2>1. UNCHANGED <<lines, tail>>
    BY <1>1 DEF AppendItems
  <2>2. Len(lines) <= Len(numbered')
    BY <1>1, AppendFacts, IInvFacts DEF IInv, WriterInv, FileInv
  <2>3. ASSUME NEW i \in DOMAIN lines PROVE lines[i] = LineOf(numbered'[i])
    <3>1. lines[i] = LineOf(numbered[i]) /\ Len(lines) <= Len(numbered)
      BY <2>3 DEF IInv, WriterInv, FileInv
    <3>2. i \in 1 .. Len(lines) /\ Len(lines) \in Nat /\ Len(numbered) \in Nat
      BY <2>3, IInvFacts
    <3>3. i \in 1 .. Len(numbered)
      BY <3>1, <3>2
    <3>4. numbered'[i] = numbered[i]
      BY <3>3, <1>1, AppendFacts
    <3> QED
      BY <3>1, <3>4
  <2>4. tail # <<>> => /\ Len(lines) < Len(numbered')
                       /\ tail = Chunk(numbered'[Len(lines) + 1], 1, Len(tail))
    <3> SUFFICES ASSUME tail # <<>>
                 PROVE  /\ Len(lines) < Len(numbered')
                        /\ tail = Chunk(numbered'[Len(lines) + 1], 1, Len(tail))
      OBVIOUS
    <3>1. /\ Len(lines) < Len(numbered)
          /\ tail = Chunk(numbered[Len(lines) + 1], 1, Len(tail))
      BY DEF IInv, WriterInv, FileInv
    <3>2. Len(lines) + 1 \in 1 .. Len(numbered)
      BY <3>1, IInvFacts
    <3>3. numbered'[Len(lines) + 1] = numbered[Len(lines) + 1]
      BY <3>2, <1>1, AppendFacts
    <3> QED
      BY SMTT(30), <3>1, <3>3, <1>1, AppendFacts, IInvFacts
  <2>5. Len(tail) < LineLen
    BY DEF IInv, WriterInv, FileInv
  <2> QED
    BY <2>1, <2>2, <2>3, <2>4, <2>5 DEF FileInv
<1>2. CASE FlushThread \/ ShutdownThread \/ DiscardThread
  BY <1>0, <1>2 DEF FlushThread, ShutdownThread, DiscardThread
<1>3. ASSUME NEW n \in 1 .. LineLen, WriteChunk(n) PROVE FileInv'
  <2>1. n \in 0 .. LineLen - offset
    BY <1>3, IInvFacts DEF WriteChunk
  <2> QED
    BY <2>1, <1>3, PutUnitsFile DEF WriteChunk
<1>4. ASSUME NEW n \in 0 .. LineLen, WriteFails(n) PROVE FileInv'
  <2>1. UNCHANGED numbered
    BY <1>4 DEF WriteFails, Reject
  <2>2. CASE n = 0
    BY <2>1, <2>2, <1>0, <1>4 DEF WriteFails
  <2>3. CASE n # 0
    BY <2>1, <2>3, <1>4, PutUnitsFile DEF WriteFails
  <2> QED
    BY <2>2, <2>3
<1>5. CASE Recover
  BY <1>5, CommittedFile, AbsentFile DEF Recover, TailCommitted
<1>6. CASE RecoverFails
  <2>1. UNCHANGED numbered
    BY <1>6 DEF RecoverFails, Reject
  <2> QED
    BY <2>1, <1>0, <1>6, CommittedFile, AbsentFile DEF RecoverFails, TailCommitted
<1>7. CASE WriteNothing \/ SyncFails
  BY <1>0, <1>7 DEF WriteNothing, SyncFails, Reject
<1>8. CASE DrainDone \/ Sync \/ FinishDiscard
  BY <1>0, <1>8 DEF DrainDone, Sync, FinishDiscard
<1>9. CASE Crash
  BY <1>0, <1>9 DEF Crash, DropWriter
<1>10. CASE PowerLoss
  BY <1>10, CutFile
<1>11. CASE ResumeThread
  <2>1. /\ lines' \in Seq(Seq(Units)) /\ tail' = <<>> /\ Len(lines') \in Nat
        /\ Readable' /\ numbered' = [i \in DOMAIN lines' |-> RecordOf(lines'[i])]
    BY <1>11, RepairType, EmptySeq DEF ResumeThread, CompleteTail, CutTail, IInv
  <2>2. Len(numbered') = Len(lines')
    BY <2>1
  <2>3. ASSUME NEW i \in DOMAIN lines' PROVE lines'[i] = LineOf(numbered'[i])
    <3>1. lines'[i] = LineOf(RecordOf(lines'[i]))
      BY <2>1, <2>3 DEF Readable, IsRecordLine, RecordOf
    <3> QED
      BY <2>1, <3>1
  <2>4. Len(tail') < LineLen
    BY <2>1, EmptySeq, LineLenAssumption DEF LineLenAssumption
  <2> QED
    BY <2>1, <2>2, <2>3, <2>4 DEF FileInv
<1>12. CASE ResumeFails
  BY <1>12, RepairedFile DEF ResumeFails
<1>13. CASE UNCHANGED vars
  BY <1>0, <1>13 DEF vars
<1> QED
  BY <1>1, <1>2, <1>3, <1>4, <1>5, <1>6, <1>7, <1>8, <1>9, <1>10, <1>11, <1>12,
     <1>13 DEF Next, Calls, OpStep

LEMMA BufferNext == ASSUME IInv, [Next]_vars PROVE BufferInv'
<1> USE DEF fileVars, historyVars
<1>0. ASSUME UNCHANGED <<lines, tail, numbered, pending, offset, needsRecovery>>,
             Live' => Live
      PROVE  BufferInv'
  BY <1>0 DEF IInv, WriterInv, BufferInv
<1>e. ASSUME pending' = <<>>, needsRecovery' = FALSE, ~Live' PROVE BufferInv'
  <2>1. Len(pending') = 0 /\ DOMAIN pending' = {}
    BY <1>e
  <2>2. HistoryOK'
    BY NextType DEF IInv, AllOK
  <2> QED
    BY <2>1, <2>2, <1>e DEF BufferInv, HistoryOK
<1>s. ASSUME pending # <<>>, pending' = Tail(pending), UNCHANGED numbered,
             ~needsRecovery', offset' = Len(tail'),
             Len(numbered) - Len(pending) + 1 = Len(lines')
      PROVE  BufferInv'
  <2>1. Len(numbered') - Len(pending') = Len(lines')
    BY <1>s, ShiftFacts, IInvFacts
  <2> QED
    BY <2>1, <1>s, ShiftFacts DEF BufferInv
<1>1. ASSUME NEW n \in 1 .. 2, AppendItems(n) PROVE BufferInv'
  <2>1. Len(numbered') - Len(pending') = Len(numbered) - Len(pending)
    <3>1. Len(numbered') = Len(numbered) + n /\ Len(pending') = Len(pending) + n
      BY <1>1, AppendFacts
    <3>2. Len(numbered) \in Nat /\ Len(pending) \in Nat
      BY IInvFacts
    <3> QED
      BY <3>1, <3>2
  <2>2. Len(pending) <= Len(numbered) /\ Len(pending) \in Nat /\ Len(numbered) \in Nat
    BY IInvFacts DEF IInv, WriterInv, BufferInv
  <2>3. ASSUME NEW i \in DOMAIN pending'
        PROVE  pending'[i] = numbered'[Len(numbered') - Len(pending') + i]
    <3>1. i \in 1 .. Len(pending) + n
      BY <1>1, AppendFacts, <2>3
    <3>2. CASE i <= Len(pending)
      <4>1. i \in DOMAIN pending /\ i \in 1 .. Len(pending)
        BY <3>1, <3>2, <2>2, IInvFacts
      <4>2. pending[i] = numbered[Len(numbered) - Len(pending) + i]
        BY <4>1 DEF IInv, WriterInv, BufferInv
      <4>3. Len(numbered) - Len(pending) + i \in 1 .. Len(numbered)
        BY <4>1, <2>2
      <4> QED
        BY <4>1, <4>2, <4>3, <2>1, <1>1, AppendFacts
    <3>3. CASE i > Len(pending)
      <4> DEFINE j == i - Len(pending)
      <4>1. j \in 1 .. n /\ i = Len(pending) + j
        BY <3>1, <3>3, <2>2
      <4>2. Len(numbered') - Len(pending') + i = Len(numbered) + j
        BY <4>1, <2>1, <2>2
      <4> HIDE DEF j
      <4> QED
        BY <4>1, <4>2, <1>1, AppendFacts
    <3>4. i <= Len(pending) \/ i > Len(pending)
      BY <3>1, <2>2
    <3> QED
      BY <3>2, <3>3, <3>4
  <2>4. Len(pending') <= Len(numbered')
    BY <1>1, AppendFacts, <2>2
  <2>5. pending' # <<>>
    BY <1>1, AppendFacts, <2>2, EmptySeq
  <2>6. UNCHANGED <<lines, tail, offset, needsRecovery, writer>>
    BY <1>1 DEF AppendItems
  <2>7. Live' = Live
    BY <2>6 DEF Live
  <2> QED
    BY <2>1, <2>3, <2>4, <2>5, <2>6, <2>7 DEF IInv, WriterInv, BufferInv
<1>2. CASE FlushThread \/ ShutdownThread
  BY <1>0, <1>2 DEF FlushThread, ShutdownThread, Live
<1>3. CASE DiscardThread
  BY <1>0, <1>3 DEF DiscardThread, Live
<1>4. ASSUME NEW n \in 1 .. LineLen, WriteChunk(n) PROVE BufferInv'
  <2>1. n \in 0 .. LineLen - offset /\ Draining /\ ~needsRecovery /\ PutUnits(n)
        /\ UNCHANGED <<numbered, needsRecovery, writer>>
    BY <1>4, IInvFacts DEF WriteChunk
  <2>2. Len(numbered) - Len(pending) = Len(lines) /\ pending # <<>>
    BY <2>1, HeadOfBuffer DEF Draining
  <2>3. CASE offset + n = LineLen
    <3>1. Len(lines') = Len(lines) + 1 /\ tail' = <<>>
      BY <2>1, <2>3, PutUnitsFile
    <3>2. pending' = Tail(pending) /\ offset' = 0
      BY <1>4, <2>3 DEF WriteChunk, ShiftPending
    <3> QED
      BY <3>1, <3>2, <2>1, <2>2, <1>s, EmptySeq
  <2>4. CASE offset + n # LineLen
    <3>1. UNCHANGED lines /\ Len(tail') = offset + n
      BY <2>1, <2>4, PutUnitsFile
    <3>2. offset' = offset + n /\ UNCHANGED pending
      BY <1>4, <2>4 DEF WriteChunk
    <3> QED
      BY <3>1, <3>2, <2>1, <2>2 DEF IInv, WriterInv, BufferInv
  <2> QED
    BY <2>3, <2>4
<1>5. ASSUME NEW n \in 0 .. LineLen, WriteFails(n) PROVE BufferInv'
  <2>1. n \in 0 .. LineLen - offset /\ Draining /\ ~needsRecovery
        /\ needsRecovery' = TRUE /\ UNCHANGED <<numbered, pending, writer>>
    BY <1>5 DEF WriteFails, Reject
  <2>2. Len(numbered) - Len(pending) = Len(lines) /\ pending # <<>>
    BY <2>1, HeadOfBuffer DEF Draining
  <2>3. CASE n = 0 \/ offset + n # LineLen
    <3>1. UNCHANGED lines
      BY <2>1, <2>3, <1>5, PutUnitsFile DEF WriteFails
    <3> QED
      BY <3>1, <2>1, <2>2 DEF IInv, WriterInv, BufferInv
  <2>4. CASE n # 0 /\ offset + n = LineLen
    <3>1. Len(lines') = Len(lines) + 1 /\ tail' = <<>>
      BY <2>1, <2>4, <1>5, PutUnitsFile DEF WriteFails
    <3>2. Len(numbered) - Len(pending) + 1 = Len(lines')
      BY <3>1, <2>2
    <3> QED
      BY <3>1, <3>2, <2>1, <2>2 DEF IInv, WriterInv, BufferInv
  <2> QED
    BY <2>3, <2>4
<1>6. CASE Recover
  <2>1. Draining /\ needsRecovery /\ ~needsRecovery' /\ pending # <<>>
        /\ offset' = 0 /\ UNCHANGED <<numbered, writer>>
    BY <1>6 DEF Recover, ShiftPending, Draining
  <2>2. CASE TailCommitted /\ ShiftPending
    <3>1. tail' = <<>> /\ Len(numbered) - Len(pending) + 1 = Len(lines')
      BY <2>1, <2>2, CommittedFile DEF TailCommitted
    <3> QED
      BY <3>1, <2>1, <2>2, <1>s, EmptySeq DEF ShiftPending
  <2>3. CASE TailAbsent /\ UNCHANGED pending
    <3>1. tail' = <<>> /\ UNCHANGED lines /\ Len(numbered) - Len(pending) = Len(lines)
      BY <2>1, <2>3, AbsentFile
    <3> QED
      BY <3>1, <2>1, <2>3, EmptySeq DEF IInv, WriterInv, BufferInv
  <2> QED
    BY <2>2, <2>3, <1>6 DEF Recover
<1>7. CASE RecoverFails
  <2>1. Draining /\ needsRecovery /\ needsRecovery' = needsRecovery /\ pending # <<>>
        /\ UNCHANGED <<numbered, pending, writer>>
    BY <1>7 DEF RecoverFails, Reject, Draining
  <2>2. CASE UNCHANGED <<lines, tail, synced, offset>>
    BY <2>1, <2>2, <1>0 DEF Live
  <2>3. CASE TailAbsent
    <3>1. UNCHANGED lines /\ Len(numbered) - Len(pending) = Len(lines)
      BY <2>1, <2>3, AbsentFile
    <3> QED
      BY <3>1, <2>1 DEF IInv, WriterInv, BufferInv
  <2>4. CASE \/ TailCommitted
             \/ /\ tail = Chunk(pending[1], 1, LineLen - 1)
                /\ lines' = Append(lines, Append(tail, Unit(pending[1], LineLen)))
                /\ tail' = <<>>
    <3>1. tail' = <<>> /\ Len(numbered) - Len(pending) + 1 = Len(lines')
      BY <2>1, <2>4, CommittedFile DEF TailCommitted
    <3> QED
      BY <3>1, <2>1 DEF IInv, WriterInv, BufferInv
  <2> QED
    BY <2>2, <2>3, <2>4, <1>7 DEF RecoverFails
<1>8. CASE WriteNothing \/ SyncFails
  BY <1>0, <1>8 DEF WriteNothing, SyncFails, Reject, Live
<1>9. CASE DrainDone
  BY <1>0, <1>9 DEF DrainDone, Live
<1>10. CASE Sync
  <2>1. Live' => Live
    <3>1. Live
      BY <1>10 DEF IInv, WriterInv, QueueInv, Sync, Running
    <3> QED
      BY <3>1
  <2> QED
    BY <2>1, <1>0, <1>10 DEF Sync
<1>11. CASE FinishDiscard \/ Crash \/ PowerLoss
  BY <1>e, <1>11 DEF FinishDiscard, Crash, PowerLoss, DropWriter, Live
<1>12. CASE ResumeThread
  <2>1. pending' = <<>> /\ offset' = 0 /\ ~needsRecovery'
    <3>1. pending = <<>> /\ offset = 0
      BY <1>12 DEF IInv, WriterInv, SyncInv, ResumeThread
    <3>2. ~needsRecovery
      BY <3>1 DEF IInv, WriterInv, BufferInv
    <3> QED
      BY <3>1, <3>2, <1>12 DEF ResumeThread
  <2>2. tail' = <<>> /\ Len(numbered') = Len(lines') /\ Len(lines') \in Nat
    <3>1. tail' = <<>> /\ lines' \in Seq(Seq(Units))
      BY <1>12, RepairType DEF ResumeThread, CompleteTail, CutTail, IInv
    <3>2. numbered' = [i \in DOMAIN lines' |-> RecordOf(lines'[i])]
      BY <1>12 DEF ResumeThread
    <3> QED
      BY <3>1, <3>2
  <2>3. Len(pending') = 0 /\ DOMAIN pending' = {} /\ Len(tail') = 0
    BY <2>1, <2>2
  <2> QED
    BY <2>1, <2>2, <2>3 DEF BufferInv
<1>13. CASE ResumeFails
  <2>1. ~Live' /\ pending' = <<>> /\ UNCHANGED needsRecovery
    BY <1>13 DEF ResumeFails, IInv, WriterInv, SyncInv, Live
  <2>2. needsRecovery' = FALSE
    BY <2>1, <1>13 DEF ResumeFails, IInv, WriterInv, SyncInv, BufferInv, AllOK, FlagsOK
  <2> QED
    BY <2>1, <2>2, <1>e
<1>14. CASE UNCHANGED vars
  BY <1>0, <1>14 DEF vars, Live
<1> QED
  BY <1>1, <1>2, <1>3, <1>4, <1>5, <1>6, <1>7, <1>8, <1>9, <1>10, <1>11, <1>12,
     <1>13, <1>14 DEF Next, Calls, OpStep

\* A closed writer has written everything it numbered.
LEMMA ShutdownDrained ==
  ASSUME IInv, Sync, Op.kind = "shutdown"
  PROVE  pending = <<>> /\ offset = 0 /\ Len(lines) = Len(numbered)
<1>1. ops # <<>> /\ phase = "sync"
  BY DEF Sync, Running
<1>2. Op.end = nextSeq /\ Live
  <2>1. 1 \in DOMAIN ops /\ ops[1] = Op
    BY <1>1, IInvFacts, EmptySeq DEF Op
  <2> QED
    BY <2>1, <1>1 DEF IInv, WriterInv, QueueInv
<1>3. pending = <<>>
  <2> SUFFICES ASSUME pending # <<>> PROVE FALSE
    OBVIOUS
  <2>1. Drained(nextSeq)
    BY <1>1, <1>2 DEF IInv, WriterInv, SyncInv
  <2>2. pending[1].seq >= nextSeq
    BY <2>1 DEF Drained
  <2>3. 1 \in DOMAIN pending /\ Len(pending) <= Len(numbered)
    BY IInvFacts, EmptySeq DEF IInv, WriterInv, BufferInv
  <2>4. pending[1] = numbered[Len(numbered) - Len(pending) + 1]
    BY <2>3 DEF IInv, WriterInv, BufferInv
  <2>5. Len(numbered) - Len(pending) + 1 \in DOMAIN numbered
    BY <2>3, IInvFacts
  <2>6. pending[1].seq = Len(numbered) - Len(pending) + 1
    BY <2>4, <2>5 DEF IInv, WriterInv, NumberingInv
  <2> QED
    BY <2>2, <2>5, <2>6, IInvFacts
<1>4. Len(pending) = 0 /\ ~needsRecovery
  BY <1>3, EmptySeq DEF IInv, WriterInv, BufferInv
<1>5. Len(lines) = Len(numbered) /\ offset = Len(tail)
  BY <1>2, <1>4, IInvFacts DEF IInv, WriterInv, BufferInv
<1>6. tail = <<>>
  BY <1>5, IInvFacts DEF IInv, WriterInv, FileInv
<1> QED
  BY <1>3, <1>5, <1>6, EmptySeq

LEMMA EnqueueHead ==
  ASSUME IInv, NEW kind, NEW first, NEW end, Enqueue(kind, first, end), ops # <<>>
  PROVE  ops' # <<>> /\ ops'[1] = ops[1]
<1>1. ops \in Seq(OpRecords) /\ Len(ops) \in Nat \ {0}
  BY IInvFacts, EmptySeq
<1>2. ops' = Append(ops, [kind |-> kind, first |-> first, end |-> end])
  BY DEF Enqueue
<1>3. Len(ops') = Len(ops) + 1 /\ \A i \in 1 .. Len(ops) : ops'[i] = ops[i]
  BY <1>1, <1>2
<1>4. ops' # <<>>
  <2> SUFFICES ASSUME ops' = <<>> PROVE FALSE
    OBVIOUS
  <2>1. Len(ops') = 0
    OBVIOUS
  <2> QED
    BY <2>1, <1>1, <1>3
<1> QED
  BY <1>1, <1>3, <1>4

LEMMA SyncNext == ASSUME IInv, [Next]_vars PROVE SyncInv'
<1> USE DEF fileVars, historyVars
\* Adding to the end of the buffer or of the queue keeps their heads.
<1>0. ASSUME UNCHANGED <<phase, offset>>, Live', Live,
             ops # <<>> => ops' # <<>> /\ ops'[1] = ops[1],
             phase = "sync" => \A end : Drained(end) /\ end <= nextSeq => Drained(end)'
      PROVE  SyncInv'
  <2>1. ASSUME phase = "sync" PROVE Op.end <= nextSeq
    <3>1. 1 \in DOMAIN ops
      BY <2>1, IInvFacts, EmptySeq DEF IInv, WriterInv, SyncInv
    <3> QED
      BY <3>1 DEF IInv, WriterInv, NumberingInv, Op
  <2> QED
    BY <1>0, <2>1 DEF IInv, WriterInv, SyncInv, Op, Drained
<1>d. ASSUME phase' = "drain", Live' PROVE SyncInv'
  BY <1>d DEF SyncInv
<1>l. Draining => Live
  BY HeadOfBuffer
<1>1. ASSUME NEW n \in 1 .. 2, AppendItems(n) PROVE SyncInv'
  <2>1. Live /\ Live' /\ UNCHANGED <<phase, offset>>
    BY <1>1 DEF AppendItems, Live
  <2>2. ops # <<>> => ops' # <<>> /\ ops'[1] = ops[1]
    BY <1>1, EnqueueHead DEF AppendItems
  <2>3. ASSUME NEW end, Drained(end), end <= nextSeq PROVE Drained(end)'
    <3>1. CASE pending = <<>>
      <4>1. Len(pending) = 0
        BY <3>1, EmptySeq
      <4>2. Len(pending) + 1 = 1 /\ 1 \in 1 .. n
        BY <4>1
      <4>3. pending'[1].seq = nextSeq + 1 - 1
        BY <4>2, <1>1, AppendFacts
      <4>4. pending'[1].seq = nextSeq
        BY <4>3, IInvFacts
      <4> QED
        BY <4>4, <2>3 DEF Drained
    <3>2. CASE pending # <<>>
      <4>1. 1 \in 1 .. Len(pending)
        BY <3>2, IInvFacts, EmptySeq
      <4>2. pending'[1] = pending[1]
        BY <4>1, <1>1, AppendFacts
      <4> QED
        BY <4>2, <2>3, <3>2 DEF Drained
    <3> QED
      BY <3>1, <3>2
  <2> QED
    BY <2>1, <2>2, <2>3, <1>0
<1>2. CASE FlushThread \/ ShutdownThread
  <2>1. Live /\ Live' /\ UNCHANGED <<phase, offset, pending>>
    BY <1>2 DEF FlushThread, ShutdownThread, Live
  <2>2. ops # <<>> => ops' # <<>> /\ ops'[1] = ops[1]
    BY <1>2, EnqueueHead DEF FlushThread, ShutdownThread
  <2> QED
    BY <2>1, <2>2, <1>0 DEF Drained
<1>3. CASE DiscardThread
  BY <1>3, <1>0 DEF DiscardThread, Live, Drained
<1>4. ASSUME NEW n \in 1 .. LineLen, WriteChunk(n) PROVE SyncInv'
  BY <1>4, <1>d, <1>l DEF WriteChunk, Draining, Live
<1>5. ASSUME NEW n \in 0 .. LineLen, WriteFails(n) PROVE SyncInv'
  BY <1>5, <1>d, <1>l DEF WriteFails, Draining, Live, Reject
<1>6. CASE Recover
  BY <1>6, <1>d, <1>l DEF Recover, Draining, Live
<1>7. CASE RecoverFails \/ WriteNothing
  BY <1>7, <1>d, <1>l DEF RecoverFails, WriteNothing, Draining, Live, Reject
<1>8. CASE DrainDone
  <2>1. Live /\ Live'
    BY <1>8 DEF DrainDone, Live, IInv, WriterInv, QueueInv
  <2>2. CASE Op.kind = "append"
    BY <1>8, <2>1, <2>2, <1>d DEF DrainDone
  <2>3. CASE Op.kind # "append"
    <3>1. ops' = ops /\ ops # <<>> /\ UNCHANGED pending
      BY <1>8, <2>3 DEF DrainDone
    <3>2. pending # <<>> => pending[1].seq >= Op.end
      <4>1. pending = <<>> \/ ~(pending[1].seq < Op.end)
        BY <1>8 DEF DrainDone, Draining
      <4>2. ops[1] \in OpRecords
        BY <3>1, IInvFacts
      <4>3. pending # <<>> => pending[1] \in Records
        BY IInvFacts
      <4> QED
        BY <4>1, <4>2, <4>3 DEF Op, OpRecords, Records
    <3> QED
      BY <2>1, <3>1, <3>2 DEF SyncInv, Drained, Op
  <2> QED
    BY <2>2, <2>3
<1>9. CASE Sync
  <2>1. Live /\ phase' = "drain" /\ UNCHANGED <<pending, offset>>
    BY <1>9 DEF Sync, Running, IInv, WriterInv, QueueInv
  <2>2. CASE Op.kind = "shutdown"
    BY <1>9, <2>1, <2>2, ShutdownDrained DEF SyncInv
  <2>3. CASE Op.kind # "shutdown"
    BY <1>9, <2>1, <2>3, <1>d DEF Sync, Live
  <2> QED
    BY <2>2, <2>3
<1>10. CASE SyncFails
  BY <1>10, <1>d DEF SyncFails, Running, Reject, Live, IInv, WriterInv, QueueInv
<1>11. CASE FinishDiscard
  BY <1>11 DEF FinishDiscard, SyncInv, IInv, WriterInv
<1>12. CASE Crash \/ PowerLoss
  BY <1>12 DEF Crash, PowerLoss, DropWriter, SyncInv
<1>13. CASE ResumeThread
  <2>1. phase # "sync"
    BY <1>13 DEF ResumeThread, IInv, WriterInv, SyncInv, QueueInv
  <2> QED
    BY <2>1, <1>13 DEF ResumeThread, SyncInv, Live
<1>14. CASE ResumeFails
  BY <1>14 DEF ResumeFails, IInv, WriterInv, SyncInv, Op, Drained, Live
<1>15. CASE UNCHANGED vars
  BY <1>15 DEF vars, IInv, WriterInv, SyncInv, Op, Drained, Live
<1> QED
  BY <1>1, <1>2, <1>3, <1>4, <1>5, <1>6, <1>7, <1>8, <1>9, <1>10, <1>11, <1>12,
     <1>13, <1>14, <1>15 DEF Next, Calls, OpStep

LEMMA DurabilityNext == ASSUME IInv, [Next]_vars PROVE DurabilityInv'
<1> USE DEF fileVars, historyVars
<1>f. /\ \A i \in DOMAIN promised : i \in 1 .. Len(lines) /\ i \in 1 .. Len(numbered)
      /\ \A i \in DOMAIN promised : promised[i] = numbered[i]
      /\ Len(promised) <= synced.lines /\ synced.lines <= Len(lines)
      /\ Len(lines) <= Len(numbered)
      /\ \A r \in acked : /\ r.seq \in 1 .. Len(lines) /\ r.seq \in 1 .. Len(numbered)
                          /\ numbered[r.seq] = r
  <2>1. /\ DOMAIN promised = 1 .. Len(promised)
        /\ DOMAIN lines = 1 .. Len(lines) /\ DOMAIN numbered = 1 .. Len(numbered)
    BY IInvFacts
  <2>2. Len(promised) <= synced.lines /\ synced.lines <= Len(lines)
        /\ Len(lines) <= Len(numbered)
    BY DEF IInv, WriterInv, DurabilityInv, FileInv
  <2>3. \A i \in DOMAIN promised : promised[i] = numbered[i]
    BY DEF IInv, WriterInv, DurabilityInv
  <2>4. \A i \in DOMAIN promised : i \in 1 .. Len(lines) /\ i \in 1 .. Len(numbered)
    BY SMTT(30), <2>1, <2>2, IInvFacts
  <2>5. \A r \in acked : r.seq \in DOMAIN lines /\ numbered[r.seq] = r
    BY DEF IInv, WriterInv, DurabilityInv
  <2>6. \A i \in 1 .. Len(lines) : i \in 1 .. Len(numbered)
    BY <2>2, IInvFacts
  <2>7. ASSUME NEW r \in acked
        PROVE  r.seq \in 1 .. Len(lines) /\ r.seq \in 1 .. Len(numbered)
    BY <2>1, <2>5, <2>6
  <2> QED
    BY <2>2, <2>3, <2>4, <2>5, <2>7
\* The file grows, and what is synced with it.
<1>0. ASSUME UNCHANGED <<promised, numbered, acked>>,
             lines' \in Seq(Seq(Units)), Len(lines) <= Len(lines'),
             synced'.lines = synced.lines \/ synced'.lines = Len(lines')
      PROVE  DurabilityInv'
  <2>1. Len(promised) <= synced'.lines /\ synced'.lines <= Len(lines')
    BY <1>0, <1>f, IInvFacts
  <2>2. ASSUME NEW r \in acked PROVE r.seq \in DOMAIN lines'
    BY <2>2, <1>0, <1>f, IInvFacts
  <2> QED
    BY <2>1, <2>2, <1>0, <1>f DEF DurabilityInv
<1>u. ASSUME UNCHANGED <<promised, numbered, acked, lines, synced>>
      PROVE  DurabilityInv'
  BY <1>u DEF IInv, WriterInv, DurabilityInv
<1>t. lines' \in Seq(Seq(Units))
  BY NextType DEF IInv, AllOK, FileOK
<1>1. ASSUME NEW n \in 1 .. 2, AppendItems(n) PROVE DurabilityInv'
  <2>1. UNCHANGED <<lines, synced, promised, acked>>
    BY <1>1 DEF AppendItems
  <2>2. \A i \in 1 .. Len(numbered) : numbered'[i] = numbered[i]
    BY <1>1, AppendFacts
  <2>3. \A i \in DOMAIN promised : promised[i] = numbered'[i]
    BY <2>2, <1>f
  <2>4. \A r \in acked : r.seq \in DOMAIN lines /\ numbered'[r.seq] = r
    BY <2>2, <1>f, IInvFacts
  <2> QED
    BY <2>1, <2>3, <2>4, <1>f DEF DurabilityInv
<1>2. CASE FlushThread \/ ShutdownThread \/ DiscardThread
  BY <1>u, <1>2 DEF FlushThread, ShutdownThread, DiscardThread
<1>3. ASSUME NEW n \in 1 .. LineLen, WriteChunk(n) PROVE DurabilityInv'
  <2>1. n \in 0 .. LineLen - offset /\ Draining /\ ~needsRecovery /\ PutUnits(n)
        /\ UNCHANGED <<numbered, promised, acked, synced>>
    BY <1>3, IInvFacts DEF WriteChunk
  <2>2. Len(lines) <= Len(lines')
    <3>1. CASE offset + n = LineLen
      BY <2>1, <3>1, PutUnitsFile, IInvFacts
    <3>2. CASE offset + n # LineLen
      BY <2>1, <3>2, PutUnitsFile, IInvFacts
    <3> QED
      BY <3>1, <3>2
  <2> QED
    BY <2>1, <2>2, <1>0, <1>t
<1>4. ASSUME NEW n \in 0 .. LineLen, WriteFails(n) PROVE DurabilityInv'
  <2>1. n \in 0 .. LineLen - offset /\ Draining /\ ~needsRecovery
        /\ UNCHANGED <<numbered, promised, acked, synced>>
    BY <1>4 DEF WriteFails, Reject
  <2>2. Len(lines) <= Len(lines')
    <3>1. CASE n = 0
      BY <3>1, <1>4, IInvFacts DEF WriteFails
    <3>2. CASE n # 0
      BY <3>2, <2>1, <1>4, PutUnitsFile, IInvFacts DEF WriteFails
    <3> QED
      BY <3>1, <3>2
  <2> QED
    BY <2>1, <2>2, <1>0, <1>t
<1>c. ASSUME Draining, needsRecovery, TailCommitted, UNCHANGED <<numbered, promised, acked>>
      PROVE  DurabilityInv'
  <2>1. Len(lines) <= Len(lines')
    BY <1>c, CommittedFile DEF TailCommitted
  <2>2. synced'.lines = synced.lines \/ synced'.lines = Len(lines')
    BY <1>c DEF TailCommitted
  <2> QED
    BY <2>1, <2>2, <1>c, <1>0, <1>t
<1>a. ASSUME Draining, needsRecovery, TailAbsent, UNCHANGED <<numbered, promised, acked>>
      PROVE  DurabilityInv'
  <2>1. UNCHANGED lines /\ synced'.lines = synced.lines
    BY <1>a, AbsentFile
  <2> QED
    BY <2>1, <1>a, <1>0, <1>t, IInvFacts
<1>5. CASE Recover
  BY <1>5, <1>a, <1>c DEF Recover
<1>6. CASE RecoverFails
  <2>1. Draining /\ needsRecovery /\ UNCHANGED <<numbered, promised, acked>>
    BY <1>6 DEF RecoverFails, Reject
  <2>2. CASE UNCHANGED <<lines, tail, synced, offset>>
    BY <2>1, <2>2, <1>u
  <2>3. CASE /\ tail = Chunk(pending[1], 1, LineLen - 1)
             /\ lines' = Append(lines, Append(tail, Unit(pending[1], LineLen)))
             /\ tail' = <<>>
             /\ UNCHANGED <<synced, offset>>
    <3>1. Len(lines) <= Len(lines')
      BY <2>1, <2>3, CommittedFile
    <3> QED
      BY <3>1, <2>1, <2>3, <1>0, <1>t
  <2> QED
    BY <2>1, <2>2, <2>3, <1>a, <1>c, <1>6 DEF RecoverFails
<1>7. CASE WriteNothing \/ SyncFails
  BY <1>u, <1>7 DEF WriteNothing, SyncFails, Reject
<1>8. CASE DrainDone
  <2>1. UNCHANGED <<lines, synced, promised, numbered>>
    BY <1>8 DEF DrainDone
  <2>2. CASE Op.kind # "append"
    BY <1>8, <2>1, <2>2, <1>u DEF DrainDone
  <2>3. CASE Op.kind = "append"
    <3>1. Op \in OpRecords /\ Op.end <= nextSeq /\ Live
      <4>1. 1 \in DOMAIN ops
        BY <1>8, IInvFacts, EmptySeq DEF DrainDone
      <4> QED
        BY <4>1, <1>8, IInvFacts
        DEF Op, DrainDone, IInv, WriterInv, NumberingInv, QueueInv
    <3>2. Op.end - 1 <= Len(lines)
      <4>1. CASE pending = <<>>
        <5>1. Len(pending) = 0 /\ ~needsRecovery
          BY <4>1, EmptySeq DEF IInv, WriterInv, BufferInv
        <5>2. Len(numbered) = Len(lines)
          BY <5>1, <3>1, IInvFacts DEF IInv, WriterInv, BufferInv
        <5> QED
          BY <5>2, <3>1, IInvFacts DEF OpRecords
      <4>2. CASE pending # <<>>
        <5>1. pending[1].seq >= Op.end
          <6>1. ~(pending[1].seq < Op.end)
            BY <1>8, <4>2 DEF DrainDone, Draining
          <6>2. pending[1] \in Records
            BY <4>2, IInvFacts, EmptySeq
          <6> QED
            BY <6>1, <6>2, <3>1 DEF OpRecords, Records
        <5>2. 1 \in DOMAIN pending /\ Len(pending) <= Len(numbered)
          BY <4>2, IInvFacts, EmptySeq DEF IInv, WriterInv, BufferInv
        <5>3. pending[1] = numbered[Len(numbered) - Len(pending) + 1]
          BY <5>2 DEF IInv, WriterInv, BufferInv
        <5>4. Len(numbered) - Len(pending) + 1 \in DOMAIN numbered
          BY <5>2, IInvFacts
        <5>5. pending[1].seq = Len(numbered) - Len(pending) + 1
          BY <5>3, <5>4 DEF IInv, WriterInv, NumberingInv
        <5>6. Len(numbered) - Len(pending) <= Len(lines)
          BY <3>1, IInvFacts DEF IInv, WriterInv, BufferInv
        <5> QED
          BY <5>1, <5>5, <5>6, <3>1, IInvFacts DEF OpRecords
      <4> QED
        BY <4>1, <4>2
    <3>3. ASSUME NEW i \in Op.first .. Op.end - 1
          PROVE  /\ i \in 1 .. Len(lines) /\ i \in DOMAIN numbered
                 /\ numbered[i].seq = i
      <4>1. i \in 1 .. Len(lines)
        BY <3>1, <3>2, IInvFacts DEF OpRecords
      <4>2. i \in DOMAIN numbered
        BY <4>1, <1>f, IInvFacts
      <4> QED
        BY <4>1, <4>2 DEF IInv, WriterInv, NumberingInv
    <3>4. acked' = acked \union {numbered[i] : i \in Op.first .. Op.end - 1}
      BY <1>8, <2>3 DEF DrainDone
    <3>5. ASSUME NEW r \in acked' PROVE r.seq \in DOMAIN lines /\ numbered[r.seq] = r
      <4>1. CASE r \in acked
        BY <4>1, <1>f, IInvFacts
      <4>2. ASSUME NEW i \in Op.first .. Op.end - 1, r = numbered[i]
            PROVE  r.seq \in DOMAIN lines /\ numbered[r.seq] = r
        BY <4>2, <3>3, IInvFacts
      <4> QED
        BY <4>1, <4>2, <3>4
    <3>6. Len(promised) <= synced.lines /\ synced.lines <= Len(lines)
      BY <1>f
    <3>7. \A i \in DOMAIN promised : promised[i] = numbered[i]
      BY <1>f
    <3>8. \A r \in acked' : r.seq \in DOMAIN lines' /\ numbered'[r.seq] = r
      BY <3>5, <2>1
    <3> QED
      BY <3>6, <3>7, <3>8, <2>1 DEF DurabilityInv
  <2> QED
    BY <2>2, <2>3
<1>9. CASE Sync
  <2>1. /\ UNCHANGED <<lines, numbered, acked>> /\ synced'.lines = Len(lines)
        /\ promised' = IF Len(promised) < Op.end - 1
                       THEN SubSeq(numbered, 1, Op.end - 1) ELSE promised
    BY <1>9 DEF Sync
  <2>l. Len(lines') = Len(lines) /\ synced'.lines = Len(lines') /\ Len(lines) \in Nat
    BY <2>1, IInvFacts
  <2>2. CASE promised' = promised
    <3>1. Len(promised) <= Len(lines) /\ Len(lines) <= Len(lines)
      BY <1>f, IInvFacts
    <3>2. Len(promised') <= synced'.lines /\ synced'.lines <= Len(lines')
      BY <3>1, <2>2, <2>l
    <3>3. \A i \in DOMAIN promised' : promised'[i] = numbered'[i]
      BY <2>1, <2>2, <1>f
    <3>4. \A r \in acked' : r.seq \in DOMAIN lines' /\ numbered'[r.seq] = r
      BY <2>1 DEF IInv, WriterInv, DurabilityInv
    <3> QED
      BY <3>2, <3>3, <3>4 DEF DurabilityInv
  <2>3. CASE promised' = SubSeq(numbered, 1, Op.end - 1)
    <3>1. Drained(Op.end) /\ ops # <<>> /\ phase = "sync"
      BY <1>9 DEF Sync, Running, IInv, WriterInv, SyncInv
    <3>2. Op \in OpRecords /\ Op.end <= nextSeq /\ Live
      <4>1. 1 \in DOMAIN ops
        BY <3>1, IInvFacts, EmptySeq
      <4> QED
        BY <4>1, <3>1, IInvFacts DEF Op, IInv, WriterInv, NumberingInv, QueueInv
    <3>3. Op.end - 1 <= Len(lines)
      <4>1. CASE pending = <<>>
        <5>1. Len(pending) = 0 /\ ~needsRecovery
          BY <4>1, EmptySeq DEF IInv, WriterInv, BufferInv
        <5>2. Len(numbered) = Len(lines)
          BY <5>1, <3>2, IInvFacts DEF IInv, WriterInv, BufferInv
        <5> QED
          BY <5>2, <3>2, IInvFacts DEF OpRecords
      <4>2. CASE pending # <<>>
        <5>1. pending[1].seq >= Op.end
          BY <3>1, <4>2 DEF Drained
        <5>2. 1 \in DOMAIN pending /\ Len(pending) <= Len(numbered)
          BY <4>2, IInvFacts, EmptySeq DEF IInv, WriterInv, BufferInv
        <5>3. pending[1] = numbered[Len(numbered) - Len(pending) + 1]
          BY <5>2 DEF IInv, WriterInv, BufferInv
        <5>4. Len(numbered) - Len(pending) + 1 \in DOMAIN numbered
          BY <5>2, IInvFacts
        <5>5. pending[1].seq = Len(numbered) - Len(pending) + 1
          BY <5>3, <5>4 DEF IInv, WriterInv, NumberingInv
        <5>6. Len(numbered) - Len(pending) <= Len(lines)
          BY <3>2, IInvFacts DEF IInv, WriterInv, BufferInv
        <5> QED
          BY <5>1, <5>5, <5>6, <3>2, IInvFacts DEF OpRecords
      <4> QED
        BY <4>1, <4>2
    <3>4. Op.end - 1 \in 0 .. Len(numbered)
      BY <3>2, IInvFacts DEF OpRecords
    <3>5. /\ Len(promised') = Op.end - 1
          /\ \A i \in DOMAIN promised' : promised'[i] = numbered[i]
      <4> DEFINE end == Op.end - 1
      <4>1. end \in 0 .. Len(numbered) /\ numbered \in Seq(Records)
        BY <3>4, IInvFacts
      <4>2. promised' = SubSeq(numbered, 1, end)
        BY <2>3
      <4> HIDE DEF end
      <4>3. /\ Len(promised') = end /\ DOMAIN promised' = 1 .. end
            /\ \A i \in 1 .. end : promised'[i] = numbered[i]
        BY <4>1, <4>2, PrefixFacts
      <4> QED
        BY <4>3 DEF end
    <3>6. Len(promised') <= synced'.lines /\ synced'.lines <= Len(lines')
      <4>1. Len(promised') <= Len(lines) /\ Len(lines) <= Len(lines)
        BY <3>3, <3>5, <2>l
      <4> QED
        BY <4>1, <2>l
    <3>7. \A i \in DOMAIN promised' : promised'[i] = numbered'[i]
      BY <3>5, <2>1
    <3>8. \A r \in acked' : r.seq \in DOMAIN lines' /\ numbered'[r.seq] = r
      BY <2>1 DEF IInv, WriterInv, DurabilityInv
    <3> QED
      BY <3>6, <3>7, <3>8 DEF DurabilityInv
  <2> QED
    BY <2>1, <2>2, <2>3
<1>10. CASE FinishDiscard \/ Crash
  BY <1>u, <1>10 DEF FinishDiscard, Crash, DropWriter
<1>11. CASE PowerLoss
  <2>1. acked' = {} /\ UNCHANGED <<promised, numbered>>
    BY <1>11 DEF PowerLoss, DropWriter
  <2>2. Len(promised) <= synced'.lines /\ synced'.lines <= Len(lines')
    BY <1>11, CutFile, <1>f, IInvFacts
  <2> QED
    BY <2>1, <2>2, <1>f DEF DurabilityInv
<1>12. CASE ResumeThread
  <2>1. /\ UNCHANGED <<promised, acked>>
        /\ numbered' = [i \in DOMAIN lines' |-> RecordOf(lines'[i])]
    BY <1>12 DEF ResumeThread
  <2>2. /\ Len(lines) <= Len(lines') /\ Len(lines') \in Nat
        /\ \A i \in DOMAIN lines : i \in DOMAIN lines' /\ lines'[i] = lines[i]
        /\ synced'.lines = synced.lines \/ synced'.lines = Len(lines')
    <3>1. CASE CompleteTail /\ synced' = [lines |-> Len(lines'), tail |-> 0]
      <4>1. lines' = Append(lines, Append(tail, Unit(tail[1].rec, LineLen)))
        BY <3>1 DEF CompleteTail
      <4> QED
        BY SMTT(30), <4>1, <3>1, <1>t, IInvFacts
    <3>2. CASE CutTail
      <4>1. synced \in [lines : Nat, tail : Nat]
        BY DEF IInv, AllOK, FileOK
      <4> QED
        BY <4>1, <3>2, IInvFacts DEF CutTail
    <3> QED
      BY <3>1, <3>2, <1>12 DEF ResumeThread
  <2>3. \A i \in DOMAIN lines : numbered'[i] = numbered[i]
    <3> SUFFICES ASSUME NEW i \in DOMAIN lines PROVE numbered'[i] = numbered[i]
      OBVIOUS
    <3>1. numbered'[i] = RecordOf(lines[i])
      BY <2>1, <2>2
    <3>2. lines[i] = LineOf(numbered[i])
      BY DEF IInv, WriterInv, FileInv
    <3>3. numbered[i] \in Records
      BY <1>f, IInvFacts
    <3> QED
      BY <3>1, <3>2, <3>3, LineFacts
  <2>4. Len(promised) <= synced'.lines /\ synced'.lines <= Len(lines')
    BY <2>2, <1>f, IInvFacts
  <2>5. \A i \in DOMAIN promised : promised[i] = numbered'[i]
    BY <2>3, <1>f, IInvFacts
  <2>6. \A r \in acked : r.seq \in DOMAIN lines' /\ numbered'[r.seq] = r
    <3>1. \A r \in acked : r.seq \in DOMAIN lines /\ numbered[r.seq] = r
      BY DEF IInv, WriterInv, DurabilityInv
    <3> QED
      BY <2>2, <2>3, <3>1
  <2> QED
    BY <2>1, <2>4, <2>5, <2>6 DEF DurabilityInv
<1>13. CASE ResumeFails
  <2>1. UNCHANGED <<numbered, promised, acked>>
    BY <1>13 DEF ResumeFails
  <2>2. /\ Len(lines) <= Len(lines')
        /\ synced'.lines = synced.lines \/ synced'.lines = Len(lines')
    BY <2>1, <1>13, RepairedFile DEF ResumeFails
  <2> QED
    BY <2>1, <2>2, <1>0, <1>t
<1>14. CASE UNCHANGED vars
  BY <1>u, <1>14 DEF vars
<1> QED
  BY <1>1, <1>2, <1>3, <1>4, <1>5, <1>6, <1>7, <1>8, <1>9, <1>10, <1>11, <1>12,
     <1>13, <1>14 DEF Next, Calls, OpStep

-----------------------------------------------------------------------------
(* The invariant, and what follows from it.                                *)

LEMMA InitInv == Init => IInv
<1> SUFFICES ASSUME Init PROVE IInv
  OBVIOUS
<1>1. AllOK
  BY InitType
<1>2. FileInv
  BY LineLenAssumption DEF Init, FileInv, LineLenAssumption
<1>3. BufferInv
  BY DEF Init, BufferInv
<1>4. SyncInv
  BY DEF Init, SyncInv, Live
<1>5. DurabilityInv
  BY DEF Init, DurabilityInv
<1> QED
  BY <1>1, <1>2, <1>3, <1>4, <1>5 DEF IInv, WriterInv, AllOK

\* The invariant is inductive.
LEMMA IInvAlways == Spec => []IInv
<1>1. IInv /\ [Next]_vars => IInv'
  BY NextType, FileNext, BufferNext, SyncNext, DurabilityNext
  DEF IInv, WriterInv, AllOK
<1> QED
  BY <1>1, InitInv, PTL DEF Spec

\* The file is a prefix of the numbered records with at most one torn line,
\* the retry buffer continues it, and acknowledgements lag behind both.
THEOREM InvariantHolds == Spec => []WriterInv
<1>1. IInv => WriterInv
  BY DEF IInv
<1> QED
  BY <1>1, IInvAlways, PTL

\* Through short and failing writes, retries, crashes and repairs, the lines
\* of rollout.jsonl stay records numbered 1, 2, ...: readPhysicalRollout
\* accepts the file in every reachable state.
THEOREM RolloutStaysReadable == Spec => []AlwaysReadable
<1>1. IInv => AlwaysReadable
  <2> SUFFICES ASSUME IInv, NEW i \in DOMAIN lines
               PROVE  IsRecordLine(lines[i]) /\ RecordOf(lines[i]).seq = i
    BY DEF AlwaysReadable, Readable
  <2>1. Len(lines) <= Len(numbered)
    BY DEF IInv, WriterInv, FileInv
  <2>2. i \in DOMAIN numbered
    <3>1. DOMAIN lines = 1 .. Len(lines) /\ DOMAIN numbered = 1 .. Len(numbered)
      BY IInvFacts
    <3> QED
      BY <2>1, <3>1, IInvFacts
  <2>3. lines[i] = LineOf(numbered[i]) /\ numbered[i].seq = i
    BY <2>2 DEF IInv, WriterInv, FileInv, NumberingInv
  <2>4. numbered[i] \in Records
    BY <2>2, IInvFacts
  <2> QED
    BY <2>3, <2>4, LineFacts
<1> QED
  BY <1>1, IInvAlways, PTL

\* What a resolved flush or shutdown covered is on disk for good: no later
\* write, repair, truncation, crash or power loss removes or replaces it.
THEOREM PromiseKept == Spec => []PromisedDurable
<1>1. IInv => PromisedDurable
  <2> SUFFICES ASSUME IInv PROVE PromisedDurable
    OBVIOUS
  <2>1. Len(promised) <= synced.lines /\ synced.lines <= Len(lines)
        /\ Len(lines) <= Len(numbered)
    BY DEF IInv, WriterInv, DurabilityInv, FileInv
  <2>2. ASSUME NEW i \in DOMAIN promised PROVE RecordOf(lines[i]) = promised[i]
    <3>0. /\ DOMAIN promised = 1 .. Len(promised)
          /\ DOMAIN lines = 1 .. Len(lines) /\ DOMAIN numbered = 1 .. Len(numbered)
      BY IInvFacts
    <3>1. i \in DOMAIN lines /\ i \in DOMAIN numbered
      BY SMTT(30), <2>1, <3>0, IInvFacts
    <3>2. lines[i] = LineOf(numbered[i]) /\ promised[i] = numbered[i]
      BY <3>1 DEF IInv, WriterInv, FileInv, DurabilityInv
    <3> QED
      BY <3>1, <3>2, IInvFacts, LineFacts
  <2> QED
    BY <2>1, <2>2 DEF PromisedDurable
<1> QED
  BY <1>1, IInvAlways, PTL

\* What a resolved append wrote is read back, until the machine loses power.
THEOREM AcknowledgedIsRead == Spec => []AckedVisible
<1>1. IInv => AckedVisible
  <2> SUFFICES ASSUME IInv, NEW r \in acked
               PROVE  r.seq \in DOMAIN lines /\ RecordOf(lines[r.seq]) = r
    BY DEF AckedVisible
  <2>1. r.seq \in DOMAIN lines /\ numbered[r.seq] = r
    BY DEF IInv, WriterInv, DurabilityInv
  <2>2. lines[r.seq] = LineOf(numbered[r.seq])
    BY <2>1 DEF IInv, WriterInv, FileInv
  <2>3. r \in Records
    BY DEF IInv, AllOK, HistoryOK
  <2> QED
    BY <2>1, <2>2, <2>3, LineFacts
<1> QED
  BY <1>1, IInvAlways, PTL

\* A record whose append rejected is still in the file or in the retry
\* buffer of its open writer, so that the next operation writes it.
THEOREM RejectedIsRetried == Spec => []NothingDropped
<1>1. IInv => NothingDropped
  <2> SUFFICES ASSUME IInv, writer = "open", NEW i \in DOMAIN numbered
               PROVE  \/ i \in DOMAIN lines /\ RecordOf(lines[i]) = numbered[i]
                      \/ numbered[i] \in ToSet(pending)
    BY DEF NothingDropped
  <2> DEFINE start == Len(numbered) - Len(pending)
  <2>1. Len(pending) <= Len(numbered) /\ start <= Len(lines) /\ start \in Nat
    BY IInvFacts DEF IInv, WriterInv, BufferInv, Live
  <2>2. i \in 1 .. Len(numbered) /\ numbered[i] \in Records
    BY IInvFacts
  <2>3. CASE i <= Len(lines)
    <3>1. i \in DOMAIN lines
      BY <2>2, <2>3, IInvFacts
    <3>2. lines[i] = LineOf(numbered[i])
      BY <3>1 DEF IInv, WriterInv, FileInv
    <3> QED
      BY <3>1, <3>2, <2>2, LineFacts
  <2>4. CASE ~(i <= Len(lines))
    <3>0. DOMAIN pending = 1 .. Len(pending) /\ Len(pending) \in Nat
          /\ Len(lines) \in Nat /\ Len(numbered) \in Nat
      BY IInvFacts
    <3>1. i - start \in 1 .. Len(pending) /\ start + (i - start) = i
      BY <2>1, <2>2, <2>4, <3>0
    <3>2. pending[i - start] = numbered[start + (i - start)]
      BY <3>0, <3>1 DEF IInv, WriterInv, BufferInv
    <3> QED
      BY <3>1, <3>2 DEF ToSet
  <2> QED
    BY <2>3, <2>4
<1> QED
  BY <1>1, IInvAlways, PTL

-----------------------------------------------------------------------------
(* The writer implements RolloutLog: how the log and the buffer of the     *)
(* abstract specification lie in the numbered records.                     *)

\* How many records a reader of the file sees: a lost or closed writer leaves
\* a last line that the next repair completes.
LogLen == IF ~Live /\ Parses(tail) THEN Len(lines) + 1 ELSE Len(lines)

\* The log and the buffer of RolloutLog divide the numbered records.
BarInv ==
  /\ LogLen \in 0 .. Len(numbered) /\ Len(lines) <= LogLen
  /\ Parses(tail) <=> Len(tail) = LineLen - 1
  /\ LogBar = SubSeq(numbered, 1, LogLen)
  /\ BufferBar = IF Live THEN SubSeq(numbered, Len(lines) + 1, Len(numbered))
                 ELSE <<>>

\* One more record of a prefix.
LEMMA PrefixGrows ==
  ASSUME NEW S, NEW s \in Seq(S), NEW n \in Nat, n < Len(s)
  PROVE  SubSeq(s, 1, n + 1) = Append(SubSeq(s, 1, n), s[n + 1])
<1> DEFINE p == SubSeq(s, 1, n)
           q == SubSeq(s, 1, n + 1)
           a == Append(p, s[n + 1])
<1>1. /\ p \in Seq(S) /\ Len(p) = n /\ s[n + 1] \in S
      /\ \A i \in 1 .. n : p[i] = s[i]
  BY PrefixFacts
<1>2. /\ q \in Seq(S) /\ Len(q) = n + 1
      /\ \A i \in 1 .. n + 1 : q[i] = s[i]
  BY PrefixFacts
<1> HIDE DEF p, q
<1>3. /\ a \in Seq(S) /\ Len(a) = n + 1
      /\ \A i \in 1 .. n + 1 : a[i] = s[i]
  BY <1>1
<1> HIDE DEF a
<1>4. a = q
  BY <1>2, <1>3, SeqEqual
<1> QED
  BY <1>4 DEF a, p, q

\* The unfinished line of the file is a torn prefix of the next record's.
LEMMA TornLine ==
  ASSUME IInv
  PROVE  /\ Parses(tail) <=> Len(tail) = LineLen - 1
         /\ tail # <<>> => /\ Len(lines) < Len(numbered)
                           /\ tail[1].rec = numbered[Len(lines) + 1]
<1> USE LineLenAssumption DEF LineLenAssumption
<1>1. CASE tail = <<>>
  BY <1>1, EmptySeq DEF Parses
<1>2. CASE tail # <<>>
  <2> DEFINE r == numbered[Len(lines) + 1]
  <2>1. /\ Len(lines) < Len(numbered) /\ tail = Chunk(r, 1, Len(tail))
    BY <1>2 DEF IInv, WriterInv, FileInv
  <2>2. r \in Records
    BY <2>1, IInvFacts
  <2>3. Len(tail) \in 1 .. LineLen - 1
    BY <1>2, IInvFacts, EmptySeq
  <2> HIDE DEF r
  <2>4. tail[1] = Unit(r, 1)
    BY <2>1, <2>2, <2>3, HeadChunk
  <2>5. tail[1].rec = r
    BY <2>4 DEF Unit
  <2>6. LineLen - 1 \in 0 .. LineLen
    OBVIOUS
  <2>7. Len(Chunk(r, 1, LineLen - 1)) = LineLen - 1
    BY <2>2, <2>6, HeadChunk
  <2>8. Parses(tail) <=> Len(tail) = LineLen - 1
    BY <1>2, <2>1, <2>5, <2>7 DEF Parses
  <2> QED
    BY <2>1, <2>5, <2>8 DEF r
<1> QED
  BY <1>1, <1>2

\* Log and buffer divide the numbered records whenever the invariant holds.
LEMMA Bars == IInv => BarInv
<1> SUFFICES ASSUME IInv PROVE BarInv
  OBVIOUS
<1> USE LineLenAssumption DEF LineLenAssumption
<1>1. /\ Len(lines) \in Nat /\ Len(numbered) \in Nat /\ Len(lines) <= Len(numbered)
      /\ numbered \in Seq(Records) /\ pending \in Seq(Records)
      /\ DOMAIN lines = 1 .. Len(lines)
  BY IInvFacts DEF IInv, WriterInv, FileInv
<1>2. LogLen \in 0 .. Len(numbered) /\ Len(lines) <= LogLen
  BY <1>1, TornLine DEF LogLen, Parses
<1>3. FileRecords = SubSeq(numbered, 1, Len(lines))
  <2>1. ASSUME NEW i \in 1 .. Len(lines)
        PROVE  RecordOf(lines[i]) = numbered[i] /\ numbered[i] \in Records
    <3>1. lines[i] = LineOf(numbered[i]) /\ numbered[i] \in Records
      BY <1>1 DEF IInv, WriterInv, FileInv
    <3> QED
      BY <3>1, LineFacts
  <2> DEFINE s == SubSeq(numbered, 1, Len(lines))
  <2>2. FileRecords = [i \in 1 .. Len(lines) |-> RecordOf(lines[i])]
    BY <1>1 DEF FileRecords
  <2>3. /\ FileRecords \in Seq(Records) /\ Len(FileRecords) = Len(lines)
        /\ \A i \in 1 .. Len(lines) : FileRecords[i] = numbered[i]
    BY <1>1, <2>1, <2>2
  <2>4. /\ s \in Seq(Records) /\ Len(s) = Len(lines)
        /\ \A i \in 1 .. Len(lines) : s[i] = numbered[i]
    BY <1>1, PrefixFacts
  <2> HIDE DEF s
  <2>5. FileRecords = s
    BY <2>3, <2>4, SeqEqual
  <2> QED
    BY <2>5 DEF s
<1>4. LogBar = SubSeq(numbered, 1, LogLen)
  <2>1. CASE ~Live /\ Parses(tail)
    <3>1. Len(lines) < Len(numbered) /\ tail[1].rec = numbered[Len(lines) + 1]
      BY <2>1, TornLine DEF Parses
    <3>2. LogBar = Append(SubSeq(numbered, 1, Len(lines)), numbered[Len(lines) + 1])
      BY <2>1, <3>1, <1>3 DEF LogBar
    <3> QED
      BY <2>1, <3>1, <3>2, <1>1, PrefixGrows DEF LogLen
  <2>2. CASE ~(~Live /\ Parses(tail))
    BY <2>2, <1>3 DEF LogBar, LogLen
  <2> QED
    BY <2>1, <2>2
<1>5. CASE ~Live
  <2>1. pending = <<>>
    BY <1>5 DEF IInv, WriterInv, SyncInv
  <2> QED
    BY <1>2, <1>4, <1>5, <2>1, TornLine DEF BarInv, BufferBar
<1>6. CASE Live
  <2> DEFINE start == Len(numbered) - Len(pending)
             s == SubSeq(numbered, Len(lines) + 1, Len(numbered))
  <2>1. /\ Len(pending) \in Nat /\ start \in Nat /\ DOMAIN pending = 1 .. Len(pending)
        /\ \A i \in 1 .. Len(pending) : pending[i] = numbered[start + i]
    BY <1>1 DEF IInv, WriterInv, BufferInv
  <2> HIDE DEF start
  <2>2. pending # <<>> => pending[1].seq = start + 1
    <3> SUFFICES ASSUME pending # <<>> PROVE pending[1].seq = start + 1
      OBVIOUS
    <3>1. 1 \in 1 .. Len(pending) /\ start + 1 \in 1 .. Len(numbered)
      BY <1>1, <2>1, EmptySeq DEF start
    <3>2. start + 1 \in DOMAIN numbered
      BY <3>1, <1>1
    <3> QED
      BY <2>1, <3>1, <3>2 DEF IInv, WriterInv, NumberingInv
  <2>3. /\ s \in Seq(Records) /\ Len(s) = Len(numbered) - Len(lines)
        /\ \A i \in 1 .. Len(numbered) - Len(lines) : s[i] = numbered[Len(lines) + i]
    BY <1>1
  <2> HIDE DEF s
  <2>4. CASE start = Len(lines)
    <3>1. BufferBar = pending
      BY <1>1, <2>2, <2>4 DEF BufferBar
    <3>2. Len(pending) = Len(s) /\ Len(pending) = Len(numbered) - Len(lines)
      <4>1. Len(numbered) - Len(pending) = Len(lines)
        BY <2>4 DEF start
      <4>2. Len(pending) = Len(numbered) - Len(lines)
        BY <1>1, <2>1, <4>1
      <4> QED
        BY <2>3, <4>2
    <3>3. ASSUME NEW i \in 1 .. Len(pending) PROVE pending[i] = s[i]
      <4>1. pending[i] = numbered[Len(lines) + i]
        BY <2>1, <2>4
      <4>2. i \in 1 .. Len(numbered) - Len(lines)
        BY <3>2
      <4> QED
        BY <2>3, <4>1, <4>2
    <3>4. pending = s
      BY <1>1, <2>3, <3>2, <3>3, SeqEqual
    <3> QED
      BY <3>1, <3>4, <1>2, <1>4, <1>6, TornLine DEF BarInv, s
  <2>5. CASE start + 1 = Len(lines) /\ pending # <<>>
    <3>1. BufferBar = Tail(pending)
      <4>1. pending[1].seq = Len(lines) /\ Len(lines) \in 1 .. Len(lines)
        BY <1>1, <2>1, <2>2, <2>5
      <4> QED
        BY <1>1, <2>5, <4>1 DEF BufferBar
    <3> DEFINE t == Tail(pending)
    <3>2. /\ t \in Seq(Records) /\ Len(t) = Len(pending) - 1
          /\ \A i \in 1 .. Len(t) : t[i] = pending[i + 1]
      BY <1>1, <2>5, HeadTailProperties
    <3> HIDE DEF t
    <3>3. Len(t) = Len(s)
      BY <1>1, <2>1, <2>3, <2>5, <3>2 DEF start
    <3>4. ASSUME NEW i \in 1 .. Len(t) PROVE t[i] = s[i]
      <4>0. Len(t) \in Nat /\ i \in Nat /\ 1 <= i /\ i <= Len(t)
        BY <2>1, <2>5, <3>2
      <4>1. i + 1 \in 1 .. Len(pending) /\ start + (i + 1) = Len(lines) + i
        <5>1. i + 1 \in 1 .. Len(pending)
          <6>1. Len(t) = Len(pending) - 1 /\ Len(pending) \in Nat
            BY <2>1, <3>2
          <6> QED
            BY <4>0, <6>1
        <5>2. start \in Nat /\ start + 1 = Len(lines)
          BY <2>1, <2>5
        <5>3. start + (i + 1) = (start + 1) + i
          BY <4>0, <5>2
        <5> QED
          BY <5>1, <5>2, <5>3
      <4>2. t[i] = numbered[Len(lines) + i]
        BY <2>1, <3>2, <4>1
      <4>3. i \in 1 .. Len(numbered) - Len(lines)
        BY <2>3, <3>3
      <4> QED
        BY <2>3, <4>2, <4>3
    <3>5. t = s
      BY <2>3, <3>2, <3>3, <3>4, SeqEqual
    <3> QED
      BY <3>1, <3>5, <1>2, <1>4, <1>6, TornLine DEF BarInv, s, t
  <2>6. start = Len(lines) \/ (start + 1 = Len(lines) /\ pending # <<>>)
    BY <1>6 DEF IInv, WriterInv, BufferInv, start
  <2> QED
    BY <2>4, <2>5, <2>6
<1> QED
  BY <1>5, <1>6

\* A step that neither numbers nor commits a record leaves log and buffer.
LEMMA SameBars ==
  ASSUME IInv, BarInv, BarInv', UNCHANGED numbered, LogLen' = LogLen,
         Live' <=> Live, ~Live \/ Len(lines') = Len(lines)
  PROVE  LogBar' = LogBar /\ BufferBar' = BufferBar
<1>1. LogBar' = LogBar
  BY DEF BarInv
<1>2. CASE Live
  BY <1>2 DEF BarInv
<1>3. CASE ~Live
  BY <1>3 DEF BarInv
<1> QED
  BY <1>1, <1>2, <1>3

\* The head of the buffer of a live writer is the record after its log.
LEMMA HeadOfBar ==
  ASSUME IInv, BarInv, Live, Len(lines) < Len(numbered)
  PROVE  /\ BufferBar # <<>>
         /\ Append(LogBar, Head(BufferBar)) = SubSeq(numbered, 1, Len(lines) + 1)
         /\ Tail(BufferBar) = SubSeq(numbered, Len(lines) + 1 + 1, Len(numbered))
<1> DEFINE m == Len(lines) + 1
           n == Len(numbered)
           s == SubSeq(numbered, m, n)
<1>1. /\ numbered \in Seq(Records) /\ n \in Nat /\ Len(lines) \in Nat
      /\ m \in 1 .. n /\ n \in m .. n
  BY IInvFacts
<1>2. BufferBar = s /\ LogBar = SubSeq(numbered, 1, Len(lines))
  BY DEF BarInv, LogLen
<1>3. /\ Head(s) = numbered[m] /\ Tail(s) = SubSeq(numbered, m + 1, n)
  BY <1>1, HeadTailOfSubSeq
<1>4. s # <<>>
  <2>1. Len(s) = n - m + 1
    BY <1>1
  <2> HIDE DEF s
  <2>2. Len(s) # 0
    BY <1>1, <2>1
  <2> QED
    BY <2>2, EmptySeq
<1>5. SubSeq(numbered, 1, m) = Append(SubSeq(numbered, 1, Len(lines)), numbered[m])
  BY <1>1, PrefixGrows
<1> QED
  BY <1>2, <1>3, <1>4, <1>5

\* A step of a live writer that completes a line commits a record.
LEMMA LineCommitted ==
  ASSUME IInv, BarInv, BarInv', UNCHANGED <<numbered, writer, promised>>, Live,
         Len(lines') = Len(lines) + 1
  PROVE  Log!Commit
<1>1. Live' /\ LogLen' = Len(lines) + 1
  BY DEF Live, LogLen
<1>2. Len(lines) < Len(numbered)
  BY <1>1, IInvFacts DEF BarInv
<1>3. /\ LogBar' = SubSeq(numbered, 1, Len(lines) + 1)
      /\ BufferBar' = SubSeq(numbered, Len(lines) + 1 + 1, Len(numbered))
  BY <1>1 DEF BarInv
<1>4. UNCHANGED <<Len(promised), IF Live THEN "open" ELSE writer>>
  BY <1>1
<1> QED
  BY <1>2, <1>3, <1>4, HeadOfBar DEF Log!Commit

\* A step that loses the writer keeps what was promised, and at most the head
\* of the buffer beyond the log.
LEMMA WriterLost ==
  ASSUME IInv, BarInv, BarInv', UNCHANGED <<numbered, promised>>, writer' = "lost",
         Len(promised) <= LogLen',
         LogLen' <= LogLen \/ (Live /\ LogLen' = LogLen + 1)
  PROVE  Log!Lose
<1>1. ~Live' /\ BufferBar' = <<>> /\ LogBar' = SubSeq(numbered, 1, LogLen')
  BY DEF Live, BarInv
<1>2. /\ LogLen \in Nat /\ LogLen' \in Nat /\ Len(promised) \in Nat
      /\ LogLen <= Len(numbered) /\ LogLen' <= Len(numbered)
      /\ Len(numbered) \in Nat /\ numbered \in Seq(Records)
  BY IInvFacts DEF BarInv
<1>3. Len(LogBar) = LogLen /\ LogBar \in Seq(Records)
  BY <1>2, PrefixFacts DEF BarInv
<1>4. Len(promised) \in Len(promised) .. Len(LogBar)
  <2>1. Len(promised) <= Len(lines)
    BY IInvFacts DEF IInv, WriterInv, DurabilityInv
  <2> QED
    BY <1>2, <1>3, <2>1, IInvFacts DEF BarInv
<1>5. \E n \in Len(promised) .. Len(LogBar) :
        \/ LogBar' = SubSeq(LogBar, 1, n)
        \/ BufferBar # <<>> /\ LogBar' = Append(LogBar, Head(BufferBar))
  <2>1. CASE LogLen' <= LogLen
    <3>1. LogLen' \in Len(promised) .. Len(LogBar)
      BY <1>2, <1>3, <2>1
    <3>0. PICK k \in Nat : k = LogLen'
      BY <1>2
    <3>k. k \in 0 .. Len(LogBar) /\ k \in 0 .. Len(numbered)
      BY <1>2, <1>3, <2>1, <3>0
    <3> DEFINE p == SubSeq(LogBar, 1, k)
               q == SubSeq(numbered, 1, k)
    <3>2. /\ p \in Seq(Records) /\ Len(p) = k
          /\ \A i \in 1 .. k : p[i] = LogBar[i]
      BY <1>3, <3>k, PrefixFacts
    <3>3. /\ q \in Seq(Records) /\ Len(q) = k
          /\ \A i \in 1 .. k : q[i] = numbered[i]
      BY <1>2, <3>k, PrefixFacts
    <3>4. \A i \in 1 .. k : LogBar[i] = numbered[i]
      <4>1. \A i \in 1 .. LogLen : LogBar[i] = numbered[i]
        BY <1>2, PrefixFacts DEF BarInv
      <4> QED
        BY <1>2, <2>1, <3>0, <4>1
    <3> HIDE DEF p, q
    <3>5. p = q
      BY <3>2, <3>3, <3>4, SeqEqual
    <3> QED
      BY <1>1, <3>0, <3>1, <3>5 DEF p, q
  <2>2. CASE Live /\ LogLen' = LogLen + 1
    <3>1. LogLen = Len(lines) /\ Len(lines) < Len(numbered)
      BY <1>2, <2>2 DEF LogLen
    <3>2. BufferBar # <<>>
          /\ Append(LogBar, Head(BufferBar)) = SubSeq(numbered, 1, LogLen')
      BY <2>2, <3>1, HeadOfBar
    <3> QED
      BY <1>1, <1>4, <3>2
  <2> QED
    BY <2>1, <2>2
<1>6. (IF Live THEN "open" ELSE writer)' = "lost"
  BY <1>1
<1>7. UNCHANGED Len(promised)
  OBVIOUS
<1> QED
  BY <1>1, <1>5, <1>6, <1>7 DEF Log!Lose

-----------------------------------------------------------------------------
(* Every step of the writer is a step of the log, or none.                 *)

\* A step of the running operation leaves the writer live, and completes at
\* most one line.
LEMMA OpLines ==
  ASSUME IInv,
         \/ \E n \in 1 .. LineLen : WriteChunk(n)
         \/ WriteNothing \/ \E n \in 0 .. LineLen : WriteFails(n)
         \/ Recover \/ RecoverFails \/ DrainDone \/ SyncFails
  PROVE  /\ Live /\ UNCHANGED <<numbered, writer, promised>>
         /\ Len(lines') = Len(lines) \/ Len(lines') = Len(lines) + 1
<1>1. ops # <<>>
  BY DEF WriteChunk, WriteNothing, WriteFails, Recover, RecoverFails, DrainDone,
         SyncFails, Draining, Running
<1>2. Live
  BY <1>1 DEF IInv, WriterInv, QueueInv
<1>3. UNCHANGED <<numbered, writer, promised>>
  BY DEF WriteChunk, WriteNothing, WriteFails, Recover, RecoverFails, DrainDone,
         SyncFails, Reject, historyVars
<1>4. Len(lines') = Len(lines) \/ Len(lines') = Len(lines) + 1
  <2>1. ASSUME NEW n \in 1 .. LineLen, WriteChunk(n)
        PROVE  Len(lines') = Len(lines) \/ Len(lines') = Len(lines) + 1
    <3>1. /\ Draining /\ ~needsRecovery /\ n \in 1 .. LineLen - offset /\ PutUnits(n)
          /\ UNCHANGED numbered
      BY <2>1, <1>3 DEF WriteChunk
    <3>2. n \in 0 .. LineLen - offset
      BY <3>1
    <3> QED
      BY <3>1, <3>2, PutUnitsFile
  <2>2. ASSUME NEW n \in 0 .. LineLen, WriteFails(n)
        PROVE  Len(lines') = Len(lines) \/ Len(lines') = Len(lines) + 1
    <3>1. CASE n = 0
      BY <2>2, <3>1 DEF WriteFails
    <3>2. CASE n # 0
      <4>1. /\ Draining /\ ~needsRecovery /\ n \in 0 .. LineLen - offset /\ PutUnits(n)
            /\ UNCHANGED numbered
        BY <2>2, <3>2, <1>3 DEF WriteFails
      <4> QED
        BY <4>1, PutUnitsFile
    <3> QED
      BY <3>1, <3>2
  <2>3. CASE Recover \/ RecoverFails
    <3>1. Draining /\ needsRecovery
      BY <2>3 DEF Recover, RecoverFails
    <3>2. CASE UNCHANGED lines
      BY <3>2
    <3>3. CASE \/ /\ tail = <<>> /\ lines # <<>>
                  /\ EndsWith(Last(lines), LineOf(pending[1]))
                  /\ UNCHANGED <<lines, tail>>
               \/ /\ tail = Chunk(pending[1], 1, LineLen - 1)
                  /\ lines' = Append(lines, Append(tail, Unit(pending[1], LineLen)))
                  /\ tail' = <<>>
      <4>1. /\ Len(numbered) - Len(pending) + 1 = Len(lines')
            /\ Len(lines') \in Nat /\ Len(lines) <= Len(lines')
        BY <1>3, <3>1, <3>3, CommittedFile
      <4>2. \/ Len(numbered) - Len(pending) = Len(lines)
            \/ Len(numbered) - Len(pending) + 1 = Len(lines)
        BY <1>2 DEF IInv, WriterInv, BufferInv
      <4> QED
        BY <4>1, <4>2
    <3> QED
      BY <2>3, <3>2, <3>3 DEF Recover, RecoverFails, TailCommitted, TailAbsent
  <2>4. CASE WriteNothing \/ DrainDone \/ SyncFails
    BY <2>4 DEF WriteNothing, DrainDone, SyncFails, fileVars
  <2> QED
    BY <2>1, <2>2, <2>3, <2>4
<1> QED
  BY <1>2, <1>3, <1>4

\* A step of the running operation commits a record or is not seen.
LEMMA OpStepLogged ==
  ASSUME IInv, BarInv, BarInv',
         \/ \E n \in 1 .. LineLen : WriteChunk(n)
         \/ WriteNothing \/ \E n \in 0 .. LineLen : WriteFails(n)
         \/ Recover \/ RecoverFails \/ DrainDone \/ SyncFails
  PROVE  [Log!LogNext]_(Log!logVars)
<1>1. /\ Live /\ UNCHANGED <<numbered, writer, promised>>
      /\ Len(lines') = Len(lines) \/ Len(lines') = Len(lines) + 1
  BY OpLines
<1>2. CASE Len(lines') = Len(lines)
  <2>1. Live' /\ LogLen' = LogLen
    BY <1>1, <1>2 DEF Live, LogLen
  <2>2. LogBar' = LogBar /\ BufferBar' = BufferBar
    BY <1>1, <1>2, <2>1, SameBars
  <2> QED
    BY <1>1, <2>1, <2>2 DEF Log!logVars
<1>3. CASE Len(lines') = Len(lines) + 1
  BY <1>1, <1>3, LineCommitted DEF Log!LogNext
<1> QED
  BY <1>1, <1>2, <1>3

\* Calls that append nothing are not steps of the log.
LEMMA CallStutters ==
  ASSUME FlushThread \/ ShutdownThread \/ DiscardThread
  PROVE  UNCHANGED Log!logVars
<1>1. UNCHANGED <<lines, tail, pending, promised>>
  BY DEF FlushThread, ShutdownThread, DiscardThread, Enqueue, fileVars, historyVars
<1>2. writer = "open" /\ Live /\ Live'
  BY DEF FlushThread, ShutdownThread, DiscardThread, Live
<1>3. LogBar' = LogBar /\ BufferBar' = BufferBar
  BY <1>1, <1>2 DEF LogBar, BufferBar, FileRecords
<1>4. (IF Live THEN "open" ELSE writer)' = IF Live THEN "open" ELSE writer
  BY <1>2
<1> QED
  BY <1>1, <1>3, <1>4 DEF Log!logVars

\* An append is accepted: its batch joins the buffer.
LEMMA AppendAccepted ==
  ASSUME IInv, BarInv, BarInv', gen \in 1 .. MaxGen, NEW n \in 1 .. 2, AppendItems(n)
  PROVE  Log!Accept
<1> DEFINE batch == [i \in 1 .. n |-> [seq |-> nextSeq + i - 1, gen |-> gen]]
           old == Len(numbered)
<1>1. /\ writer = "open" /\ Live /\ Live' /\ UNCHANGED <<lines, tail, promised>>
      /\ numbered' = numbered \o batch
  BY DEF AppendItems, Live, fileVars
<1>2. batch \in Seq(Records) /\ Len(batch) = n
  BY DEF IInv, AllOK, BufferOK, Records
<1>3. /\ numbered \in Seq(Records) /\ old \in Nat /\ Len(lines) \in 0 .. old
      /\ nextSeq = old + 1 /\ nextSeq \in Nat
  <2>1. Len(lines) <= old
    BY DEF IInv, WriterInv, FileInv
  <2> QED
    BY <2>1, IInvFacts
<1>4. /\ LogBar = SubSeq(numbered, 1, Len(lines))
      /\ BufferBar = SubSeq(numbered, Len(lines) + 1, old)
  BY <1>1 DEF BarInv, LogLen
<1>5. /\ Len(LogBar) = Len(lines) /\ BufferBar \in Seq(Records)
      /\ Len(BufferBar) = old - Len(lines)
      /\ \A i \in 1 .. old - Len(lines) : BufferBar[i] = numbered[Len(lines) + i]
  BY <1>3, <1>4
<1>6. LogBar' = LogBar
  BY <1>1 DEF LogBar, FileRecords
<1> HIDE DEF batch
<1>7. /\ numbered' \in Seq(Records) /\ Len(numbered') = old + n
      /\ \A i \in 1 .. old + n : numbered'[i] =
           IF i <= old THEN numbered[i] ELSE batch[i - old]
  BY <1>1, <1>2, <1>3, ConcatProperties
<1> DEFINE s == SubSeq(numbered', Len(lines) + 1, old + n)
           t == BufferBar \o batch
           m == old - Len(lines)
<1>8. BufferBar' = s
  BY <1>1, <1>7 DEF BarInv
<1>9. /\ m \in Nat /\ old = Len(lines) + m /\ Len(lines) \in Nat
  BY <1>3
<1> HIDE DEF old, m
<1>10. /\ s \in Seq(Records) /\ Len(s) = m + n
       /\ \A i \in 1 .. m + n : s[i] = numbered'[Len(lines) + i]
  BY <1>7, <1>9
<1>11. /\ t \in Seq(Records) /\ Len(t) = m + n
       /\ \A i \in 1 .. m + n : t[i] = IF i <= m THEN BufferBar[i] ELSE batch[i - m]
  <2>1. Len(BufferBar) = m
    BY <1>5 DEF m
  <2>2. /\ t \in Seq(Records) /\ Len(t) = Len(BufferBar) + Len(batch)
        /\ \A i \in 1 .. Len(BufferBar) + Len(batch) :
             t[i] = IF i <= Len(BufferBar) THEN BufferBar[i]
                    ELSE batch[i - Len(BufferBar)]
    BY <1>2, <1>5, ConcatProperties
  <2> QED
    BY <1>2, <2>1, <2>2
<1>12. ASSUME NEW i \in 1 .. m + n PROVE s[i] = t[i]
  <2>1. Len(lines) + i \in 1 .. old + n
    BY <1>9
  <2>2. CASE i <= m
    <3>1. Len(lines) + i <= old /\ i \in 1 .. m
      BY <1>9, <2>2
    <3> QED
      BY <1>5, <1>7, <1>10, <1>11, <2>1, <2>2, <3>1 DEF m
  <2>3. CASE ~(i <= m)
    <3>1. ~(Len(lines) + i <= old) /\ (Len(lines) + i) - old = i - m
      BY <1>9, <2>3
    <3> QED
      BY <1>7, <1>10, <1>11, <2>1, <2>3, <3>1
  <2> QED
    BY <2>2, <2>3
<1> HIDE DEF s, t
<1>13. BufferBar' = BufferBar \o batch
  <2>1. s = t
    BY <1>10, <1>11, <1>12, SeqEqual
  <2> QED
    BY <1>8, <2>1 DEF t
<1>14. n \in 1 .. Len(BufferBar')
  BY <1>8, <1>9, <1>10
<1>15. batch = [i \in 1 .. n |-> [seq |-> Len(LogBar) + Len(BufferBar) + i, gen |-> gen]]
  <2>1. \A i \in 1 .. n : nextSeq + i - 1 = Len(LogBar) + Len(BufferBar) + i
    BY <1>3, <1>5, <1>9 DEF old
  <2> QED
    BY <2>1 DEF batch
<1>16. UNCHANGED <<LogBar, Len(promised), IF Live THEN "open" ELSE writer>>
  BY <1>1, <1>6
<1> QED
  BY <1>1, <1>13, <1>14, <1>15, <1>16 DEF Log!Accept

\* A flush that resolves promises more; a shutdown that resolves closes a log
\* with nothing left in the buffer.
LEMMA SyncPromises ==
  ASSUME IInv, IInv', BarInv, BarInv', Sync
  PROVE  Log!LogNext
<1>1. /\ Live /\ UNCHANGED <<lines, tail, numbered, pending>>
      /\ Op \in OpRecords
  <2>1. ops # <<>>
    BY DEF Sync, Running
  <2>2. 1 \in DOMAIN ops
    BY <2>1, IInvFacts, EmptySeq
  <2> QED
    BY <2>1, <2>2, IInvFacts DEF Sync, Op, IInv, WriterInv, QueueInv
<1>2. /\ Len(promised') \in Nat /\ Len(promised) \in Nat /\ Len(lines) \in Nat
      /\ Len(promised') <= Len(lines) /\ Len(LogBar) = Len(lines)
      /\ numbered \in Seq(Records) /\ Len(lines) <= Len(numbered)
      /\ Len(numbered) = nextSeq - 1 /\ nextSeq \in Nat
  <2>1. /\ Len(promised') <= synced'.lines /\ synced'.lines <= Len(lines')
        /\ promised' \in Seq(Records) /\ synced'.lines \in Nat
    BY DEF IInv, AllOK, FileOK, HistoryOK, WriterInv, DurabilityInv
  <2>2. Len(lines) <= Len(numbered)
    BY DEF IInv, WriterInv, FileInv
  <2>3. LogBar = SubSeq(numbered, 1, Len(lines))
    BY <1>1 DEF BarInv, LogLen
  <2>4. Len(lines) \in 0 .. Len(numbered) /\ numbered \in Seq(Records)
    BY <2>2, IInvFacts
  <2>5. Len(LogBar) = Len(lines)
    BY <2>3, <2>4, PrefixFacts
  <2>6. Len(promised') \in Nat /\ Len(promised') <= Len(lines)
    <3>1. Len(lines') = Len(lines) /\ Len(promised') \in Nat /\ Len(lines) \in Nat
      BY <1>1, <2>1, IInvFacts
    <3> QED
      BY <2>1, <3>1
  <2> QED
    BY <2>2, <2>5, <2>6, IInvFacts
<1>3. \/ promised' = promised /\ ~(Len(promised) < Op.end - 1)
      \/ Len(promised) < Op.end - 1 /\ Len(promised') = Op.end - 1
  <2>1. CASE Len(promised) < Op.end - 1
    <3>1. 1 \in DOMAIN ops /\ Op.end <= nextSeq
      <4>1. ops # <<>>
        BY DEF Sync, Running
      <4>2. 1 \in DOMAIN ops
        BY <4>1, IInvFacts, EmptySeq
      <4> QED
        BY <4>2 DEF Op, IInv, WriterInv, NumberingInv
    <3>2. Op.end - 1 \in 0 .. Len(numbered)
      BY <1>1, <1>2, <3>1 DEF OpRecords
    <3>3. promised' = SubSeq(numbered, 1, Op.end - 1)
      BY <2>1 DEF Sync
    <3>4. PICK end \in 0 .. Len(numbered) : end = Op.end - 1
      BY <3>2
    <3> QED
      BY <1>2, <2>1, <3>3, <3>4, PrefixFacts
  <2>2. CASE ~(Len(promised) < Op.end - 1)
    BY <2>2 DEF Sync
  <2> QED
    BY <2>1, <2>2
<1>4. Len(promised) <= Len(promised')
  BY <1>1, <1>2, <1>3 DEF OpRecords
<1>5. CASE Op.kind # "shutdown"
  <2>1. UNCHANGED writer /\ Live'
    BY <1>1, <1>5 DEF Sync, Live
  <2>2. LogBar' = LogBar /\ BufferBar' = BufferBar
    BY <1>1, <2>1 DEF LogBar, BufferBar, FileRecords
  <2>3. UNCHANGED <<LogBar, BufferBar, IF Live THEN "open" ELSE writer>>
    BY <1>1, <2>1, <2>2
  <2>4. Len(promised)' \in Len(promised) .. Len(LogBar)
    BY <1>2, <1>4
  <2>5. Log!Promise
    BY <2>3, <2>4 DEF Log!Promise
  <2> QED
    BY <2>5 DEF Log!LogNext
<1>6. CASE Op.kind = "shutdown"
  <2>1. writer' = "closed" /\ ~Live'
    BY <1>6 DEF Sync, Live
  <2>2. pending = <<>> /\ Len(lines) = Len(numbered)
    BY <1>6, ShutdownDrained
  <2>3. Op.end = nextSeq
    <3>1. ops # <<>> /\ ops[1] = Op
      BY DEF Sync, Running, Op
    <3>2. 1 \in DOMAIN ops
      BY <3>1, IInvFacts, EmptySeq
    <3> QED
      BY <1>6, <3>1, <3>2 DEF IInv, WriterInv, QueueInv
  <2>4. Len(promised') = Len(LogBar)
    BY <1>2, <1>3, <2>2, <2>3
  <2>5. tail = <<>>
    BY <1>2, <2>2, TornLine
  <2>6. LogBar' = LogBar /\ BufferBar' = BufferBar
    BY <1>1, <2>5 DEF LogBar, BufferBar, FileRecords, Parses
  <2>7. BufferBar = <<>>
    BY <2>2 DEF BufferBar
  <2>8. /\ (IF Live THEN "open" ELSE writer) = "open"
        /\ (IF Live THEN "open" ELSE writer)' = "closed"
    BY <1>1, <2>1
  <2>9. Log!Close
    BY <2>4, <2>6, <2>7, <2>8 DEF Log!Close
  <2> QED
    BY <2>9 DEF Log!LogNext
<1> QED
  BY <1>5, <1>6

\* The end of the process leaves the file as it is.
LEMMA EndLoses ==
  ASSUME IInv, IInv', BarInv, BarInv', FinishDiscard \/ Crash
  PROVE  Log!LogNext
<1>1. /\ Live /\ ~Live' /\ writer' = "lost"
      /\ UNCHANGED <<lines, tail, numbered, promised>>
  BY DEF FinishDiscard, Crash, DropWriter, Live, fileVars, historyVars
<1>2. Len(promised) <= LogLen'
  <2>1. Len(promised) <= Len(lines)
    BY IInvFacts DEF IInv, WriterInv, DurabilityInv
  <2> QED
    BY <1>1, <2>1, IInvFacts DEF BarInv
<1>3. LogLen = Len(lines) /\ (LogLen' = Len(lines) \/ LogLen' = Len(lines) + 1)
  BY <1>1 DEF LogLen
<1>4. LogLen' <= LogLen \/ (Live /\ LogLen' = LogLen + 1)
  BY <1>1, <1>3, IInvFacts
<1>5. Log!Lose
  BY <1>1, <1>2, <1>4, WriterLost
<1> QED
  BY <1>5 DEF Log!LogNext

\* What a power loss leaves after the last newline is part of one line.
LEMMA PowerLossTail ==
  ASSUME IInv, PowerLoss, Len(lines') = Len(lines)
  PROVE  Len(tail') <= Len(tail)
<1>1. PICK n \in synced.lines .. Len(lines) :
        LET rest == IF n < Len(lines) THEN lines[n + 1] ELSE tail
            least == IF n = synced.lines THEN synced.tail ELSE 0 IN
        \E k \in least .. Len(rest) :
          /\ n < Len(lines) => k < Len(rest)
          /\ lines' = SubSeq(lines, 1, n)
          /\ tail' = SubSeq(rest, 1, k)
          /\ synced' = [lines |-> n, tail |-> k]
  BY DEF PowerLoss
<1>2. n \in 0 .. Len(lines) /\ lines \in Seq(Seq(Units)) /\ tail \in Seq(Units)
  BY IInvFacts
<1>3. lines' = SubSeq(lines, 1, n)
  BY <1>1
<1>4. n = Len(lines)
  BY <1>2, <1>3, PrefixFacts
<1>5. PICK k \in (IF n = synced.lines THEN synced.tail ELSE 0) .. Len(tail) :
        tail' = SubSeq(tail, 1, k)
  BY <1>1, <1>2, <1>4
<1>6. k \in 0 .. Len(tail)
  <2>1. synced \in [lines : Nat, tail : Nat]
    BY DEF IInv, AllOK, FileOK
  <2> QED
    BY <1>2, <1>5, <2>1
<1> QED
  BY <1>2, <1>5, <1>6, PrefixFacts

\* A power loss keeps what was promised and at most the head of the buffer.
LEMMA PowerLossLoses ==
  ASSUME IInv, IInv', BarInv, BarInv', PowerLoss
  PROVE  Log!LogNext
<1>1. writer' = "lost" /\ ~Live' /\ UNCHANGED <<numbered, promised>>
  BY DEF PowerLoss, DropWriter, Live
<1>2. /\ Len(lines) \in Nat /\ Len(lines') \in Nat /\ Len(promised) \in Nat
      /\ Len(lines') <= Len(lines) /\ Len(lines') <= LogLen' /\ Len(lines) <= LogLen
      /\ LogLen \in Nat /\ LogLen' \in Nat
  BY CutFile, IInvFacts DEF BarInv
<1>3. Len(promised) <= LogLen'
  <2>1. Len(promised) <= synced.lines /\ synced.lines <= Len(lines')
    BY CutFile DEF IInv, WriterInv, DurabilityInv
  <2> QED
    BY <1>2, <2>1, IInvFacts
<1>4. LogLen' = Len(lines') \/ (LogLen' = Len(lines') + 1 /\ Parses(tail)')
  BY <1>1 DEF LogLen
<1>5. LogLen' <= LogLen \/ (Live /\ LogLen' = LogLen + 1)
  <2>1. CASE LogLen' = Len(lines') \/ Len(lines') < Len(lines)
    BY <1>2, <1>4, <2>1
  <2>2. CASE Len(lines') = Len(lines) /\ LogLen' = Len(lines') + 1
    <3>1. CASE Live
      BY <1>2, <2>2, <3>1 DEF LogLen
    <3>2. CASE ~Live
      <4>1. Len(tail') = LineLen - 1
        BY <1>2, <1>4, <2>2 DEF BarInv
      <4>2. Len(tail') <= Len(tail)
        BY <2>2, PowerLossTail
      <4>3. Len(tail) = LineLen - 1
        BY <4>1, <4>2, IInvFacts, LineLenAssumption DEF LineLenAssumption
      <4>4. LogLen = Len(lines) + 1
        BY <3>2, <4>3 DEF BarInv, LogLen
      <4> QED
        BY <1>2, <2>2, <4>4
    <3> QED
      BY <3>1, <3>2
  <2> QED
    BY <1>2, <1>4, <2>1, <2>2
<1>6. Log!Lose
  BY <1>1, <1>3, <1>5, WriterLost
<1> QED
  BY <1>6 DEF Log!LogNext

\* What the repair of the tail leaves is what a reader of the file saw.
LEMMA RepairKeepsLog ==
  ASSUME IInv, ~Live, CompleteTail \/ CutTail
  PROVE  FileRecords' = LogBar /\ tail' = <<>>
<1>1. /\ lines \in Seq(Seq(Units)) /\ tail \in Seq(Units) /\ Len(lines) \in Nat
      /\ DOMAIN lines = 1 .. Len(lines)
  BY IInvFacts
<1>2. CASE CutTail
  BY <1>2 DEF CutTail, LogBar, FileRecords
<1>3. CASE CompleteTail
  <2> DEFINE r == tail[1].rec
             line == Append(tail, Unit(r, LineLen))
  <2>1. /\ tail # <<>> /\ lines' = Append(lines, line) /\ tail' = <<>>
        /\ LogBar = Append(FileRecords, r)
    BY <1>3 DEF CompleteTail, Parses, LogBar
  <2>2. /\ Len(lines) < Len(numbered) /\ r = numbered[Len(lines) + 1]
    BY <2>1, TornLine
  <2>3. r \in Records
    BY <1>1, <2>2, IInvFacts
  <2>4. line \in Seq(Units) /\ line[1] = tail[1]
    <3>1. Unit(r, LineLen) \in Units
      BY <2>3, NewlineType
    <3>2. Len(tail) \in Nat \ {0}
      BY <1>1, <2>1, EmptySeq
    <3> HIDE DEF r
    <3> QED
      BY <1>1, <3>1, <3>2
  <2>5. RecordOf(line) = r
    BY <2>4 DEF RecordOf
  <2> HIDE DEF line, r
  <2>6. /\ DOMAIN lines' = 1 .. Len(lines) + 1 /\ lines'[Len(lines) + 1] = line
        /\ \A i \in 1 .. Len(lines) : lines'[i] = lines[i]
    BY <1>1, <2>1, <2>4
  <2>7. ASSUME NEW i \in 1 .. Len(lines) PROVE RecordOf(lines[i]) \in Records
    <3>1. lines[i] = LineOf(numbered[i]) /\ Len(lines) <= Len(numbered)
      BY <1>1 DEF IInv, WriterInv, FileInv
    <3>2. numbered[i] \in Records
      BY <1>1, <3>1, IInvFacts
    <3> QED
      BY <3>1, <3>2, LineFacts
  <2>8. /\ FileRecords \in Seq(Records) /\ Len(FileRecords) = Len(lines)
        /\ \A i \in 1 .. Len(lines) : FileRecords[i] = RecordOf(lines[i])
    BY <1>1, <2>7 DEF FileRecords
  <2> DEFINE a == Append(FileRecords, r)
             b == [i \in 1 .. Len(lines) + 1 |-> RecordOf(lines'[i])]
  <2>9. /\ a \in Seq(Records) /\ Len(a) = Len(lines) + 1
        /\ \A i \in 1 .. Len(lines) : a[i] = FileRecords[i]
        /\ a[Len(lines) + 1] = r
    BY <1>1, <2>3, <2>8
  <2>10. ASSUME NEW i \in 1 .. Len(lines) + 1
         PROVE  a[i] = RecordOf(lines'[i]) /\ RecordOf(lines'[i]) \in Records
    <3>1. CASE i = Len(lines) + 1
      BY <2>3, <2>5, <2>6, <2>9, <3>1
    <3>2. CASE i \in 1 .. Len(lines)
      BY <2>6, <2>7, <2>8, <2>9, <3>2
    <3>3. i = Len(lines) + 1 \/ i \in 1 .. Len(lines)
      BY <1>1
    <3> QED
      BY <3>1, <3>2, <3>3
  <2>11. /\ b \in Seq(Records) /\ Len(b) = Len(lines) + 1
         /\ \A i \in 1 .. Len(lines) + 1 : b[i] = RecordOf(lines'[i])
    BY <1>1, <2>10
  <2>12. FileRecords' = b
    BY <2>6 DEF FileRecords
  <2> HIDE DEF a, b
  <2>13. a = b
    BY <2>9, <2>10, <2>11, SeqEqual
  <2> QED
    BY <2>1, <2>12, <2>13 DEF a
<1> QED
  BY <1>2, <1>3

\* Opening the rollout again starts from the log that was there.
LEMMA ResumeReopens == ASSUME IInv, IInv', ResumeThread PROVE Log!LogNext
<1>1. /\ ~Live /\ Live' /\ (CompleteTail \/ CutTail)
      /\ UNCHANGED <<pending, promised>>
  BY DEF ResumeThread, Live
<1>2. LogBar' = LogBar
  BY <1>1, RepairKeepsLog DEF LogBar
<1>3. BufferBar' = BufferBar
  <2>1. pending = <<>>
    BY <1>1 DEF IInv, WriterInv, SyncInv
  <2> QED
    BY <1>1, <2>1 DEF BufferBar
<1>4. /\ (IF Live THEN "open" ELSE writer) # "open"
      /\ (IF Live THEN "open" ELSE writer)' = "open"
  BY <1>1 DEF Live
<1>5. Log!Reopen
  BY <1>1, <1>2, <1>3, <1>4 DEF Log!Reopen
<1> QED
  BY <1>5 DEF Log!LogNext

\* A repair alone changes nothing that a reader sees.
LEMMA RepairStutters == ASSUME IInv, ResumeFails PROVE UNCHANGED Log!logVars
<1>1. /\ ~Live /\ ~Live' /\ UNCHANGED <<pending, promised, writer>>
      /\ CompleteTail \/ CutTail
  BY DEF ResumeFails, Live, historyVars
<1>2. LogBar' = LogBar
  BY <1>1, RepairKeepsLog DEF LogBar, Parses
<1>3. BufferBar' = BufferBar
  <2>1. pending = <<>>
    BY <1>1 DEF IInv, WriterInv, SyncInv
  <2> QED
    BY <1>1, <2>1 DEF BufferBar
<1> QED
  BY <1>1, <1>2, <1>3 DEF Log!logVars

\* The incarnations are those the abstract specification tells apart.
GenInv == gen \in 1 .. MaxGen

LEMMA GenNext == GenInv /\ [Next]_vars => GenInv'
<1> SUFFICES ASSUME GenInv, [Next]_vars PROVE GenInv'
  OBVIOUS
<1>1. CASE ResumeThread
  BY <1>1, BoundsAssumption DEF ResumeThread, GenInv, BoundsAssumption
<1>2. CASE ~ResumeThread
  <2>1. UNCHANGED gen
    BY <1>2 DEF Next, Calls, OpStep, AppendItems, FlushThread, ShutdownThread,
       DiscardThread, WriteChunk, WriteNothing, WriteFails, Recover, RecoverFails,
       DrainDone, Sync, SyncFails, FinishDiscard, Crash, PowerLoss, ResumeFails,
       Reject, DropWriter, vars
  <2> QED
    BY <2>1 DEF GenInv
<1> QED
  BY <1>1, <1>2

LEMMA NextLogged ==
  ASSUME IInv, IInv', BarInv, BarInv', GenInv, [Next]_vars
  PROVE  [Log!LogNext]_(Log!logVars)
<1>1. ASSUME NEW n \in 1 .. 2, AppendItems(n) PROVE Log!LogNext
  BY <1>1, AppendAccepted DEF GenInv, Log!LogNext
<1>2. CASE FlushThread \/ ShutdownThread \/ DiscardThread
  BY <1>2, CallStutters
<1>3. CASE \/ \E n \in 1 .. LineLen : WriteChunk(n)
           \/ WriteNothing \/ \E n \in 0 .. LineLen : WriteFails(n)
           \/ Recover \/ RecoverFails \/ DrainDone \/ SyncFails
  BY <1>3, OpStepLogged
<1>4. CASE Sync
  BY <1>4, SyncPromises
<1>5. CASE FinishDiscard \/ Crash
  BY <1>5, EndLoses
<1>6. CASE PowerLoss
  BY <1>6, PowerLossLoses
<1>7. CASE ResumeThread
  BY <1>7, ResumeReopens
<1>8. CASE ResumeFails
  BY <1>8, RepairStutters
<1>9. CASE UNCHANGED vars
  BY <1>9 DEF vars, Log!logVars, LogBar, BufferBar, FileRecords, Live, Parses
<1> QED
  BY <1>1, <1>2, <1>3, <1>4, <1>5, <1>6, <1>7, <1>8, <1>9 DEF Next, Calls, OpStep

\* The files, short writes, retries and repairs of a rollout writer implement
\* RolloutLog: a log that is only ever appended to in order, loses nothing
\* that a flush has promised, and keeps at most one record it never accepted.
THEOREM LogImplemented == Spec => ImplementsLog
<1>1. Init => Log!LogInit /\ GenInv
  <2> SUFFICES ASSUME Init PROVE Log!LogInit /\ GenInv
    OBVIOUS
  <2>1. LogBar = <<>> /\ BufferBar = <<>> /\ Live
    BY DEF Init, LogBar, BufferBar, FileRecords, Live
  <2> QED
    BY <2>1, EmptySeq, BoundsAssumption
    DEF Init, Log!LogInit, GenInv, BoundsAssumption
<1>2. IInv /\ IInv' /\ BarInv /\ BarInv' /\ GenInv /\ [Next]_vars
        => [Log!LogNext]_(Log!logVars)
  BY NextLogged
<1> QED
  BY <1>1, <1>2, GenNext, Bars, IInvAlways, PTL DEF Spec, ImplementsLog, Log!LogSpec

=============================================================================
