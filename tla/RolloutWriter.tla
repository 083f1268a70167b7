---------------------------- MODULE RolloutWriter ----------------------------
(***************************************************************************)
(* The live writer of one physical rollout (src/core/jsonl-thread-store):  *)
(* appendItems, flushThread, shutdownThread and discardThread queue        *)
(* operations on the writer's tail; the running operation drains the       *)
(* retry buffer into rollout.jsonl with short writes, failing writes,      *)
(* reconciliation of an uncertain tail and fsync; the process may crash,   *)
(* the machine may lose power, and resumeThread repairs the tail.          *)
(*                                                                         *)
(* Abstractions.  A record is its sequence number and the incarnation of   *)
(* the writer that produced it (two writers may number different records   *)
(* alike).  Its line is LineLen units, the last one the newline; a line    *)
(* parses as a record exactly when it is the whole line of one.  The       *)
(* session_meta line, written and synced before the writer exists, is left *)
(* out, so the first local record has sequence 1.  Metadata touching and   *)
(* the search projection swallow their errors and are left out.  A failed  *)
(* fsync is assumed to keep the pages dirty, so that the second fsync of   *)
(* #syncWriter means what it says, and a truncation is assumed to survive  *)
(* a power loss.                                                           *)
(***************************************************************************)
EXTENDS Naturals, Sequences, SequencesExt

CONSTANTS
  LineLen,   \* units of one line, the newline included
  MaxSeq,    \* bound: records numbered in one behaviour
  MaxGen,    \* bound: writer incarnations
  MaxOps     \* bound: operations queued on the writer's tail

ASSUME LineLenAssumption == LineLen \in Nat /\ LineLen >= 2
ASSUME BoundsAssumption == MaxSeq \in Nat /\ MaxGen \in Nat \ {0} /\ MaxOps \in Nat

VARIABLES
  lines,          \* complete lines of rollout.jsonl
  tail,           \* units after the last newline
  synced,         \* [lines, tail]: how much of both has reached the disk
  writer,         \* "open", "discarding" (out of #writers), "closed" by
                  \* a shutdown, or "lost"
  accepting,      \* LiveWriter.accepting
  nextSeq,        \* LiveWriter.nextSeq
  pending,        \* LiveWriter.pending: records not known to be in the file
  offset,         \* pending[0].offset
  needsRecovery,  \* pending[0].needsRecovery
  ops,            \* operations on LiveWriter.tail, the running one first
  phase,          \* of the running operation: "drain" or "sync"
  attempt,        \* attempt of #writePending
  gen,            \* incarnation of the writer
  numbered,       \* history: the record behind each number below nextSeq
  acked,          \* history: records of resolved appends since a power loss
  promised        \* history: the prefix of numbered that a flush has promised

fileVars == <<lines, tail, synced>>
historyVars == <<numbered, acked, promised>>
vars == <<lines, tail, synced, writer, accepting, nextSeq, pending, offset,
          needsRecovery, ops, phase, attempt, gen, numbered,
          acked, promised>>

Records == [seq : Nat \ {0}, gen : Nat \ {0}]

Units == [rec : Records, part : 1 .. LineLen]
OpRecords == [kind : {"append", "flush", "shutdown"},
              first : Nat \ {0}, end : Nat \ {0}]

Unit(r, i) == [rec |-> r, part |-> i]
\* Units first .. last of the line of record r.
Chunk(r, first, last) == [i \in 1 .. last - first + 1 |-> Unit(r, first + i - 1)]
LineOf(r) == Chunk(r, 1, LineLen)

\* isStoredRolloutItem: the bytes are one whole record, newline aside.
Parses(units) ==
  /\ units # <<>>
  /\ units = Chunk(units[1].rec, 1, LineLen - 1)
RecordOf(line) == line[1].rec
IsRecordLine(line) == line # <<>> /\ line = LineOf(line[1].rec)

Live == writer \in {"open", "discarding"}
EndsWith(units, end) ==
  /\ Len(units) >= Len(end)
  /\ SubSeq(units, Len(units) - Len(end) + 1, Len(units)) = end

Op == ops[1]
Running(kinds) == ops # <<>> /\ Op.kind \in kinds

Init ==
  /\ lines = <<>> /\ tail = <<>> /\ synced = [lines |-> 0, tail |-> 0]
  /\ writer = "open" /\ accepting = TRUE
  /\ nextSeq = 1 /\ pending = <<>> /\ offset = 0 /\ needsRecovery = FALSE
  /\ ops = <<>> /\ phase = "drain" /\ attempt = 0
  /\ gen = 1 /\ numbered = <<>> /\ acked = {} /\ promised = <<>>

-----------------------------------------------------------------------------
(* Calls of the store: each takes effect synchronously and queues work.    *)

Enqueue(kind, first, end) ==
  /\ Len(ops) < MaxOps
  /\ ops' = Append(ops, [kind |-> kind, first |-> first, end |-> end])

\* appendItems: number the batch, put it in the retry buffer, queue a drain.
AppendItems(n) ==
  /\ writer = "open" /\ accepting
  /\ nextSeq + n <= MaxSeq + 1
  /\ LET batch == [i \in 1 .. n |-> [seq |-> nextSeq + i - 1, gen |-> gen]] IN
       pending' = pending \o batch /\ numbered' = numbered \o batch
  /\ nextSeq' = nextSeq + n
  /\ Enqueue("append", nextSeq, nextSeq + n)
  /\ UNCHANGED <<fileVars, writer, accepting, offset, needsRecovery, phase,
                 attempt, gen, acked, promised>>

\* flushThread of a live writer.
FlushThread ==
  /\ writer = "open" /\ accepting
  /\ Enqueue("flush", nextSeq, nextSeq)
  /\ UNCHANGED <<fileVars, writer, accepting, nextSeq, pending, offset,
                 needsRecovery, phase, attempt, gen, historyVars>>

\* Faulty variant: the shutdown syncs without draining what is buffered.
ShutdownThreadStale ==
  /\ writer = "open" /\ accepting
  /\ accepting' = FALSE
  /\ Enqueue("shutdown", 1, 1)
  /\ UNCHANGED <<fileVars, writer, nextSeq, pending, offset, needsRecovery,
                 phase, attempt, gen, historyVars>>

\* shutdownThread: refuse new work and queue the last drain.
ShutdownThread ==
  /\ writer = "open" /\ accepting
  /\ accepting' = FALSE
  /\ Enqueue("shutdown", nextSeq, nextSeq)
  /\ UNCHANGED <<fileVars, writer, nextSeq, pending, offset, needsRecovery,
                 phase, attempt, gen, historyVars>>

\* discardThread of a writer that is not shutting down: it leaves #writers
\* at once and is closed when its queued operations have settled.
DiscardThread ==
  /\ writer = "open" /\ accepting
  /\ accepting' = FALSE
  /\ writer' = "discarding"
  /\ UNCHANGED <<fileVars, nextSeq, pending, offset, needsRecovery, ops,
                 phase, attempt, gen, historyVars>>

-----------------------------------------------------------------------------
(* The running operation: #drain, #writePending, #syncWriter.              *)

\* Faulty variants: the head of the buffer is forgotten with the failed
\* operation; a failed shutdown leaves the writer refusing all work.
RejectDropping ==
  /\ ops' = Tail(ops) /\ phase' = "drain" /\ attempt' = 0
  /\ accepting' = (accepting \/ Op.kind = "shutdown")
  /\ pending' = SubSeq(pending, 2, Len(pending))
  /\ UNCHANGED <<writer, nextSeq, gen, historyVars>>
RejectStuck ==
  /\ ops' = Tail(ops) /\ phase' = "drain" /\ attempt' = 0
  /\ UNCHANGED <<accepting, writer, nextSeq, pending, gen, historyVars>>

\* The operation rejects; a failed shutdown makes the writer usable again.
Reject ==
  /\ ops' = Tail(ops) /\ phase' = "drain" /\ attempt' = 0
  /\ accepting' = (accepting \/ Op.kind = "shutdown")
  /\ UNCHANGED <<writer, nextSeq, pending, gen, historyVars>>

\* Faulty variant: the last record of the operation is left in the buffer.
DrainingShort ==
  /\ ops # <<>> /\ phase = "drain"
  /\ pending # <<>> /\ pending[1].seq < Op.end - 1

\* #drain has a record of the operation left to write.
Draining ==
  /\ ops # <<>> /\ phase = "drain"
  /\ pending # <<>> /\ pending[1].seq < Op.end

\* The head of the retry buffer is in the file.
ShiftPending ==
  /\ pending' = Tail(pending)
  /\ offset' = 0

\* write(2) puts n units of the head record at the end of the file.
PutUnits(n) ==
  LET units == Chunk(pending[1], offset + 1, offset + n) IN
  IF offset + n = LineLen
  THEN lines' = Append(lines, tail \o units) /\ tail' = <<>>
  ELSE lines' = lines /\ tail' = tail \o units

\* A write of all or part of the remaining bytes succeeds.
WriteChunk(n) ==
  /\ Draining /\ ~needsRecovery
  /\ n \in 1 .. LineLen - offset
  /\ PutUnits(n)
  /\ attempt' = 0
  /\ IF offset + n = LineLen THEN ShiftPending
     ELSE offset' = offset + n /\ UNCHANGED pending
  /\ UNCHANGED <<synced, writer, accepting, nextSeq, needsRecovery, ops, phase,
                 gen, historyVars>>

\* A write reports no progress: the drain fails.
WriteNothing ==
  /\ Draining /\ ~needsRecovery
  /\ Reject
  /\ UNCHANGED <<fileVars, offset, needsRecovery>>

\* Faulty variant: an attempt too many.
WriteFailsThrice(n) ==
  /\ Draining /\ ~needsRecovery
  /\ n \in 0 .. LineLen - offset
  /\ IF n = 0 THEN UNCHANGED <<lines, tail>> ELSE PutUnits(n)
  /\ needsRecovery' = TRUE
  /\ IF attempt = 2 THEN Reject
     ELSE /\ attempt' = attempt + 1
          /\ UNCHANGED <<writer, accepting, nextSeq, pending, ops, phase, gen,
                         historyVars>>
  /\ UNCHANGED <<synced, offset>>

\* A write fails although some or all of its bytes may be in the file; the
\* second failure of one #writePending rejects the operation.
WriteFails(n) ==
  /\ Draining /\ ~needsRecovery
  /\ n \in 0 .. LineLen - offset
  /\ IF n = 0 THEN UNCHANGED <<lines, tail>> ELSE PutUnits(n)
  /\ needsRecovery' = TRUE
  /\ IF attempt = 1 THEN Reject
     ELSE /\ attempt' = attempt + 1
          /\ UNCHANGED <<writer, accepting, nextSeq, pending, ops, phase, gen,
                         historyVars>>
  /\ UNCHANGED <<synced, offset>>

\* reconcilePendingTail found the head record complete in the file, with or
\* without its newline.
TailCommitted ==
  \/ /\ tail = <<>> /\ lines # <<>>
     /\ EndsWith(Last(lines), LineOf(pending[1]))
     /\ UNCHANGED <<lines, tail, synced>>
  \/ /\ tail = Chunk(pending[1], 1, LineLen - 1)
     /\ lines' = Append(lines, Append(tail, Unit(pending[1], LineLen)))
     /\ tail' = <<>>
     /\ synced' = [lines |-> Len(lines'), tail |-> 0]

\* Faulty variant: a record whose whole line was written counts as absent.
TailAbsentBlind ==
  \/ tail = <<>> /\ UNCHANGED <<lines, tail, synced>>
  \/ /\ tail # <<>> /\ ~Parses(tail)
     /\ tail' = <<>>
     /\ synced' = [synced EXCEPT !.tail = 0]
     /\ UNCHANGED lines

\* It found nothing of the head record, or a torn prefix that it cuts off.
TailAbsent ==
  \/ /\ tail = <<>>
     /\ ~(lines # <<>> /\ EndsWith(Last(lines), LineOf(pending[1])))
     /\ UNCHANGED <<lines, tail, synced>>
  \/ /\ tail # <<>> /\ ~Parses(tail)
     /\ tail' = <<>>
     /\ synced' = [synced EXCEPT !.tail = 0]
     /\ UNCHANGED lines

\* #recoverWriterAfterWriteError reconciles the tail and reopens the file.
Recover ==
  /\ Draining /\ needsRecovery
  /\ \/ TailCommitted /\ ShiftPending /\ attempt' = 0
     \/ TailAbsent /\ offset' = 0 /\ UNCHANGED <<pending, attempt>>
  /\ needsRecovery' = FALSE
  /\ UNCHANGED <<writer, accepting, nextSeq, ops, phase, gen, historyVars>>

\* It fails: the tail could not be read, completed or cut, or holds another
\* whole record, or the file could not be reopened after any of these.  Only
\* the failing reopen after an absent tail has reset the offset.
RecoverFails ==
  /\ Draining /\ needsRecovery
  /\ \/ UNCHANGED <<lines, tail, synced, offset>>
     \/ TailCommitted /\ UNCHANGED offset
     \/ TailAbsent /\ offset' = 0
     \/ /\ tail = Chunk(pending[1], 1, LineLen - 1)  \* newline, but no fsync
        /\ lines' = Append(lines, Append(tail, Unit(pending[1], LineLen)))
        /\ tail' = <<>>
        /\ UNCHANGED <<synced, offset>>
  /\ Reject
  /\ UNCHANGED needsRecovery

\* The drain is done: an append resolves, a flush or shutdown goes on to sync.
DrainDone ==
  /\ ops # <<>> /\ phase = "drain" /\ ~Draining
  /\ IF Op.kind = "append"
     THEN /\ acked' = acked \union {numbered[i] : i \in Op.first .. Op.end - 1}
          /\ ops' = Tail(ops) /\ UNCHANGED phase
     ELSE phase' = "sync" /\ UNCHANGED <<ops, acked>>
  /\ attempt' = 0
  /\ UNCHANGED <<fileVars, writer, accepting, nextSeq, pending, offset,
                 needsRecovery, gen, numbered, promised>>

\* Faulty variant: the operation resolves without an fsync.
SyncWithoutFsync ==
  /\ Running({"flush", "shutdown"}) /\ phase = "sync"
  /\ promised' = IF Len(promised) < Op.end - 1 THEN SubSeq(numbered, 1, Op.end - 1)
                 ELSE promised
  /\ ops' = Tail(ops) /\ phase' = "drain"
  /\ IF Op.kind = "shutdown" THEN writer' = "closed" ELSE UNCHANGED writer
  /\ UNCHANGED <<fileVars, accepting, nextSeq, pending, offset,
                 needsRecovery, attempt, gen, numbered, acked>>

\* One of the two fsyncs of #syncWriter succeeds; the operation resolves, and
\* a shutdown closes the file and releases the writer lock.
Sync ==
  /\ Running({"flush", "shutdown"}) /\ phase = "sync"
  /\ synced' = [lines |-> Len(lines), tail |-> Len(tail)]
  /\ promised' = IF Len(promised) < Op.end - 1 THEN SubSeq(numbered, 1, Op.end - 1)
                 ELSE promised
  /\ ops' = Tail(ops) /\ phase' = "drain"
  /\ IF Op.kind = "shutdown" THEN writer' = "closed" ELSE UNCHANGED writer
  /\ UNCHANGED <<lines, tail, accepting, nextSeq, pending, offset,
                 needsRecovery, attempt, gen, numbered, acked>>

\* Both fsyncs, or the reopening between them, fail.
SyncFails ==
  /\ Running({"flush", "shutdown"}) /\ phase = "sync"
  /\ Reject
  /\ UNCHANGED <<fileVars, offset, needsRecovery>>

\* discardThread closes the file once the queued operations have settled.
FinishDiscard ==
  /\ writer = "discarding" /\ ops = <<>>
  /\ writer' = "lost"
  /\ pending' = <<>> /\ offset' = 0 /\ needsRecovery' = FALSE
  /\ UNCHANGED <<fileVars, accepting, nextSeq, ops, phase, attempt, gen,
                 historyVars>>

-----------------------------------------------------------------------------
(* Losing the process, and opening the rollout again.                      *)

DropWriter ==
  /\ writer' = "lost" /\ accepting' = FALSE
  /\ pending' = <<>> /\ offset' = 0 /\ needsRecovery' = FALSE
  /\ ops' = <<>> /\ phase' = "drain" /\ attempt' = 0
  /\ UNCHANGED <<nextSeq, gen, numbered, promised>>

\* The process dies; what it has written stays in the file.
Crash ==
  /\ Live
  /\ DropWriter
  /\ UNCHANGED <<fileVars, acked>>

\* The machine stops: the file keeps a prefix that includes what was synced.
PowerLoss ==
  /\ \E n \in synced.lines .. Len(lines) :
       LET rest == IF n < Len(lines) THEN lines[n + 1] ELSE tail
           least == IF n = synced.lines THEN synced.tail ELSE 0 IN
       \E k \in least .. Len(rest) :
         /\ n < Len(lines) => k < Len(rest)
         /\ lines' = SubSeq(lines, 1, n)
         /\ tail' = SubSeq(rest, 1, k)
         /\ synced' = [lines |-> n, tail |-> k]
  /\ DropWriter
  /\ acked' = {}

\* readPhysicalRollout accepts the file: every line is a record, numbered
\* without gap or repetition.
Readable ==
  \A i \in DOMAIN lines :
    IsRecordLine(lines[i]) /\ RecordOf(lines[i]).seq = i

\* The last record lacks only its newline: repairTrailingJsonLine adds it.
CompleteTail ==
  /\ Parses(tail)
  /\ lines' = Append(lines, Append(tail, Unit(tail[1].rec, LineLen)))
  /\ tail' = <<>>

\* Otherwise it cuts off what follows the last newline.
CutTail ==
  /\ ~Parses(tail)
  /\ tail' = <<>>
  /\ synced' = [synced EXCEPT !.tail = 0]
  /\ UNCHANGED lines

\* resumeThread: repair the tail, then open a new writer behind the last
\* record of a readable file.
ResumeThread ==
  /\ ~Live /\ gen < MaxGen
  /\ \/ CompleteTail /\ synced' = [lines |-> Len(lines'), tail |-> 0]
     \/ CutTail
  /\ Readable'
  /\ writer' = "open" /\ accepting' = TRUE
  /\ nextSeq' = Len(lines') + 1
  /\ numbered' = [i \in DOMAIN lines' |-> RecordOf(lines'[i])]
  /\ gen' = gen + 1
  /\ UNCHANGED <<pending, offset, needsRecovery, ops, phase, attempt, acked,
                 promised>>

\* resumeThread fails after the repair, or with its newline not synced.
ResumeFails ==
  /\ ~Live
  /\ \/ CompleteTail /\ UNCHANGED synced
     \/ CompleteTail /\ synced' = [lines |-> Len(lines'), tail |-> 0]
     \/ tail # <<>> /\ CutTail
  /\ UNCHANGED <<writer, accepting, nextSeq, pending, offset, needsRecovery,
                 ops, phase, attempt, gen, historyVars>>

-----------------------------------------------------------------------------
Calls == \/ \E n \in 1 .. 2 : AppendItems(n)
         \/ FlushThread \/ ShutdownThread \/ DiscardThread

OpStep == \/ \E n \in 1 .. LineLen : WriteChunk(n)
          \/ WriteNothing
          \/ \E n \in 0 .. LineLen : WriteFails(n)
          \/ Recover \/ RecoverFails
          \/ DrainDone \/ Sync \/ SyncFails \/ FinishDiscard

Next == \/ Calls \/ OpStep
        \/ Crash \/ PowerLoss \/ ResumeThread \/ ResumeFails

Spec == Init /\ [][Next]_vars

\* The event loop runs the queued operation as long as the process lives.  The
\* file system is not allowed to alternate a short write with a failing one
\* for ever: #writePending counts attempts per call, so each short write
\* starts the count again and no bound in the code ends such a run.
FairSpec == /\ Spec
            /\ WF_vars(OpStep)
            /\ SF_vars(WriteChunk(LineLen - offset))

-----------------------------------------------------------------------------
(* Properties.                                                             *)

TypeOK ==
  /\ lines \in Seq(Seq(Units)) /\ tail \in Seq(Units)
  /\ synced \in [lines : Nat, tail : Nat]
  /\ writer \in {"open", "discarding", "closed", "lost"} /\ accepting \in BOOLEAN
  /\ nextSeq \in Nat \ {0} /\ pending \in Seq(Records)
  /\ offset \in 0 .. LineLen - 1 /\ needsRecovery \in BOOLEAN
  /\ ops \in Seq(OpRecords)
  /\ phase \in {"drain", "sync"} /\ attempt \in {0, 1}
  /\ gen \in Nat \ {0} /\ numbered \in Seq(Records)
  /\ acked \subseteq Records /\ promised \in Seq(Records)

\* A concurrent readThread, a fork or the next resume never meets a broken
\* file: through short writes, failed writes, retries, crashes and repairs its
\* complete lines are records numbered without a gap or a repetition
\* (readPhysicalRollout throws otherwise, and the thread is lost).
AlwaysReadable == Readable

\* A record that a resolved flush, checkpoint or shutdown covered is on disk
\* and stays there, at its number and with its content.
PromisedDurable ==
  /\ Len(promised) <= synced.lines
  /\ \A i \in DOMAIN promised : RecordOf(lines[i]) = promised[i]

\* A record whose append resolved is read back by every later reader: a
\* process crash does not lose it, nor does another record take its number.
AckedVisible ==
  \A r \in acked : r.seq \in DOMAIN lines /\ RecordOf(lines[r.seq]) = r

\* An append that rejected is not forgotten: as long as its writer lives,
\* each numbered record is in the file or still in the retry buffer.
NothingDropped ==
  writer = "open" =>
    \A i \in DOMAIN numbered :
      \/ i \in DOMAIN lines /\ RecordOf(lines[i]) = numbered[i]
      \/ numbered[i] \in ToSet(pending)

(* The invariant behind the properties above, conjunct by conjunct; it is   *)
(* inductive together with TypeOK.                                         *)

\* Records are numbered from 1 on; operations concern numbered records.
NumberingInv ==
  /\ Len(numbered) = nextSeq - 1
  /\ \A i \in DOMAIN numbered : numbered[i].seq = i
  /\ \A k \in DOMAIN ops : ops[k].end <= nextSeq

\* The file is a prefix of the numbered records, perhaps with a torn line.
FileInv ==
  /\ Len(lines) <= Len(numbered)
  /\ \A i \in DOMAIN lines : lines[i] = LineOf(numbered[i])
  /\ Len(tail) < LineLen
  /\ tail # <<>> => /\ Len(lines) < Len(numbered)
                    /\ tail = Chunk(numbered[Len(lines) + 1], 1, Len(tail))

\* The retry buffer continues the file; only a head whose write failed may
\* be in the file already.
BufferInv ==
  /\ Len(pending) <= Len(numbered)
  /\ \A i \in DOMAIN pending :
       pending[i] = numbered[Len(numbered) - Len(pending) + i]
  /\ needsRecovery => pending # <<>>
  /\ Live =>
       \/ /\ Len(numbered) - Len(pending) = Len(lines)
          /\ needsRecovery \/ offset = Len(tail)
       \/ /\ needsRecovery /\ tail = <<>>
          /\ Len(numbered) - Len(pending) + 1 = Len(lines)

\* A shutdown is the last operation of a writer that refuses new work; a
\* lost or closed writer has nothing queued.
QueueInv ==
  /\ \A k \in DOMAIN ops : ops[k].kind = "shutdown" =>
       k = Len(ops) /\ ops[k].end = nextSeq /\ ~accepting /\ writer = "open"
  /\ ~Live => ops = <<>>

\* Nothing is left of the record numbers below end in the retry buffer.
Drained(end) == pending = <<>> \/ pending[1].seq >= end

\* A syncing operation has drained; a lost or closed writer has no buffer.
SyncInv ==
  /\ phase = "sync" => ops # <<>> /\ Drained(Op.end)
  /\ ~Live => pending = <<>> /\ offset = 0

\* Promised records are synced, acknowledged ones are in the file.
DurabilityInv ==
  /\ Len(promised) <= synced.lines /\ synced.lines <= Len(lines)
  /\ \A i \in DOMAIN promised : promised[i] = numbered[i]
  /\ \A r \in acked : r.seq \in DOMAIN lines /\ numbered[r.seq] = r

WriterInv ==
  NumberingInv /\ QueueInv /\ FileInv /\ BufferInv /\ SyncInv /\ DurabilityInv

\* A shutdown never hangs: it closes the writer or gives it back for a retry.
ShutdownSettles ==
  (writer = "open" /\ ~accepting) ~> (accepting \/ ~Live)

\* The writer implements RolloutLog: whole lines are the log, the retry
\* buffer, without a head that is already in the file, is the buffer.
FileRecords == [i \in DOMAIN lines |-> RecordOf(lines[i])]
LogBar == IF ~Live /\ Parses(tail)
          THEN Append(FileRecords, tail[1].rec) ELSE FileRecords
BufferBar == IF pending # <<>> /\ pending[1].seq \in DOMAIN lines
             THEN Tail(pending) ELSE pending
Log == INSTANCE RolloutLog WITH
         Gens <- 1 .. MaxGen, log <- LogBar, buffer <- BufferBar,
         durable <- Len(promised), state <- IF Live THEN "open" ELSE writer
ImplementsLog == Log!LogSpec
=============================================================================
