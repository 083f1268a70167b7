------------------------ MODULE QueueDispatch_proof -------------------------
(***************************************************************************)
(* Theorems about QueueDispatch, for any scripts of calls, any capacity    *)
(* and any number of resumptions and crashes.                              *)
(*                                                                         *)
(* The invariant has four parts.  RowInv ties the rows of the table to the *)
(* history of rows, DispatchInv says what the operation that holds the     *)
(* lock may rely on at each of its awaits, StartInv what the Session knows *)
(* of the records it has handed to its writer, and WakeInv where the wake  *)
(* is that an idle Session with a filled queue waits for.                  *)
(***************************************************************************)
EXTENDS QueueDispatch, SequenceTheorems, TLAPS

Stages == {"over", "starting", "running", "failing"}
Dispatching == {"checking", "reading", "submitting", "started"}
Places == {"ready", "archiving", "deleting"} \cup Dispatching
\* The provers do not know that a literal is a string.
Key == STRING \cup {"none", "finished", "interrupted"}
Row == [id : Nat \ {0}, sub : Key, rev : {1, 2}]
RecordType == [type : {"turn_started", "turn_completed"}, id : Key]
JobType == [op : Operations \cup {"wake"}, sub : Key, id : Nat]

TypeInv ==
  /\ queue \in Seq(Row) /\ nextId \in Nat \ {0}
  /\ tail \in Seq(JobType) /\ at \in Places
  /\ item \in Row \cup {NoRow} /\ thread \in Nat
  /\ direct \in Key
  /\ turn \in [sub : Key, stage : Stages]
  /\ known \subseteq Key
  /\ rollout \in Seq(RecordType) /\ buffer \in Seq(RecordType)
  /\ synced \in 0 .. Len(rollout)
  /\ resumes \in Nat
  /\ inserted \subseteq Row /\ accepted \subseteq Key

UniqueIds(rows) ==
  \A i, j \in DOMAIN rows : rows[i].id = rows[j].id => i = j
IdsIn(rows) == {r.id : r \in Range(rows)}

\* The rows of the table are rows that were inserted; edits keep the id and
\* the submission.
RowInv ==
  /\ UniqueIds(queue)
  /\ \A r \in Range(queue) : \E i \in inserted : i.id = r.id /\ i.sub = r.sub
  /\ \A i, j \in inserted : i.id = j.id => i = j
  /\ \A i \in inserted : i.id < nextId

\* While a row is being dispatched it stays where it is in the table, of a
\* session that is not deleted and, once that was checked, not archived.
DispatchInv ==
  /\ at # "ready" => tail # <<>>
  /\ at = "archiving" => tail[1].op = "archive"
  /\ at = "deleting" => tail[1].op = "delete" /\ deleted
  /\ at \in Dispatching =>
       /\ tail[1].op \in {"wake", "start"}
       /\ item \in Range(queue) /\ ~deleted
  /\ at \in Dispatching /\ tail[1].op = "wake" => item = Head(queue)
  /\ at \in {"reading", "submitting"} => ~archived
  /\ thread <= resumes
  /\ deleted => ~loaded
  /\ ~loaded => turn = NoTurn /\ buffer = <<>>

\* What a Session that is loaded has started, it knows; and a Turn whose start
\* is still to be saved has none among the records.
Handed == rollout \o buffer
Distinct(records) ==
  \A i, j \in DOMAIN records :
    records[i].type = "turn_started" /\ records[i] = records[j] => i = j
StartInv ==
  /\ loaded => StartedIn(Handed) \subseteq known
  /\ StartedIn(Handed) \subseteq accepted
  /\ turn # NoTurn => turn.sub \in known \cap accepted
  /\ turn.stage = "starting" => turn.sub \notin StartedIn(Handed)
  /\ at = "started" => item.sub \in accepted
  /\ Distinct(Handed)

\* A Session that could take a row is going to be woken: by a job behind the
\* n-th, or after a refusal that nothing announces not at all.
Idle == loaded /\ turn = NoTurn /\ ~interrupted
Woken(n) == \E i \in DOMAIN tail : i > n /\ tail[i].op = "wake"
WakeInv ==
  /\ Idle /\ ~unseen /\ queue # <<>> /\ at \notin Dispatching =>
       parked # "no" \/ Woken(0)
  /\ Idle /\ at = "started" => Woken(1)
  /\ Idle /\ at \in Dispatching /\ thread # resumes => Woken(1)

IInv == /\ TypeInv /\ RowInv /\ DispatchInv /\ StartInv /\ WakeInv
        /\ QueueOwnsUntilAccepted

-----------------------------------------------------------------------------
(* Sequences: what removing, appending and reversing do to a table, to the *)
(* jobs of the lock and to the records.                                    *)

LEMMA RemoveAtFacts ==
  ASSUME NEW X, NEW s \in Seq(X), NEW i \in 1 .. Len(s)
  PROVE  /\ RemoveAt(s, i) \in Seq(X) /\ Len(RemoveAt(s, i)) = Len(s) - 1
         /\ \A j \in 1 .. Len(s) - 1 :
              RemoveAt(s, i)[j] = IF j < i THEN s[j] ELSE s[j + 1]
<1> DEFINE a == SubSeq(s, 1, i - 1)
           b == SubSeq(s, i + 1, Len(s))
<1>1. /\ a \in Seq(X) /\ Len(a) = i - 1
      /\ \A j \in 1 .. i - 1 : a[j] = s[j]
  BY SubSeqProperties, LenProperties
<1>2. /\ b \in Seq(X) /\ Len(b) = Len(s) - i
      /\ \A j \in 1 .. Len(s) - i : b[j] = s[j + i]
  BY SubSeqProperties, LenProperties
<1> HIDE DEF a, b
<1>3. /\ a \o b \in Seq(X) /\ Len(a \o b) = Len(s) - 1
      /\ \A j \in 1 .. Len(s) - 1 :
           (a \o b)[j] = IF j <= i - 1 THEN a[j] ELSE b[j - (i - 1)]
  <2>1. Len(s) \in Nat /\ Len(a) + Len(b) = Len(s) - 1
    BY <1>1, <1>2, LenProperties
  <2>2. /\ a \o b \in Seq(X) /\ Len(a \o b) = Len(a) + Len(b)
        /\ \A j \in 1 .. Len(a) + Len(b) :
             (a \o b)[j] = IF j <= Len(a) THEN a[j] ELSE b[j - Len(a)]
    BY <1>1, <1>2, ConcatProperties
  <2> QED
    BY <2>1, <2>2, <1>1
<1>4. ASSUME NEW j \in 1 .. Len(s) - 1
      PROVE  (a \o b)[j] = IF j < i THEN s[j] ELSE s[j + 1]
  <2>1. CASE j < i
    BY <2>1, <1>1, <1>3
  <2>2. CASE ~ (j < i)
    <3>1. j - (i - 1) \in 1 .. Len(s) - i /\ j - (i - 1) + i = j + 1
      BY <2>2, LenProperties
    <3> QED
      BY <3>1, <2>2, <1>2, <1>3
  <2> QED
    BY <2>1, <2>2
<1> QED
  BY <1>3, <1>4 DEF RemoveAt, a, b

\* A row is removed and the others stay in their order.
LEMMA WithoutFacts ==
  ASSUME queue \in Seq(Row), UniqueIds(queue), NEW id
  PROVE  /\ Without(id) \in Seq(Row) /\ UniqueIds(Without(id))
         /\ Range(Without(id)) = {r \in Range(queue) : r.id # id}
<1>1. CASE \A i \in DOMAIN queue : queue[i].id # id
  BY <1>1 DEF Without, Range
<1>2. CASE \E i \in DOMAIN queue : queue[i].id = id
  <2> DEFINE k == CHOOSE i \in DOMAIN queue : queue[i].id = id
             n == Len(queue)
             rest == RemoveAt(queue, k)
  <2>1. k \in DOMAIN queue /\ queue[k].id = id
    BY <1>2
  <2>2. n \in Nat /\ DOMAIN queue = 1 .. n
    BY SMTT(30), LenProperties
  <2> HIDE DEF k
  <2>3. /\ rest \in Seq(Row) /\ Len(rest) = n - 1
        /\ \A j \in 1 .. n - 1 :
             rest[j] = IF j < k THEN queue[j] ELSE queue[j + 1]
    BY <2>1, <2>2, RemoveAtFacts
  <2> HIDE DEF rest, n
  <2>4. DOMAIN rest = 1 .. n - 1
    BY <2>3, LenProperties
  <2>5. UniqueIds(rest)
    <3> SUFFICES ASSUME NEW i \in 1 .. n - 1, NEW j \in 1 .. n - 1,
                        rest[i].id = rest[j].id
                 PROVE  i = j
      BY <2>4 DEF UniqueIds
    <3>1. PICK x \in 1 .. n : rest[i] = queue[x] /\ x = IF i < k THEN i ELSE i + 1
      BY <2>1, <2>2, <2>3
    <3>2. PICK y \in 1 .. n : rest[j] = queue[y] /\ y = IF j < k THEN j ELSE j + 1
      BY <2>1, <2>2, <2>3
    <3>3. x = y
      BY <3>1, <3>2, <2>2 DEF UniqueIds
    <3> QED
      BY <3>1, <3>2, <3>3, <2>1, <2>2
  <2>6. ASSUME NEW r \in Range(rest) PROVE r \in Range(queue) /\ r.id # id
    <3>1. PICK j \in 1 .. n - 1 : r = rest[j]
      BY <2>4 DEF Range
    <3>2. PICK x \in 1 .. n : r = queue[x] /\ x # k
      BY <3>1, <2>1, <2>2, <2>3
    <3> QED
      BY <3>2, <2>1, <2>2 DEF Range, UniqueIds
  <2>7. ASSUME NEW r \in Range(queue), r.id # id PROVE r \in Range(rest)
    <3>1. PICK x \in 1 .. n : r = queue[x]
      BY <2>2 DEF Range
    <3>2. x # k
      BY <3>1, <2>1, <2>7
    <3>3. PICK j \in 1 .. n - 1 : rest[j] = r
      <4>1. CASE x < k
        BY <4>1, <3>1, <2>1, <2>2, <2>3
      <4>2. CASE x > k
        <5>1. x - 1 \in 1 .. n - 1 /\ ~ (x - 1 < k) /\ x - 1 + 1 = x
          BY <4>2, <2>1, <2>2
        <5> QED
          BY <5>1, <3>1, <2>3
      <4> QED
        BY <4>1, <4>2, <3>2, <2>1, <2>2
    <3> QED
      BY <3>3, <2>4 DEF Range
  <2>8. Without(id) = rest
    BY <1>2 DEF Without, rest, k
  <2> QED
    BY <2>3, <2>5, <2>6, <2>7, <2>8
<1> QED
  BY <1>1, <1>2

\* A row that is inserted comes last.
LEMMA AppendRow ==
  ASSUME queue \in Seq(Row), NEW row \in Row
  PROVE  /\ Append(queue, row) \in Seq(Row)
         /\ Range(Append(queue, row)) = Range(queue) \cup {row}
         /\ queue # <<>> => Head(Append(queue, row)) = Head(queue)
         /\ UniqueIds(queue) /\ row.id \notin IdsIn(queue) =>
              UniqueIds(Append(queue, row))
<1> DEFINE s == Append(queue, row)
<1>1. /\ s \in Seq(Row) /\ Len(s) = Len(queue) + 1
      /\ \A i \in 1 .. Len(queue) : s[i] = queue[i]
      /\ s[Len(queue) + 1] = row
  BY AppendProperties
<1>2. DOMAIN queue = 1 .. Len(queue) /\ DOMAIN s = 1 .. Len(s) /\ Len(queue) \in Nat
  BY <1>1, LenProperties
<1>3. queue # <<>> => Head(s) = Head(queue)
  BY HeadTailAppend
<1> HIDE DEF s
<1>4. \A i \in DOMAIN s : i \in DOMAIN queue \/ i = Len(queue) + 1
  BY <1>1, <1>2
<1>5. Range(s) = Range(queue) \cup {row}
  BY <1>1, <1>2, <1>4 DEF Range
<1>6. UniqueIds(queue) /\ row.id \notin IdsIn(queue) => UniqueIds(s)
  BY <1>1, <1>2, <1>4 DEF UniqueIds, IdsIn, Range
<1> QED
  BY <1>1, <1>3, <1>5, <1>6 DEF s

\* An edited table.
LEMMA EditedTable ==
  ASSUME queue \in Seq(Row), NEW s, s = [i \in DOMAIN queue |-> s[i]],
         \A i \in DOMAIN queue : s[i] \in {queue[i], [queue[i] EXCEPT !.rev = 2]}
  PROVE  /\ s \in Seq(Row) /\ DOMAIN s = DOMAIN queue
         /\ \A i \in DOMAIN queue :
              s[i].id = queue[i].id /\ s[i].sub = queue[i].sub
<1>1. DOMAIN queue = 1 .. Len(queue) /\ Len(queue) \in Nat
  BY LenProperties
<1>2. \A i \in DOMAIN queue : queue[i] \in Row
  BY ElementOfSeq, <1>1
<1>3. \A i \in DOMAIN queue : /\ s[i] \in Row
                              /\ s[i].id = queue[i].id /\ s[i].sub = queue[i].sub
  BY <1>2 DEF Row
<1>4. s \in [1 .. Len(queue) -> Row]
  BY <1>1, <1>3
<1>5. s \in Seq(Row)
  BY <1>1, <1>4
<1> QED
  BY <1>3, <1>5

LEMMA ReversedTable ==
  ASSUME queue \in Seq(Row)
  PROVE  /\ Reverse(queue) \in Seq(Row)
         /\ Range(Reverse(queue)) = Range(queue)
         /\ UniqueIds(queue) => UniqueIds(Reverse(queue))
<1> DEFINE n == Len(queue)
           s == [i \in 1 .. n |-> queue[(n - i) + 1]]
<1>1. DOMAIN queue = 1 .. n /\ n \in Nat
  BY LenProperties
<1>2. \A i \in 1 .. n : (n - i) + 1 \in 1 .. n /\ (n - ((n - i) + 1)) + 1 = i
  BY <1>1
<1> HIDE DEF n
<1>3. \A i \in 1 .. n : queue[i] \in Row
  BY ElementOfSeq DEF n
<1>4. s \in [1 .. n -> Row]
  BY <1>2, <1>3
<1>5. s \in Seq(Row)
  BY <1>1, <1>4
<1>6. Range(s) = Range(queue)
  BY <1>1, <1>2 DEF Range
<1>7. ASSUME UniqueIds(queue) PROVE UniqueIds(s)
  <2> SUFFICES ASSUME NEW i \in 1 .. n, NEW j \in 1 .. n, s[i].id = s[j].id
               PROVE  i = j
    BY DEF UniqueIds
  <2>1. (n - i) + 1 = (n - j) + 1
    BY <1>1, <1>2, <1>7 DEF UniqueIds
  <2> QED
    BY <2>1, <1>1
<1> QED
  BY <1>5, <1>6, <1>7 DEF Reverse, n

\* Operations that wait for the lock.
LEMMA JobEnqueued ==
  ASSUME tail \in Seq(JobType), NEW job \in JobType, Enqueue(job)
  PROVE  /\ tail' \in Seq(JobType) /\ tail' # <<>>
         /\ tail # <<>> => tail'[1] = tail[1]
         /\ \A n \in Nat : Woken(n) => Woken(n)'
         /\ job.op = "wake" => Woken(0)'
         /\ job.op = "wake" /\ tail # <<>> => Woken(1)'
<1>1. /\ tail' \in Seq(JobType) /\ tail' # <<>> /\ Len(tail') = Len(tail) + 1
      /\ \A i \in 1 .. Len(tail) : tail'[i] = tail[i]
      /\ tail'[Len(tail) + 1] = job
  BY AppendProperties DEF Enqueue
<1>2. /\ DOMAIN tail = 1 .. Len(tail) /\ DOMAIN tail' = 1 .. Len(tail')
      /\ Len(tail) \in Nat /\ (tail # <<>> => Len(tail) > 0)
  BY <1>1, LenProperties, EmptySeq
<1> QED
  BY <1>1, <1>2 DEF Woken

\* The operation at the head ends.
LEMMA JobEnds ==
  ASSUME tail \in Seq(JobType), tail # <<>>, tail' = Tail(tail)
  PROVE  /\ tail' \in Seq(JobType)
         /\ Woken(1) => Woken(0)'
         /\ Woken(0) /\ tail[1].op # "wake" => Woken(0)'
<1>1. /\ tail' \in Seq(JobType) /\ Len(tail') = Len(tail) - 1
      /\ \A i \in 1 .. Len(tail') : tail'[i] = tail[i + 1]
  BY HeadTailProperties
<1>2. /\ DOMAIN tail = 1 .. Len(tail) /\ DOMAIN tail' = 1 .. Len(tail')
      /\ Len(tail) \in Nat
  BY <1>1, LenProperties
<1>3. ASSUME Woken(1) PROVE Woken(0)'
  <2>1. PICK i \in DOMAIN tail : i > 1 /\ tail[i].op = "wake"
    BY <1>3 DEF Woken
  <2>2. i - 1 \in DOMAIN tail' /\ tail'[i - 1] = tail[i] /\ i - 1 > 0
    <3>1. i - 1 \in 1 .. Len(tail') /\ (i - 1) + 1 = i
      BY <2>1, <1>1, <1>2
    <3> QED
      BY <3>1, <1>1, <1>2
  <2> QED
    BY <2>1, <2>2 DEF Woken
<1>4. Woken(0) /\ tail[1].op # "wake" => Woken(1)
  BY <1>2 DEF Woken
<1> QED
  BY <1>1, <1>3, <1>4

\* It ends and wakes the queue.
LEMMA JobEndsAndWakes ==
  ASSUME tail \in Seq(JobType), tail # <<>>, UnlockAndWake
  PROVE  tail' \in Seq(JobType) /\ tail' # <<>> /\ Woken(0)'
<1>0. WakeJob \in JobType
  BY DEF WakeJob, Job, JobType, Key
<1>1. Tail(tail) \in Seq(JobType) /\ WakeJob \in JobType
  BY <1>0, HeadTailProperties
<1>2. /\ tail' \in Seq(JobType) /\ tail' # <<>>
      /\ Len(tail') = Len(Tail(tail)) + 1 /\ tail'[Len(Tail(tail)) + 1] = WakeJob
  BY <1>1, AppendProperties DEF UnlockAndWake
<1>3. Len(Tail(tail)) \in Nat /\ DOMAIN tail' = 1 .. Len(tail')
  BY <1>1, <1>2, LenProperties
<1> QED
  BY <1>2, <1>3 DEF Woken, WakeJob, Job

\* A record that is handed to the writer comes after all others, or is lost.
LEMMA RecordHanded ==
  ASSUME rollout \in Seq(RecordType), buffer \in Seq(RecordType),
         NEW r \in RecordType, NEW flushed \in BOOLEAN,
         AppendRecord(r, flushed) \/ AppendFails(r)
  PROVE  /\ rollout' \in Seq(RecordType) /\ buffer' \in Seq(RecordType)
         /\ Handed' \in {Handed, Append(Handed, r)}
         /\ synced \in 0 .. Len(rollout) => synced' \in 0 .. Len(rollout')
<1>1. /\ Append(buffer, r) \in Seq(RecordType) /\ Append(buffer, r) = buffer \o <<r>>
      /\ <<r>> \in Seq(RecordType) /\ Handed \in Seq(RecordType)
  BY AppendProperties, AppendIsConcat, ConcatProperties DEF Handed
<1>2. Append(Handed, r) = Handed \o <<r>> /\ Append(Handed, r) \in Seq(RecordType)
  BY <1>1, AppendProperties, AppendIsConcat
<1>3. rollout \o Append(buffer, r) = Append(Handed, r)
  BY <1>1, <1>2, ConcatAssociative DEF Handed
<1>4. CASE AppendRecord(r, flushed)
  <2>1. /\ rollout' = Append(Handed, r) /\ buffer' = <<>>
        /\ synced' = IF flushed THEN Len(rollout') ELSE synced
    BY <1>3, <1>4 DEF AppendRecord
  <2>2. Handed' = Append(Handed, r)
    BY <2>1, <1>2, ConcatEmptySeq DEF Handed
  <2>3. /\ Len(rollout) \in Nat /\ Len(rollout') \in Nat
        /\ Len(rollout) <= Len(rollout')
    <3>1. Len(Append(Handed, r)) = Len(Handed) + 1
      BY <1>1, AppendProperties
    <3>2. Len(Handed) = Len(rollout) + Len(buffer)
      BY ConcatProperties DEF Handed
    <3>3. Len(rollout) \in Nat /\ Len(buffer) \in Nat
      BY LenProperties
    <3> QED
      BY <2>1, <3>1, <3>2, <3>3
  <2>4. synced \in 0 .. Len(rollout) => synced' \in 0 .. Len(rollout')
    BY <2>1, <2>3
  <2> QED
    BY <2>1, <2>2, <2>4, <1>2, EmptySeq
<1>5. CASE AppendFails(r)
  BY <1>1, <1>3, <1>5 DEF AppendFails, Handed
<1> QED
  BY <1>4, <1>5

\* What a record that is appended adds to the Turns that have started.
LEMMA StartedInAppend ==
  ASSUME NEW records \in Seq(RecordType), NEW r \in RecordType
  PROVE  LET longer == Append(records, r) IN
         /\ StartedIn(longer) =
              StartedIn(records) \cup (IF r.type = "turn_started" THEN {r.id} ELSE {})
         /\ Distinct(records)
              /\ (r.type = "turn_started" => r.id \notin StartedIn(records))
              => Distinct(longer)
<1> DEFINE longer == Append(records, r)
<1>1. /\ longer \in Seq(RecordType) /\ Len(longer) = Len(records) + 1
      /\ \A i \in 1 .. Len(records) : longer[i] = records[i]
      /\ longer[Len(records) + 1] = r
  BY AppendProperties
<1>2. /\ DOMAIN records = 1 .. Len(records) /\ Len(records) \in Nat
      /\ DOMAIN longer = 1 .. Len(records) + 1
  BY <1>1, LenProperties
<1> HIDE DEF longer
<1>3. \A i \in DOMAIN longer : i \in DOMAIN records \/ i = Len(records) + 1
  BY <1>2
<1>4. Range(longer) = Range(records) \cup {r}
  BY <1>1, <1>2, <1>3 DEF Range
<1>5. StartedIn(longer) =
        StartedIn(records) \cup (IF r.type = "turn_started" THEN {r.id} ELSE {})
  BY <1>4 DEF StartedIn
<1>6. ASSUME Distinct(records),
             r.type = "turn_started" => r.id \notin StartedIn(records)
      PROVE  Distinct(longer)
  <2>1. \A i \in DOMAIN records : records[i].type = "turn_started" => records[i] # r
    BY <1>6 DEF StartedIn, Range
  <2> QED
    BY <2>1, <1>1, <1>2, <1>3, <1>6 DEF Distinct
<1> QED
  BY <1>5, <1>6 DEF longer

\* What a crash leaves of the records.
LEMMA StartedInPrefix ==
  ASSUME rollout \in Seq(RecordType), buffer \in Seq(RecordType),
         NEW n \in 0 .. Len(rollout)
  PROVE  LET file == SubSeq(rollout, 1, n) IN
         /\ file \in Seq(RecordType) /\ Len(file) = n
         /\ StartedIn(file) \subseteq StartedIn(Handed)
         /\ Distinct(Handed) => Distinct(file)
<1> DEFINE file == SubSeq(rollout, 1, n)
<1>1. Len(rollout) \in Nat /\ DOMAIN rollout = 1 .. Len(rollout)
  BY LenProperties
<1>2. \A i \in 1 .. n : rollout[i] \in RecordType /\ i \in 1 .. Len(rollout)
  BY <1>1, ElementOfSeq
<1>3. /\ file \in Seq(RecordType) /\ Len(file) = n
      /\ \A i \in 1 .. n : file[i] = rollout[i]
  <2>1. /\ file \in Seq(RecordType)
        /\ Len(file) = IF 1 <= n THEN n - 1 + 1 ELSE 0
        /\ \A i \in 1 .. n - 1 + 1 : file[i] = rollout[1 + i - 1]
    BY <1>1, <1>2, SubSeqProperties
  <2> QED
    BY <2>1, <1>1
<1> HIDE DEF file
<1>4. /\ Handed \in Seq(RecordType) /\ Len(Handed) = Len(rollout) + Len(buffer)
      /\ \A i \in 1 .. Len(rollout) + Len(buffer) :
           Handed[i] = IF i <= Len(rollout) THEN rollout[i]
                       ELSE buffer[i - Len(rollout)]
  BY ConcatProperties DEF Handed
<1>5. Len(buffer) \in Nat /\ DOMAIN file = 1 .. n /\ DOMAIN Handed = 1 .. Len(Handed)
  BY <1>3, <1>4, LenProperties
<1>6. \A i \in DOMAIN file : i \in DOMAIN Handed /\ file[i] = Handed[i]
  BY <1>1, <1>3, <1>4, <1>5
<1>7. StartedIn(file) \subseteq StartedIn(Handed)
  BY <1>6 DEF StartedIn, Range
<1>8. Distinct(Handed) => Distinct(file)
  BY <1>6 DEF Distinct
<1> QED
  BY <1>3, <1>7, <1>8 DEF file

LEMMA EmptyRange ==
  ASSUME NEW X, NEW s \in Seq(X)
  PROVE  s = <<>> <=> Range(s) = {}
<1>1. DOMAIN s = 1 .. Len(s) /\ Len(s) \in Nat /\ (s # <<>> => Len(s) > 0)
  BY LenProperties, EmptySeq
<1>2. s = <<>> => DOMAIN s = {}
  BY <1>1, EmptySeq
<1>3. s # <<>> => s[1] \in Range(s)
  BY <1>1 DEF Range
<1> QED
  BY <1>2, <1>3 DEF Range

LEMMA EmptyFacts ==
  /\ Len(<<>>) = 0 /\ DOMAIN <<>> = {} /\ Range(<<>>) = {}
  /\ \A X : <<>> \in Seq(X)
<1>1. \A X : <<>> \in Seq(X)
  BY EmptySeq
<1>2. DOMAIN <<>> = {} /\ Len(<<>>) = 0
  OBVIOUS
<1> QED
  BY <1>1, <1>2 DEF Range

\* What depends on variables that a step leaves alone.
LEMMA Frames ==
  /\ UNCHANGED tail => \A n : Woken(n)' = Woken(n)
  /\ UNCHANGED <<rollout, buffer>> => Handed' = Handed
BY DEF Woken, Handed

-----------------------------------------------------------------------------
(* The steps.                                                              *)

\* A call that takes the lock.
LEMMA CallLockedKeeps ==
  ASSUME IInv, NEW c \in RequestType, CallLocked(c)
  PROVE  IInv'
<1> USE Frames
    DEF IInv, Dispatching, Idle, tableVars, lockVars, sessionVars, fileVars,
        boundVars, historyVars
<1>1. PICK job \in JobType : Enqueue(job) /\ UNCHANGED <<tableVars, historyVars>>
  <2>1. \A id \in IdsOf(c.sub) : id \in Nat
    <3>1. Range(queue) \subseteq Row
      BY RangeOfSeq DEF TypeInv
    <3> QED
      BY <3>1 DEF IdsOf, Row
  <2>2. c.op \in Operations /\ c.sub \in Key
    BY DEF RequestType, Key
  <2>3. \A op \in Operations, sub \in Key, id \in Nat : Job(op, sub, id) \in JobType
    BY DEF Job, JobType
  <2>4. "none" \in Key /\ 0 \in Nat /\ {"cancel", "queue"} \subseteq Operations
    BY DEF Key, Operations
  <2> QED
    BY <2>1, <2>2, <2>3, <2>4
       DEF CallLocked, CallCancel
<1>2. UNCHANGED <<archived, deleted, at, item, thread, direct, unseen,
                  sessionVars, fileVars, boundVars>>
  BY DEF CallLocked
<1>3. /\ tail' \in Seq(JobType) /\ tail' # <<>>
      /\ tail # <<>> => tail'[1] = tail[1]
      /\ \A n \in Nat : Woken(n) => Woken(n)'
  BY <1>1, JobEnqueued DEF TypeInv
<1>4. TypeInv'
  BY <1>1, <1>2, <1>3 DEF TypeInv, Places
<1>5. RowInv'
  BY <1>1, <1>2, <1>3 DEF TypeInv, RowInv
<1>6. DispatchInv'
  BY <1>1, <1>2, <1>3 DEF TypeInv, DispatchInv
<1>7. StartInv'
  BY <1>1, <1>2, <1>3 DEF TypeInv, StartInv, DispatchInv
<1>8. WakeInv'
  BY <1>1, <1>2, <1>3 DEF TypeInv, WakeInv, DispatchInv
<1>9. QueueOwnsUntilAccepted'
  BY <1>1, <1>2, <1>3 DEF TypeInv, RowInv, StartInv, DispatchInv,
      QueueOwnsUntilAccepted
<1> QED
  BY <1>4, <1>5, <1>6, <1>7, <1>8, <1>9

\* A direct input.
LEMMA CallDirectKeeps ==
  ASSUME IInv, NEW c \in RequestType, CallDirect(c)
  PROVE  IInv'
<1> USE Frames
    DEF IInv, Dispatching, Idle, tableVars, lockVars, sessionVars, fileVars,
        boundVars, historyVars
<1>1. TypeInv'
  BY DEF TypeInv, Places, CallDirect, RequestType, Key
<1>2. RowInv'
  BY DEF TypeInv, RowInv, CallDirect, RequestType, Key
<1>3. DispatchInv'
  BY DEF TypeInv, DispatchInv, CallDirect, RequestType, Key
<1>4. StartInv'
  BY DEF TypeInv, StartInv, DispatchInv, CallDirect, RequestType, Key
<1>5. WakeInv'
  BY DEF TypeInv, WakeInv, DispatchInv, CallDirect, RequestType, Key
<1>6. QueueOwnsUntilAccepted'
  BY DEF TypeInv, RowInv, StartInv, DispatchInv, QueueOwnsUntilAccepted,
      CallDirect, RequestType, Key
<1> QED
  BY <1>1, <1>2, <1>3, <1>4, <1>5, <1>6

\* Another process queues an input.
LEMMA CallExternalKeeps ==
  ASSUME IInv, NEW c \in RequestType, CallExternal(c)
  PROVE  IInv'
<1> USE Frames
    DEF IInv, Dispatching, Idle, tableVars, lockVars, sessionVars, fileVars,
        boundVars, historyVars
<1> DEFINE row == [id |-> nextId, sub |-> c.sub, rev |-> 1]
<1>1. row \in Row /\ row.id = nextId /\ row.sub = c.sub
  BY DEF TypeInv, Row, RequestType, Key
<1>2. /\ queue' = Append(queue, row) /\ inserted' = inserted \cup {row}
      /\ nextId' = nextId + 1 /\ unseen'
      /\ UNCHANGED <<archived, deleted, lockVars, direct, sessionVars, fileVars,
                     boundVars, accepted, cancelled, parked>>
  BY DEF CallExternal, Insert
<1> HIDE DEF row
<1>3. \A i \in inserted : i.id < nextId /\ i.id # nextId
  BY <1>1 DEF RowInv, TypeInv, Row
<1>4. nextId \notin IdsIn(queue)
  BY <1>3 DEF RowInv, IdsIn
<1>5. /\ queue' \in Seq(Row) /\ Range(queue') = Range(queue) \cup {row}
      /\ queue # <<>> => Head(queue') = Head(queue)
      /\ UniqueIds(queue')
  BY <1>1, <1>2, <1>4, AppendRow DEF TypeInv, RowInv
<1>6. item \in Range(queue) => queue # <<>>
  BY EmptyRange DEF TypeInv
<1>7. TypeInv'
  BY <1>1, <1>2, <1>3, <1>5, <1>6 DEF TypeInv, Places
<1>8. RowInv'
  <2>1. ASSUME NEW i \in inserted' PROVE i.id < nextId'
    BY <1>1, <1>2, <1>3 DEF TypeInv, Row
  <2>2. \A i, j \in inserted' : i.id = j.id => i = j
    BY <1>1, <1>2, <1>3 DEF RowInv
  <2>3. ASSUME NEW r \in Range(queue')
        PROVE  \E i \in inserted' : i.id = r.id /\ i.sub = r.sub
    BY <1>1, <1>2, <1>5 DEF RowInv
  <2> QED
    BY <1>5, <2>1, <2>2, <2>3 DEF RowInv
<1>9. DispatchInv'
  BY <1>1, <1>2, <1>3, <1>5, <1>6 DEF TypeInv, DispatchInv
<1>10. StartInv'
  BY <1>1, <1>2, <1>3, <1>5, <1>6 DEF TypeInv, StartInv, DispatchInv
<1>11. WakeInv'
  BY <1>1, <1>2, <1>3, <1>5, <1>6 DEF TypeInv, WakeInv, DispatchInv
<1>12. QueueOwnsUntilAccepted'
  BY <1>1, <1>2, <1>3, <1>5, <1>6 DEF TypeInv, RowInv, StartInv, DispatchInv,
      QueueOwnsUntilAccepted
<1> QED
  BY <1>7, <1>8, <1>9, <1>10, <1>11, <1>12

\* The table is polled.
LEMMA PollKeeps ==
  ASSUME IInv, PollExternalChanges
  PROVE  IInv'
<1> USE Frames
    DEF IInv, Dispatching, Idle, tableVars, lockVars, sessionVars, fileVars,
        boundVars, historyVars
<1>1. CASE ~ loaded
  <2>1. TypeInv'
    BY <1>1 DEF TypeInv, Places, PollExternalChanges
  <2>2. RowInv'
    BY <1>1 DEF TypeInv, RowInv, PollExternalChanges
  <2>3. DispatchInv'
    BY <1>1 DEF TypeInv, DispatchInv, PollExternalChanges
  <2>4. StartInv'
    BY <1>1 DEF TypeInv, StartInv, DispatchInv, PollExternalChanges
  <2>5. WakeInv'
    BY <1>1 DEF TypeInv, WakeInv, DispatchInv, PollExternalChanges
  <2>6. QueueOwnsUntilAccepted'
    BY <1>1 DEF TypeInv, RowInv, StartInv, DispatchInv,
        QueueOwnsUntilAccepted, PollExternalChanges
  <2> QED
    BY <2>1, <2>2, <2>3, <2>4, <2>5, <2>6
<1>2. CASE loaded
  <2>1. WakeJob \in JobType /\ WakeJob.op = "wake"
    BY DEF WakeJob, Job, JobType, Key
  <2>2. Enqueue(WakeJob)
    BY <1>2 DEF PollExternalChanges
  <2>3. /\ tail' \in Seq(JobType) /\ tail' # <<>>
        /\ tail # <<>> => tail'[1] = tail[1]
        /\ \A n \in Nat : Woken(n) => Woken(n)'
        /\ Woken(0)'
    BY <2>1, <2>2, JobEnqueued DEF TypeInv
  <2>4. UNCHANGED <<tableVars, archived, deleted, at, item, thread, direct, sent,
                    sessionVars, fileVars, boundVars, historyVars>>
    BY DEF PollExternalChanges
  <2>5. TypeInv'
    BY <2>3, <2>4 DEF TypeInv, Places
  <2>6. RowInv'
    BY <2>3, <2>4 DEF TypeInv, RowInv
  <2>7. DispatchInv'
    BY <2>3, <2>4 DEF TypeInv, DispatchInv
  <2>8. StartInv'
    BY <2>3, <2>4 DEF TypeInv, StartInv, DispatchInv
  <2>9. WakeInv'
    BY <2>3, <2>4 DEF TypeInv, WakeInv, DispatchInv
  <2>10. QueueOwnsUntilAccepted'
    BY <2>3, <2>4 DEF TypeInv, RowInv, StartInv, DispatchInv,
        QueueOwnsUntilAccepted
  <2> QED
    BY <2>5, <2>6, <2>7, <2>8, <2>9, <2>10
<1> QED
  BY <1>1, <1>2

\* queueInput under the lock.
LEMMA QueueInputKeeps ==
  ASSUME IInv, QueueInput
  PROVE  IInv'
<1> USE Frames
    DEF IInv, Dispatching, Idle, tableVars, lockVars, sessionVars, fileVars,
        boundVars, historyVars
<1> DEFINE sub == tail[1].sub
           row == [id |-> nextId, sub |-> sub, rev |-> 1]
<1>1. /\ tail # <<>> /\ tail[1].op = "queue" /\ at = "ready" /\ at' = "ready"
      /\ item' = NoRow /\ thread' = 0
      /\ UNCHANGED <<archived, deleted, direct, unseen, sessionVars, fileVars,
                     boundVars, accepted, cancelled, parked>>
  BY DEF QueueInput, Runs, Unlock, UnlockAndWake, Free
<1>2. CASE UnlockAndWake /\ UNCHANGED <<tableVars, inserted>>
  <2>1. tail' \in Seq(JobType) /\ Woken(0)'
    BY <1>1, <1>2, JobEndsAndWakes DEF TypeInv
  <2>2. TypeInv'
    BY <1>1, <1>2, <2>1 DEF TypeInv, Places
  <2>3. RowInv'
    BY <1>1, <1>2, <2>1 DEF TypeInv, RowInv
  <2>4. DispatchInv'
    BY <1>1, <1>2, <2>1 DEF TypeInv, DispatchInv
  <2>5. StartInv'
    BY <1>1, <1>2, <2>1 DEF TypeInv, StartInv, DispatchInv
  <2>6. WakeInv'
    BY <1>1, <1>2, <2>1 DEF TypeInv, WakeInv, DispatchInv
  <2>7. QueueOwnsUntilAccepted'
    BY <1>1, <1>2, <2>1 DEF TypeInv, RowInv, StartInv, DispatchInv,
        QueueOwnsUntilAccepted
  <2> QED
    BY <2>2, <2>3, <2>4, <2>5, <2>6, <2>7
<1>3. CASE Insert(sub) /\ UnlockAndWake
  <2>1. tail' \in Seq(JobType) /\ Woken(0)'
    BY <1>1, <1>3, JobEndsAndWakes DEF TypeInv
  <2>2. row \in Row /\ row.id = nextId /\ row.sub = sub
    <3>1. tail[1] \in JobType
      BY <1>1, ElementOfSeq, EmptySeq DEF TypeInv
    <3> QED
      BY <3>1 DEF TypeInv, Row, JobType
  <2>3. /\ queue' = Append(queue, row) /\ inserted' = inserted \cup {row}
        /\ nextId' = nextId + 1
    BY <1>3 DEF Insert
  <2> HIDE DEF row, sub
  <2>4. \A i \in inserted : i.id < nextId /\ i.id # nextId
    BY DEF RowInv, TypeInv, Row
  <2>5. nextId \notin IdsIn(queue)
    BY <2>4 DEF RowInv, IdsIn
  <2>6. /\ queue' \in Seq(Row) /\ Range(queue') = Range(queue) \cup {row}
        /\ UniqueIds(queue')
    BY <2>2, <2>3, <2>5, AppendRow DEF TypeInv, RowInv
  <2>7. TypeInv'
    BY <1>1, <2>1, <2>2, <2>3, <2>4, <2>6 DEF TypeInv, Places
  <2>8. RowInv'
    <3>1. ASSUME NEW i \in inserted' PROVE i.id < nextId'
      BY <2>2, <2>3, <2>4 DEF TypeInv, Row
    <3>2. \A i, j \in inserted' : i.id = j.id => i = j
      BY <2>2, <2>3, <2>4 DEF RowInv
    <3>3. ASSUME NEW r \in Range(queue')
          PROVE  \E i \in inserted' : i.id = r.id /\ i.sub = r.sub
      BY <2>2, <2>3, <2>6 DEF RowInv
    <3> QED
      BY <2>6, <3>1, <3>2, <3>3 DEF RowInv
  <2>9. DispatchInv'
    BY <1>1, <2>1, <2>2, <2>3, <2>4, <2>6 DEF TypeInv, DispatchInv
  <2>10. StartInv'
    BY <1>1, <2>1, <2>2, <2>3, <2>4, <2>6 DEF TypeInv, StartInv, DispatchInv
  <2>11. WakeInv'
    BY <1>1, <2>1, <2>2, <2>3, <2>4, <2>6 DEF TypeInv, WakeInv, DispatchInv
  <2>12. QueueOwnsUntilAccepted'
    BY <1>1, <2>1, <2>2, <2>3, <2>4, <2>6 DEF TypeInv, RowInv, StartInv,
        DispatchInv, QueueOwnsUntilAccepted
  <2> QED
    BY <2>7, <2>8, <2>9, <2>10, <2>11, <2>12
<1>4. CASE Unlock /\ UNCHANGED <<tableVars, inserted>>
  <2>1. tail' \in Seq(JobType) /\ (Woken(1) => Woken(0)')
      /\ (Woken(0) /\ tail[1].op # "wake" => Woken(0)')
    BY <1>1, <1>4, JobEnds DEF TypeInv, Unlock
  <2>2. TypeInv'
    BY <1>1, <1>4, <2>1 DEF TypeInv, Places
  <2>3. RowInv'
    BY <1>1, <1>4, <2>1 DEF TypeInv, RowInv
  <2>4. DispatchInv'
    BY <1>1, <1>4, <2>1 DEF TypeInv, DispatchInv
  <2>5. StartInv'
    BY <1>1, <1>4, <2>1 DEF TypeInv, StartInv, DispatchInv
  <2>6. WakeInv'
    BY <1>1, <1>4, <2>1 DEF TypeInv, WakeInv, DispatchInv
  <2>7. QueueOwnsUntilAccepted'
    BY <1>1, <1>4, <2>1 DEF TypeInv, RowInv, StartInv, DispatchInv,
        QueueOwnsUntilAccepted
  <2> QED
    BY <2>2, <2>3, <2>4, <2>5, <2>6, <2>7
<1> QED
  BY <1>2, <1>3, <1>4 DEF QueueInput

\* What removals and edits of rows keep.
Reduced(gone) ==
  /\ queue' \in Seq(Row) /\ UniqueIds(queue')
  /\ \A r \in Range(queue') :
       \E q \in Range(queue) : q.id = r.id /\ q.sub = r.sub
  /\ \A q \in Range(queue) : q.id \in IdsIn(queue') \cup gone
  /\ queue = <<>> => queue' = <<>>
LEMMA WithoutReduces ==
  ASSUME queue \in Seq(Row), UniqueIds(queue), NEW id, queue' = Without(id)
  PROVE  Reduced({id})
<1>1. /\ queue' \in Seq(Row) /\ UniqueIds(queue')
      /\ Range(queue') = {r \in Range(queue) : r.id # id}
  BY WithoutFacts
<1>2. queue = <<>> => queue' = <<>>
  BY <1>1, EmptyRange
<1> QED
  BY <1>1, <1>2 DEF Reduced, IdsIn

\* A step that removes rows whose inputs were accepted, or that were cancelled,
\* keeps what RowInv and QueueOwnsUntilAccepted say.
LEMMA ReducedKeeps ==
  ASSUME TypeInv, RowInv, QueueOwnsUntilAccepted, NEW gone, Reduced(gone),
         UNCHANGED <<nextId, deleted, inserted>>,
         accepted \subseteq accepted', cancelled \subseteq cancelled',
         \A q \in Range(queue) :
           q.id \in gone => q.id \in IdsIn(queue') \cup cancelled' \/ q.sub \in accepted'
  PROVE  RowInv' /\ QueueOwnsUntilAccepted'
<1>1. RowInv'
  BY DEF RowInv, Reduced
<1>2. ASSUME NEW row \in inserted, ~ deleted,
             row.id \notin IdsIn(queue') \cup cancelled', row.sub \notin accepted'
      PROVE  FALSE
  <2>1. row.id \in IdsIn(queue)
    BY <1>2 DEF QueueOwnsUntilAccepted, IdsIn
  <2>2. PICK q \in Range(queue) : q.id = row.id
    BY <2>1 DEF IdsIn
  <2>3. q.sub = row.sub
    BY <2>2 DEF RowInv
  <2> QED
    BY <1>2, <2>2, <2>3 DEF Reduced
<1>3. QueueOwnsUntilAccepted'
  BY <1>2 DEF QueueOwnsUntilAccepted, IdsIn
<1> QED
  BY <1>1, <1>3

\* cancelInput, updateQueuedInput and reorderQueuedInputs.
LEMMA EditQueueKeeps ==
  ASSUME IInv, EditQueue
  PROVE  IInv'
<1> USE Frames
    DEF IInv, Dispatching, Idle, tableVars, lockVars, sessionVars, fileVars,
        boundVars, historyVars
<1> DEFINE id == tail[1].id
<1>1. /\ tail # <<>> /\ tail[1].op \in {"cancel", "update", "reorder"}
      /\ at = "ready" /\ at' = "ready" /\ item' = NoRow /\ thread' = 0
      /\ UNCHANGED <<nextId, archived, deleted, direct, unseen, sessionVars,
                     fileVars, boundVars, inserted, accepted, parked>>
      /\ tail' = Tail(tail)
  BY DEF EditQueue, Runs, Unlock, Free
<1>2. tail' \in Seq(JobType) /\ (Woken(1) => Woken(0)')
      /\ (Woken(0) /\ tail[1].op # "wake" => Woken(0)')
  BY <1>1, JobEnds DEF TypeInv
<1>3. Reduced(cancelled') /\ cancelled \subseteq cancelled'
  <2> USE DEF EditQueue
  <2> HIDE DEF id
  <2>0. queue \in Seq(Row) /\ UniqueIds(queue)
    BY DEF TypeInv, RowInv
  <2>1. CASE Runs("cancel")
    <3>1. /\ queue' = Without(id)
          /\ cancelled' = IF queue' # queue THEN cancelled \cup {id} ELSE cancelled
      BY <2>1 DEF id, Runs
    <3>2. Reduced({id})
      BY <2>0, <3>1, WithoutReduces
    <3>3. ASSUME NEW q \in Range(queue), q.id = id PROVE queue' # queue
      <4>1. q \notin Range(queue')
        BY <2>0, <3>1, <3>3, WithoutFacts
      <4> QED
        BY <4>1
    <3> QED
      BY <3>1, <3>2, <3>3 DEF Reduced
  <2>2. CASE Runs("update")
    <3>1. /\ queue' = [i \in DOMAIN queue |->
                         IF queue[i].id = id THEN [queue[i] EXCEPT !.rev = 2]
                         ELSE queue[i]]
          /\ UNCHANGED cancelled
      BY <2>2 DEF id, Runs
    <3>2. /\ queue' \in Seq(Row) /\ DOMAIN queue' = DOMAIN queue
          /\ \A i \in DOMAIN queue :
               queue'[i].id = queue[i].id /\ queue'[i].sub = queue[i].sub
      <4>1. /\ queue' = [i \in DOMAIN queue |-> queue'[i]]
            /\ \A i \in DOMAIN queue :
                 queue'[i] \in {queue[i], [queue[i] EXCEPT !.rev = 2]}
        BY <3>1
      <4> QED
        BY <2>0, <4>1, EditedTable
    <3>3. queue = <<>> => queue' = <<>>
      <4>1. queue = <<>> => Range(queue') = {}
        BY <2>0, <3>2, EmptyRange DEF Range
      <4> QED
        BY <3>2, <4>1, EmptyRange
    <3>4. UniqueIds(queue')
      BY <2>0, <3>2 DEF UniqueIds
    <3>5. /\ \A r \in Range(queue') :
               \E q \in Range(queue) : q.id = r.id /\ q.sub = r.sub
          /\ \A q \in Range(queue) : q.id \in IdsIn(queue')
      BY <3>2 DEF Range, IdsIn
    <3> QED
      BY <3>1, <3>2, <3>3, <3>4, <3>5 DEF Reduced
  <2>3. CASE Runs("reorder")
    <3>1. queue' \in {queue, Reverse(queue)} /\ UNCHANGED cancelled
      BY <2>3 DEF Runs
    <3>2. /\ queue' \in Seq(Row) /\ Range(queue') = Range(queue)
          /\ UniqueIds(queue')
      BY <2>0, <3>1, ReversedTable
    <3>3. queue = <<>> => queue' = <<>>
      BY <2>0, <3>2, EmptyRange
    <3> QED
      BY <3>1, <3>2, <3>3 DEF Reduced, IdsIn
  <2> QED
    BY <2>1, <2>2, <2>3
<1>4. RowInv' /\ QueueOwnsUntilAccepted'
  BY <1>1, <1>3, ReducedKeeps
<1>5. TypeInv'
  BY <1>1, <1>2, <1>3 DEF TypeInv, Places, Reduced
<1>6. RowInv'
  BY <1>4
<1>7. DispatchInv'
  BY <1>1, <1>2, <1>3 DEF TypeInv, DispatchInv, Reduced
<1>8. StartInv'
  BY <1>1, <1>2, <1>3 DEF TypeInv, StartInv, DispatchInv, Reduced
<1>9. WakeInv'
  BY <1>1, <1>2, <1>3 DEF TypeInv, WakeInv, DispatchInv, Reduced
<1>10. QueueOwnsUntilAccepted'
  BY <1>4
<1> QED
  BY <1>5, <1>6, <1>7, <1>8, <1>9, <1>10

\* updateSidebar.
LEMMA ArchiveKeeps ==
  ASSUME IInv, Archive
  PROVE  IInv'
<1> USE Frames
    DEF IInv, Dispatching, Idle, tableVars, lockVars, sessionVars, fileVars,
        boundVars, historyVars
<1>1. /\ tail # <<>> /\ tail[1].op \in {"archive", "restore"}
      /\ at \in {"ready", "archiving"}
      /\ UNCHANGED <<tableVars, deleted, direct, unseen, sent, sessionVars,
                     fileVars, boundVars, historyVars>>
  BY DEF Archive, Runs, DispatchInv
<1>2. CASE Unlock
  <2>1. tail' = Tail(tail) /\ at' = "ready" /\ item' = NoRow /\ thread' = 0
    BY <1>2 DEF Unlock, Free
  <2>2. tail' \in Seq(JobType) /\ (Woken(1) => Woken(0)')
      /\ (Woken(0) /\ tail[1].op # "wake" => Woken(0)')
    BY <1>1, <2>1, JobEnds DEF TypeInv
  <2>3. TypeInv'
    BY <1>1, <2>1, <2>2 DEF TypeInv, Places
  <2>4. RowInv'
    BY <1>1, <2>1, <2>2 DEF TypeInv, RowInv
  <2>5. DispatchInv'
    BY <1>1, <2>1, <2>2 DEF TypeInv, DispatchInv
  <2>6. StartInv'
    BY <1>1, <2>1, <2>2 DEF TypeInv, StartInv, DispatchInv
  <2>7. WakeInv'
    BY <1>1, <2>1, <2>2 DEF TypeInv, WakeInv, DispatchInv
  <2>8. QueueOwnsUntilAccepted'
    BY <1>1, <2>1, <2>2 DEF TypeInv, RowInv, StartInv, DispatchInv,
        QueueOwnsUntilAccepted
  <2> QED
    BY <2>3, <2>4, <2>5, <2>6, <2>7, <2>8
<1>3. CASE Runs("archive") /\ Continue("archiving") /\ UNCHANGED archived
  <2>1. TypeInv'
    BY <1>1, <1>3 DEF TypeInv, Places, Runs, Continue
  <2>2. RowInv'
    BY <1>1, <1>3 DEF TypeInv, RowInv, Runs, Continue
  <2>3. DispatchInv'
    BY <1>1, <1>3 DEF TypeInv, DispatchInv, Runs, Continue
  <2>4. StartInv'
    BY <1>1, <1>3 DEF TypeInv, StartInv, DispatchInv, Runs, Continue
  <2>5. WakeInv'
    BY <1>1, <1>3 DEF TypeInv, WakeInv, DispatchInv, Runs, Continue
  <2>6. QueueOwnsUntilAccepted'
    BY <1>1, <1>3 DEF TypeInv, RowInv, StartInv, DispatchInv,
        QueueOwnsUntilAccepted, Runs, Continue
  <2> QED
    BY <2>1, <2>2, <2>3, <2>4, <2>5, <2>6
<1> QED
  BY <1>2, <1>3 DEF Archive

\* deleteSession.
LEMMA DeleteKeeps ==
  ASSUME IInv, DeleteSession
  PROVE  IInv'
<1> USE Frames
    DEF IInv, Dispatching, Idle, tableVars, lockVars, sessionVars, fileVars,
        boundVars, historyVars
<1>1. tail # <<>> /\ tail[1].op = "delete" /\ at \in {"ready", "deleting"}
  BY DEF DeleteSession, Runs, DispatchInv
<1>2. CASE at = "deleting"
  <2>1. /\ tail' = Tail(tail) /\ at' = "ready" /\ item' = NoRow /\ thread' = 0
        /\ queue' = <<>> /\ UNCHANGED <<nextId, archived, deleted, direct, unseen,
             sent, sessionVars, fileVars, boundVars, historyVars>>
    BY <1>2 DEF DeleteSession, Runs, Unlock, Free
  <2>2. tail' \in Seq(JobType) /\ (Woken(1) => Woken(0)')
      /\ (Woken(0) /\ tail[1].op # "wake" => Woken(0)')
    BY <1>1, <2>1, JobEnds DEF TypeInv
  <2>3. queue' \in Seq(Row) /\ Range(queue') = {} /\ UniqueIds(queue')
    BY <2>1, EmptyFacts DEF UniqueIds
  <2>4. deleted
    BY <1>2 DEF DispatchInv
  <2>5. TypeInv'
    BY <1>2, <2>1, <2>2, <2>3, <2>4 DEF TypeInv, Places
  <2>6. RowInv'
    BY <1>2, <2>1, <2>2, <2>3, <2>4 DEF TypeInv, RowInv
  <2>7. DispatchInv'
    BY <1>2, <2>1, <2>2, <2>3, <2>4 DEF TypeInv, DispatchInv
  <2>8. StartInv'
    BY <1>2, <2>1, <2>2, <2>3, <2>4 DEF TypeInv, StartInv, DispatchInv
  <2>9. WakeInv'
    BY <1>2, <2>1, <2>2, <2>3, <2>4 DEF TypeInv, WakeInv, DispatchInv
  <2>10. QueueOwnsUntilAccepted'
    BY <1>2, <2>1, <2>2, <2>3, <2>4 DEF TypeInv, RowInv, StartInv,
        DispatchInv, QueueOwnsUntilAccepted
  <2> QED
    BY <2>5, <2>6, <2>7, <2>8, <2>9, <2>10
<1>3. CASE at = "ready"
  <2>1. /\ at' = "deleting" /\ UNCHANGED <<tail, item, thread>>
        /\ deleted' = TRUE /\ loaded' = FALSE /\ turn' = NoTurn
        /\ rollout' = <<>> /\ buffer' = <<>> /\ synced' = 0
        /\ UNCHANGED <<tableVars, archived, direct, unseen, sent, known,
                       interrupted, boundVars, historyVars>>
    BY <1>3 DEF DeleteSession, Runs, Continue
  <2>2. /\ <<>> \in Seq(RecordType) /\ Len(<<>>) = 0 /\ Handed' = <<>>
    BY <2>1, EmptySeq, ConcatEmptySeq DEF Handed
  <2>3. StartedIn(Handed') = {} /\ Distinct(Handed')
    BY <2>2, EmptyFacts DEF StartedIn, Distinct
  <2>4. NoTurn \in [sub : Key, stage : Stages] /\ NoTurn.stage = "over"
    BY DEF NoTurn, Key, Stages
  <2>5. TypeInv'
    BY <1>1, <1>3, <2>1, <2>2, <2>3, <2>4 DEF TypeInv, Places, Dispatching
  <2>6. RowInv'
    BY <1>1, <1>3, <2>1, <2>2, <2>3, <2>4 DEF TypeInv, RowInv, Dispatching
  <2>7. DispatchInv'
    BY <1>1, <1>3, <2>1, <2>2, <2>3, <2>4 DEF TypeInv, DispatchInv,
        Dispatching
  <2>8. StartInv'
    BY <1>1, <1>3, <2>1, <2>2, <2>3, <2>4 DEF TypeInv, StartInv, DispatchInv,
        Dispatching
  <2>9. WakeInv'
    BY <1>1, <1>3, <2>1, <2>2, <2>3, <2>4 DEF TypeInv, WakeInv, DispatchInv,
        Dispatching
  <2>10. QueueOwnsUntilAccepted'
    BY <1>1, <1>3, <2>1, <2>2, <2>3, <2>4 DEF TypeInv, RowInv, StartInv,
        DispatchInv, QueueOwnsUntilAccepted, Dispatching
  <2> QED
    BY <2>5, <2>6, <2>7, <2>8, <2>9, <2>10
<1> QED
  BY <1>1, <1>2, <1>3

\* A row that is dispatched.
LEMMA RowFacts ==
  ASSUME queue \in Seq(Row)
  PROVE  /\ Range(queue) \subseteq Row
         /\ queue # <<>> => Head(queue) \in Range(queue)
<1>1. DOMAIN queue = 1 .. Len(queue) /\ (queue # <<>> => Len(queue) \in Nat \ {0})
  BY LenProperties, EmptySeq
<1> QED
  BY <1>1, RangeOfSeq DEF Range

\* wake.
LEMMA WakeKeeps ==
  ASSUME IInv, Wake
  PROVE  IInv'
<1> USE Frames
    DEF IInv, Dispatching, Idle, tableVars, lockVars, sessionVars, fileVars,
        boundVars, historyVars
<1>1. /\ tail # <<>> /\ tail[1].op = "wake" /\ at = "ready"
      /\ parked' = IF queue = <<>> THEN parked ELSE "no"
      /\ UNCHANGED <<tableVars, archived, deleted, direct, unseen, sent,
                     sessionVars, fileVars, boundVars, inserted, accepted,
                     cancelled>>
  BY DEF Wake, Runs
<1>2. CASE (queue = <<>> \/ ~loaded \/ turn # NoTurn \/ interrupted) /\ Unlock
  <2>1. tail' = Tail(tail) /\ at' = "ready" /\ item' = NoRow /\ thread' = 0
    BY <1>2 DEF Unlock, Free
  <2>2. tail' \in Seq(JobType)
    BY <1>1, <2>1, JobEnds DEF TypeInv
  <2>3. TypeInv'
    BY <1>1, <1>2, <2>1, <2>2 DEF TypeInv, Places
  <2>4. RowInv'
    BY <1>1, <1>2, <2>1, <2>2 DEF TypeInv, RowInv
  <2>5. DispatchInv'
    BY <1>1, <1>2, <2>1, <2>2 DEF TypeInv, DispatchInv
  <2>6. StartInv'
    BY <1>1, <1>2, <2>1, <2>2 DEF TypeInv, StartInv, DispatchInv
  <2>7. WakeInv'
    BY <1>1, <1>2, <2>1, <2>2 DEF TypeInv, WakeInv, DispatchInv
  <2>8. QueueOwnsUntilAccepted'
    BY <1>1, <1>2, <2>1, <2>2 DEF TypeInv, RowInv, StartInv, DispatchInv,
        QueueOwnsUntilAccepted
  <2> QED
    BY <2>3, <2>4, <2>5, <2>6, <2>7, <2>8
<1>3. CASE queue # <<>> /\ Idle /\ Dispatch(Head(queue))
  <2>1. Head(queue) \in Range(queue) /\ Head(queue) \in Row
    BY <1>3, RowFacts DEF TypeInv
  <2>2. /\ at' = "checking" /\ item' = Head(queue) /\ thread' = resumes
        /\ UNCHANGED tail
    BY <1>3 DEF Dispatch
  <2>3. TypeInv'
    BY <1>1, <1>3, <2>1, <2>2 DEF TypeInv, Places
  <2>4. RowInv'
    BY <1>1, <1>3, <2>1, <2>2 DEF TypeInv, RowInv
  <2>5. DispatchInv'
    BY <1>1, <1>3, <2>1, <2>2 DEF TypeInv, DispatchInv
  <2>6. StartInv'
    BY <1>1, <1>3, <2>1, <2>2 DEF TypeInv, StartInv, DispatchInv
  <2>7. WakeInv'
    BY <1>1, <1>3, <2>1, <2>2 DEF TypeInv, WakeInv, DispatchInv
  <2>8. QueueOwnsUntilAccepted'
    BY <1>1, <1>3, <2>1, <2>2 DEF TypeInv, RowInv, StartInv, DispatchInv,
        QueueOwnsUntilAccepted
  <2> QED
    BY <2>3, <2>4, <2>5, <2>6, <2>7, <2>8
<1> QED
  BY <1>2, <1>3 DEF Wake

\* startQueuedInput.
LEMMA StartKeeps ==
  ASSUME IInv, StartQueuedInput
  PROVE  IInv'
<1> USE Frames
    DEF IInv, Dispatching, Idle, tableVars, lockVars, sessionVars, fileVars,
        boundVars, historyVars
<1>1. /\ tail # <<>> /\ tail[1].op = "start" /\ at = "ready"
      /\ UNCHANGED <<tableVars, archived, deleted, direct, unseen, sent,
                     sessionVars, fileVars, boundVars, historyVars>>
  BY DEF StartQueuedInput, Runs
<1>2. CASE Unlock
  <2>1. tail' = Tail(tail) /\ at' = "ready" /\ item' = NoRow /\ thread' = 0
    BY <1>2 DEF Unlock, Free
  <2>2. tail' \in Seq(JobType) /\ (Woken(1) => Woken(0)')
      /\ (Woken(0) /\ tail[1].op # "wake" => Woken(0)')
    BY <1>1, <2>1, JobEnds DEF TypeInv
  <2>3. TypeInv'
    BY <1>1, <2>1, <2>2 DEF TypeInv, Places
  <2>4. RowInv'
    BY <1>1, <2>1, <2>2 DEF TypeInv, RowInv
  <2>5. DispatchInv'
    BY <1>1, <2>1, <2>2 DEF TypeInv, DispatchInv
  <2>6. StartInv'
    BY <1>1, <2>1, <2>2 DEF TypeInv, StartInv, DispatchInv
  <2>7. WakeInv'
    BY <1>1, <2>1, <2>2 DEF TypeInv, WakeInv, DispatchInv
  <2>8. QueueOwnsUntilAccepted'
    BY <1>1, <2>1, <2>2 DEF TypeInv, RowInv, StartInv, DispatchInv,
        QueueOwnsUntilAccepted
  <2> QED
    BY <2>3, <2>4, <2>5, <2>6, <2>7, <2>8
<1>3. ASSUME NEW row \in Range(queue), loaded, Dispatch(row) PROVE IInv'
  <2>1. row \in Row
    BY <1>3, RowFacts DEF TypeInv
  <2>2. at' = "checking" /\ item' = row /\ thread' = resumes /\ UNCHANGED tail
    BY <1>3 DEF Dispatch
  <2>3. TypeInv'
    BY <1>1, <1>3, <2>1, <2>2 DEF TypeInv, Places
  <2>4. RowInv'
    BY <1>1, <1>3, <2>1, <2>2 DEF TypeInv, RowInv
  <2>5. DispatchInv'
    BY <1>1, <1>3, <2>1, <2>2 DEF TypeInv, DispatchInv
  <2>6. StartInv'
    BY <1>1, <1>3, <2>1, <2>2 DEF TypeInv, StartInv, DispatchInv
  <2>7. WakeInv'
    BY <1>1, <1>3, <2>1, <2>2 DEF TypeInv, WakeInv, DispatchInv
  <2>8. QueueOwnsUntilAccepted'
    BY <1>1, <1>3, <2>1, <2>2 DEF TypeInv, RowInv, StartInv, DispatchInv,
        QueueOwnsUntilAccepted
  <2> QED
    BY <2>3, <2>4, <2>5, <2>6, <2>7, <2>8
<1> QED
  BY <1>2, <1>3 DEF StartQueuedInput

\* start looks at the flag.
LEMMA CheckArchivedKeeps ==
  ASSUME IInv, CheckArchived
  PROVE  IInv'
<1> USE Frames
    DEF IInv, Dispatching, Idle, tableVars, lockVars, sessionVars, fileVars,
        boundVars, historyVars
<1>1. /\ at = "checking" /\ tail # <<>>
      /\ UNCHANGED <<tableVars, archived, deleted, direct, unseen, sent,
                     sessionVars, fileVars, boundVars, inserted, accepted,
                     cancelled>>
  BY DEF CheckArchived, DispatchInv
<1>2. CASE archived
  <2>1. /\ tail' = Tail(tail) /\ at' = "ready" /\ item' = NoRow /\ thread' = 0
        /\ parked' = "archived"
    BY <1>2 DEF CheckArchived, Unlock, Free
  <2>2. tail' \in Seq(JobType)
    BY <1>1, <2>1, JobEnds DEF TypeInv
  <2>3. TypeInv'
    BY <1>1, <2>1, <2>2 DEF TypeInv, Places
  <2>4. RowInv'
    BY <1>1, <2>1, <2>2 DEF TypeInv, RowInv
  <2>5. DispatchInv'
    BY <1>1, <2>1, <2>2 DEF TypeInv, DispatchInv
  <2>6. StartInv'
    BY <1>1, <2>1, <2>2 DEF TypeInv, StartInv, DispatchInv
  <2>7. WakeInv'
    BY <1>1, <2>1, <2>2 DEF TypeInv, WakeInv, DispatchInv
  <2>8. QueueOwnsUntilAccepted'
    BY <1>1, <2>1, <2>2 DEF TypeInv, RowInv, StartInv, DispatchInv,
        QueueOwnsUntilAccepted
  <2> QED
    BY <2>3, <2>4, <2>5, <2>6, <2>7, <2>8
<1>3. CASE ~ archived
  <2>1. at' = "reading" /\ UNCHANGED <<tail, item, thread, parked>>
    BY <1>3 DEF CheckArchived, Continue
  <2>3. TypeInv'
    BY <1>1, <1>3, <2>1 DEF TypeInv, Places
  <2>4. RowInv'
    BY <1>1, <1>3, <2>1 DEF TypeInv, RowInv
  <2>5. DispatchInv'
    BY <1>1, <1>3, <2>1 DEF TypeInv, DispatchInv
  <2>6. StartInv'
    BY <1>1, <1>3, <2>1 DEF TypeInv, StartInv, DispatchInv
  <2>7. WakeInv'
    BY <1>1, <1>3, <2>1 DEF TypeInv, WakeInv, DispatchInv
  <2>8. QueueOwnsUntilAccepted'
    BY <1>1, <1>3, <2>1 DEF TypeInv, RowInv, StartInv, DispatchInv,
        QueueOwnsUntilAccepted
  <2> QED
    BY <2>3, <2>4, <2>5, <2>6, <2>7, <2>8
<1> QED
  BY <1>2, <1>3

\* The row that is dispatched is removed once its input was accepted.
LEMMA RemovalKeeps ==
  ASSUME TypeInv, RowInv, QueueOwnsUntilAccepted, item \in Range(queue),
         item.sub \in accepted, queue' = Without(item.id),
         UNCHANGED <<nextId, deleted, inserted, accepted, cancelled>>
  PROVE  /\ queue' \in Seq(Row) /\ (queue = <<>> => queue' = <<>>)
         /\ RowInv' /\ QueueOwnsUntilAccepted'
<1>1. Reduced({item.id})
  BY WithoutReduces DEF TypeInv, RowInv
<1>2. \A q \in Range(queue) : q.id = item.id => q.sub \in accepted
  BY DEF RowInv, UniqueIds, Range
<1>3. RowInv' /\ QueueOwnsUntilAccepted'
  BY <1>1, <1>2, ReducedKeeps
<1> QED
  BY <1>1, <1>3 DEF Reduced

\* start looks the row up in the stored rollout.
LEMMA ReconcileKeeps ==
  ASSUME IInv, Reconcile
  PROVE  IInv'
<1> USE Frames
    DEF IInv, Dispatching, Idle, tableVars, lockVars, sessionVars, fileVars,
        boundVars, historyVars
<1>1. /\ at = "reading" /\ tail # <<>> /\ item \in Range(queue)
      /\ UNCHANGED <<nextId, archived, deleted, direct, unseen, sent, sessionVars,
                     fileVars, boundVars, historyVars>>
  BY DEF Reconcile, DispatchInv
<1>2. CASE item.sub \in StartedIn(rollout)
  <2>1. queue' = Without(item.id) /\ UnlockAndWake
    BY <1>2 DEF Reconcile
  <2>2. at' = "ready" /\ item' = NoRow /\ thread' = 0
    BY <2>1 DEF UnlockAndWake, Free
  <2>3. tail' \in Seq(JobType) /\ Woken(0)'
    BY <1>1, <2>1, JobEndsAndWakes DEF TypeInv
  <2>4. item.sub \in accepted
    <3>1. Range(rollout) \subseteq Range(Handed)
      BY RangeConcatenation DEF TypeInv, Handed
    <3> QED
      BY <1>2, <3>1 DEF StartedIn, StartInv
  <2>5. /\ queue' \in Seq(Row) /\ RowInv' /\ QueueOwnsUntilAccepted'
    BY <1>1, <2>1, <2>4, RemovalKeeps
  <2>6. TypeInv'
    BY <1>1, <2>2, <2>3, <2>5 DEF TypeInv, Places
  <2>7. RowInv'
    BY <2>5
  <2>8. DispatchInv'
    BY <1>1, <2>2, <2>3, <2>5 DEF TypeInv, DispatchInv
  <2>9. StartInv'
    BY <1>1, <2>2, <2>3, <2>5 DEF TypeInv, StartInv, DispatchInv
  <2>10. WakeInv'
    BY <1>1, <2>2, <2>3, <2>5 DEF TypeInv, WakeInv, DispatchInv
  <2>11. QueueOwnsUntilAccepted'
    BY <2>5
  <2> QED
    BY <2>6, <2>7, <2>8, <2>9, <2>10, <2>11
<1>3. CASE item.sub \notin StartedIn(rollout)
  <2>1. at' = "submitting" /\ UNCHANGED <<tail, item, thread, queue>>
    BY <1>3 DEF Reconcile, Continue
  <2>3. TypeInv'
    BY <1>1, <2>1 DEF TypeInv, Places
  <2>4. RowInv'
    BY <1>1, <2>1 DEF TypeInv, RowInv
  <2>5. DispatchInv'
    BY <1>1, <2>1 DEF TypeInv, DispatchInv
  <2>6. StartInv'
    BY <1>1, <2>1 DEF TypeInv, StartInv, DispatchInv
  <2>7. WakeInv'
    BY <1>1, <2>1 DEF TypeInv, WakeInv, DispatchInv
  <2>8. QueueOwnsUntilAccepted'
    BY <1>1, <2>1 DEF TypeInv, RowInv, StartInv, DispatchInv,
        QueueOwnsUntilAccepted
  <2> QED
    BY <2>3, <2>4, <2>5, <2>6, <2>7, <2>8
<1> QED
  BY <1>2, <1>3

\* A Turn that starts.
LEMMA TurnStarts ==
  ASSUME TypeInv, StartInv, NEW sub \in Key, loaded, ~ Knows(sub), StartTurn(sub),
         UNCHANGED <<rollout, buffer>>
  PROVE  /\ turn' = [sub |-> sub, stage |-> "starting"] /\ turn' # NoTurn
         /\ turn' \in [sub : Key, stage : Stages]
         /\ known' = known \cup {sub} /\ accepted' = accepted \cup {sub}
         /\ StartedIn(Handed') \subseteq known' \cap accepted'
         /\ sub \notin StartedIn(Handed') /\ Distinct(Handed')
         /\ loaded'
<1> USE Frames
<1>1. Handed' = Handed
  BY Frames
<1> QED
  BY <1>1 DEF TypeInv, StartInv, StartTurn, Knows, NoTurn, Stages

\* The row reaches the Session.
LEMMA SubmitQueuedKeeps ==
  ASSUME IInv, SubmitQueued
  PROVE  IInv'
<1> USE Frames
    DEF IInv, Dispatching, Idle, tableVars, lockVars, sessionVars, fileVars,
        boundVars, historyVars
<1> DEFINE open == loaded /\ thread = resumes
<1>1. /\ at = "submitting" /\ tail # <<>> /\ item \in Range(queue)
      /\ UNCHANGED <<queue, nextId, archived, deleted, direct, unseen, sent,
                     fileVars, boundVars, inserted, cancelled>>
  BY DEF SubmitQueued, DispatchInv, Refused
<1>2. CASE /\ open /\ ~Knows(item.sub) /\ turn = NoTurn
           /\ StartTurn(item.sub) /\ Continue("started") /\ UNCHANGED parked
  <2>1. at' = "started" /\ UNCHANGED <<tail, item, thread>>
    BY <1>2 DEF Continue
  <2>2. item.sub \in Key
    BY <1>1, RowFacts DEF TypeInv, Row
  <2>3. /\ turn' = [sub |-> item.sub, stage |-> "starting"] /\ turn' # NoTurn
        /\ turn' \in [sub : Key, stage : Stages]
        /\ known' = known \cup {item.sub} /\ accepted' = accepted \cup {item.sub}
        /\ StartedIn(Handed') \subseteq known' \cap accepted'
        /\ item.sub \notin StartedIn(Handed') /\ Distinct(Handed')
        /\ loaded'
    BY <1>1, <1>2, <2>2, TurnStarts
  <2>4. TypeInv'
    BY <1>1, <1>2, <2>1, <2>2, <2>3 DEF TypeInv, Places
  <2>5. RowInv'
    BY <1>1, <1>2, <2>1, <2>2, <2>3 DEF TypeInv, RowInv
  <2>6. DispatchInv'
    BY <1>1, <1>2, <2>1, <2>2, <2>3 DEF TypeInv, DispatchInv
  <2>7. StartInv'
    BY <1>1, <1>2, <2>1, <2>2, <2>3 DEF TypeInv, StartInv, DispatchInv
  <2>8. WakeInv'
    BY <1>1, <1>2, <2>1, <2>2, <2>3 DEF TypeInv, WakeInv, DispatchInv
  <2>9. QueueOwnsUntilAccepted'
    BY <1>1, <1>2, <2>1, <2>2, <2>3 DEF TypeInv, RowInv, StartInv,
        DispatchInv, QueueOwnsUntilAccepted
  <2> QED
    BY <2>4, <2>5, <2>6, <2>7, <2>8, <2>9
<1>3. CASE /\ ~open \/ Knows(item.sub) \/ turn # NoTurn
           /\ Unlock /\ UNCHANGED <<sessionVars, accepted>>
           /\ parked' = IF open /\ Knows(item.sub) THEN "conflict" ELSE parked
  <2>1. tail' = Tail(tail) /\ at' = "ready" /\ item' = NoRow /\ thread' = 0
    BY <1>3 DEF Unlock, Free
  <2>2. tail' \in Seq(JobType) /\ (Woken(1) => Woken(0)')
      /\ (Woken(0) /\ tail[1].op # "wake" => Woken(0)')
    BY <1>1, <2>1, JobEnds DEF TypeInv
  <2>3. TypeInv'
    BY <1>1, <1>3, <2>1, <2>2 DEF TypeInv, Places
  <2>4. RowInv'
    BY <1>1, <1>3, <2>1, <2>2 DEF TypeInv, RowInv
  <2>5. DispatchInv'
    BY <1>1, <1>3, <2>1, <2>2 DEF TypeInv, DispatchInv
  <2>6. StartInv'
    BY <1>1, <1>3, <2>1, <2>2 DEF TypeInv, StartInv, DispatchInv
  <2>7. WakeInv'
    BY <1>1, <1>3, <2>1, <2>2 DEF TypeInv, WakeInv, DispatchInv
  <2>8. QueueOwnsUntilAccepted'
    BY <1>1, <1>3, <2>1, <2>2 DEF TypeInv, RowInv, StartInv, DispatchInv,
        QueueOwnsUntilAccepted
  <2> QED
    BY <2>3, <2>4, <2>5, <2>6, <2>7, <2>8
<1> QED
  BY <1>2, <1>3 DEF SubmitQueued, Refused

\* The row that was started is removed.
LEMMA RemoveStartedKeeps ==
  ASSUME IInv, RemoveStarted
  PROVE  IInv'
<1> USE Frames
    DEF IInv, Dispatching, Idle, tableVars, lockVars, sessionVars, fileVars,
        boundVars, historyVars
<1>1. /\ at = "started" /\ tail # <<>> /\ item \in Range(queue)
      /\ queue' = Without(item.id) /\ item.sub \in accepted
      /\ tail' = Tail(tail) /\ at' = "ready" /\ item' = NoRow /\ thread' = 0
      /\ UNCHANGED <<nextId, archived, deleted, direct, unseen, sent, sessionVars,
                     fileVars, boundVars, historyVars>>
  BY DEF RemoveStarted, DispatchInv, StartInv, Unlock, Free
<1>2. tail' \in Seq(JobType) /\ (Woken(1) => Woken(0)')
      /\ (Woken(0) /\ tail[1].op # "wake" => Woken(0)')
  BY <1>1, JobEnds DEF TypeInv
<1>3. /\ queue' \in Seq(Row) /\ (queue = <<>> => queue' = <<>>)
      /\ RowInv' /\ QueueOwnsUntilAccepted'
  BY <1>1, RemovalKeeps
<1>4. TypeInv'
  BY <1>1, <1>2, <1>3 DEF TypeInv, Places
<1>5. RowInv'
  BY <1>3
<1>6. DispatchInv'
  BY <1>1, <1>2, <1>3 DEF TypeInv, DispatchInv
<1>7. StartInv'
  BY <1>1, <1>2, <1>3 DEF TypeInv, StartInv, DispatchInv
<1>8. WakeInv'
  BY <1>1, <1>2, <1>3 DEF TypeInv, WakeInv, DispatchInv
<1>9. QueueOwnsUntilAccepted'
  BY <1>3
<1> QED
  BY <1>4, <1>5, <1>6, <1>7, <1>8, <1>9

\* A direct input reaches the Session.
LEMMA SubmitDirectKeeps ==
  ASSUME IInv, SubmitDirect
  PROVE  IInv'
<1> USE Frames
    DEF IInv, Dispatching, Idle, tableVars, lockVars, sessionVars, fileVars,
        boundVars, historyVars
<1>1. /\ direct' = "none" /\ "none" \in Key
      /\ UNCHANGED <<tableVars, archived, deleted, lockVars, unseen, sent,
                     fileVars, boundVars, inserted, cancelled, parked>>
  BY DEF SubmitDirect, Key
<1>2. CASE loaded /\ ~Knows(direct) /\ turn = NoTurn /\ StartTurn(direct)
  <2>1. /\ turn' = [sub |-> direct, stage |-> "starting"] /\ turn' # NoTurn
        /\ turn' \in [sub : Key, stage : Stages]
        /\ known' = known \cup {direct} /\ accepted' = accepted \cup {direct}
        /\ StartedIn(Handed') \subseteq known' \cap accepted'
        /\ direct \notin StartedIn(Handed') /\ Distinct(Handed')
        /\ loaded'
    BY <1>1, <1>2, TurnStarts DEF TypeInv
  <2>2. TypeInv'
    BY <1>1, <1>2, <2>1 DEF TypeInv, Places
  <2>3. RowInv'
    BY <1>1, <1>2, <2>1 DEF TypeInv, RowInv
  <2>4. DispatchInv'
    BY <1>1, <1>2, <2>1 DEF TypeInv, DispatchInv
  <2>5. StartInv'
    BY <1>1, <1>2, <2>1 DEF TypeInv, StartInv, DispatchInv
  <2>6. WakeInv'
    BY <1>1, <1>2, <2>1 DEF TypeInv, WakeInv, DispatchInv
  <2>7. QueueOwnsUntilAccepted'
    BY <1>1, <1>2, <2>1 DEF TypeInv, RowInv, StartInv, DispatchInv,
        QueueOwnsUntilAccepted
  <2> QED
    BY <2>2, <2>3, <2>4, <2>5, <2>6, <2>7
<1>3. CASE UNCHANGED <<sessionVars, accepted>>
  <2>1. TypeInv'
    BY <1>1, <1>3 DEF TypeInv, Places
  <2>2. RowInv'
    BY <1>1, <1>3 DEF TypeInv, RowInv
  <2>3. DispatchInv'
    BY <1>1, <1>3 DEF TypeInv, DispatchInv
  <2>4. StartInv'
    BY <1>1, <1>3 DEF TypeInv, StartInv, DispatchInv
  <2>5. WakeInv'
    BY <1>1, <1>3 DEF TypeInv, WakeInv, DispatchInv
  <2>6. QueueOwnsUntilAccepted'
    BY <1>1, <1>3 DEF TypeInv, RowInv, StartInv, DispatchInv,
        QueueOwnsUntilAccepted
  <2> QED
    BY <2>1, <2>2, <2>3, <2>4, <2>5, <2>6
<1> QED
  BY <1>2, <1>3 DEF SubmitDirect

\* The record of a Turn's start is handed to the writer.
LEMMA TurnBeginsKeeps ==
  ASSUME IInv, TurnBegins
  PROVE  IInv'
<1> USE Frames
    DEF IInv, Dispatching, Idle, tableVars, lockVars, sessionVars, fileVars,
        boundVars, historyVars
<1> DEFINE r == Started(turn.sub)
<1>1. /\ turn.stage = "starting" /\ turn # NoTurn
      /\ turn' \in {[turn EXCEPT !.stage = "running"],
                    [turn EXCEPT !.stage = "failing"]}
      /\ UNCHANGED <<tableVars, archived, deleted, lockVars, direct, unseen, sent,
                     loaded, known, interrupted, boundVars, historyVars>>
      /\ AppendRecord(r, FALSE) \/ AppendFails(r)
  <2>1. turn # NoTurn
    BY DEF TurnBegins, NoTurn
  <2> QED
    BY <2>1 DEF TurnBegins
<1>2. /\ turn' \in [sub : Key, stage : Stages] /\ turn'.sub = turn.sub
      /\ turn'.stage \in {"running", "failing"} /\ turn' # NoTurn
  BY <1>1 DEF TypeInv, Stages, NoTurn
<1>3. r \in RecordType /\ r.type = "turn_started" /\ r.id = turn.sub
  BY DEF TypeInv, RecordType, Started
<1> HIDE DEF r
<1>4. /\ rollout' \in Seq(RecordType) /\ buffer' \in Seq(RecordType)
      /\ Handed' \in {Handed, Append(Handed, r)}
      /\ synced' \in 0 .. Len(rollout')
  BY <1>1, <1>3, RecordHanded DEF TypeInv
<1>5. Handed \in Seq(RecordType)
  BY ConcatProperties DEF TypeInv, Handed
<1>6. /\ StartedIn(Handed') \subseteq StartedIn(Handed) \cup {turn.sub}
      /\ Distinct(Handed')
  BY <1>1, <1>3, <1>4, <1>5, StartedInAppend DEF StartInv
<1>7. loaded /\ turn.sub \in known \cap accepted
  BY <1>1 DEF DispatchInv, StartInv
<1>8. TypeInv'
  BY <1>1, <1>2, <1>4, <1>6, <1>7 DEF TypeInv, Places
<1>9. RowInv'
  BY <1>1, <1>2, <1>4, <1>6, <1>7 DEF TypeInv, RowInv
<1>10. DispatchInv'
  BY <1>1, <1>2, <1>4, <1>6, <1>7 DEF TypeInv, DispatchInv
<1>11. StartInv'
  BY <1>1, <1>2, <1>4, <1>6, <1>7 DEF TypeInv, StartInv, DispatchInv
<1>12. WakeInv'
  BY <1>1, <1>2, <1>4, <1>6, <1>7 DEF TypeInv, WakeInv, DispatchInv
<1>13. QueueOwnsUntilAccepted'
  BY <1>1, <1>2, <1>4, <1>6, <1>7 DEF TypeInv, RowInv, StartInv, DispatchInv,
      QueueOwnsUntilAccepted
<1> QED
  BY <1>8, <1>9, <1>10, <1>11, <1>12, <1>13

\* A Turn ends.
LEMMA TurnEndsKeeps ==
  ASSUME IInv, TurnEnds
  PROVE  IInv'
<1> USE Frames
    DEF IInv, Dispatching, Idle, tableVars, lockVars, sessionVars, fileVars,
        boundVars, historyVars
<1>1. PICK cause \in {"finished", "interrupted"} :
        /\ \/ \E flushed \in {TRUE, ~SavesFail} : AppendRecord(Ended(cause), flushed)
           \/ AppendFails(Ended(cause))
        /\ turn' = NoTurn /\ interrupted' = (cause = "interrupted")
        /\ IF cause = "interrupted" THEN UNCHANGED tail ELSE Enqueue(WakeJob)
        /\ UNCHANGED <<tableVars, archived, deleted, at, item, thread, direct,
                       unseen, sent, loaded, known, boundVars, historyVars>>
  BY DEF TurnEnds, Causes
<1> DEFINE r == Ended(cause)
<1>2. r \in RecordType /\ r.type = "turn_completed"
  BY DEF RecordType, Ended, Key
<1>3. \E flushed \in BOOLEAN : AppendRecord(r, flushed) \/ AppendFails(r)
  BY <1>1, BoundsAssumption DEF BoundsAssumption
<1> HIDE DEF r
<1>4. /\ rollout' \in Seq(RecordType) /\ buffer' \in Seq(RecordType)
      /\ Handed' \in {Handed, Append(Handed, r)}
      /\ synced' \in 0 .. Len(rollout')
  BY <1>2, <1>3, RecordHanded DEF TypeInv
<1>5. Handed \in Seq(RecordType)
  BY ConcatProperties DEF TypeInv, Handed
<1>6. StartedIn(Handed') = StartedIn(Handed) /\ Distinct(Handed')
  BY <1>2, <1>4, <1>5, StartedInAppend DEF StartInv
<1>7. loaded
  BY DEF DispatchInv, TurnEnds
<1>8. NoTurn \in [sub : Key, stage : Stages] /\ NoTurn.stage = "over"
  BY DEF NoTurn, Key, Stages
<1>9. /\ tail' \in Seq(JobType) /\ (tail # <<>> => tail' # <<>> /\ tail'[1] = tail[1])
      /\ ~ interrupted' => /\ Woken(0)'
                           /\ tail # <<>> => Woken(1)'
  <2>1. CASE cause = "interrupted"
    BY <1>1, <2>1 DEF TypeInv
  <2>2. CASE cause # "interrupted"
    <3>1. WakeJob \in JobType /\ WakeJob.op = "wake"
      BY DEF WakeJob, Job, JobType, Key
    <3> QED
      BY <1>1, <2>2, <3>1, JobEnqueued DEF TypeInv
  <2> QED
    BY <2>1, <2>2
<1>10. TypeInv'
  BY <1>1, <1>4, <1>6, <1>7, <1>8, <1>9 DEF TypeInv, Places
<1>11. RowInv'
  BY <1>1, <1>4, <1>6, <1>7, <1>8, <1>9 DEF TypeInv, RowInv
<1>12. DispatchInv'
  BY <1>1, <1>4, <1>6, <1>7, <1>8, <1>9 DEF TypeInv, DispatchInv
<1>13. StartInv'
  BY <1>1, <1>4, <1>6, <1>7, <1>8, <1>9 DEF TypeInv, StartInv, DispatchInv
<1>14. WakeInv'
  BY <1>1, <1>4, <1>6, <1>7, <1>8, <1>9 DEF TypeInv, WakeInv, DispatchInv
<1>15. QueueOwnsUntilAccepted'
  BY <1>1, <1>4, <1>6, <1>7, <1>8, <1>9 DEF TypeInv, RowInv, StartInv,
      DispatchInv, QueueOwnsUntilAccepted
<1> QED
  BY <1>10, <1>11, <1>12, <1>13, <1>14, <1>15

\* An idle Session is closed.
LEMMA CloseThreadKeeps ==
  ASSUME IInv, CloseThread
  PROVE  IInv'
<1> USE Frames
    DEF IInv, Dispatching, Idle, tableVars, lockVars, sessionVars, fileVars,
        boundVars, historyVars
<1>1. /\ turn = NoTurn /\ ~ loaded'
      /\ rollout' = Handed /\ buffer' = <<>> /\ synced' = Len(rollout')
      /\ UNCHANGED <<tableVars, archived, deleted, lockVars, direct, unseen, sent,
                     turn, known, interrupted, boundVars, historyVars>>
  BY DEF CloseThread, Handed
<1>2. Handed \in Seq(RecordType)
  BY ConcatProperties DEF TypeInv, Handed
<1>3. /\ Handed' = Handed /\ <<>> \in Seq(RecordType)
      /\ synced' \in 0 .. Len(rollout')
  BY <1>1, <1>2, ConcatEmptySeq, EmptyFacts, LenProperties DEF Handed
<1>4. TypeInv'
  BY <1>1, <1>2, <1>3 DEF TypeInv, Places
<1>5. RowInv'
  BY <1>1, <1>2, <1>3 DEF TypeInv, RowInv
<1>6. DispatchInv'
  BY <1>1, <1>2, <1>3 DEF TypeInv, DispatchInv
<1>7. StartInv'
  BY <1>1, <1>2, <1>3 DEF TypeInv, StartInv, DispatchInv
<1>8. WakeInv'
  BY <1>1, <1>2, <1>3 DEF TypeInv, WakeInv, DispatchInv
<1>9. QueueOwnsUntilAccepted'
  BY <1>1, <1>2, <1>3 DEF TypeInv, RowInv, StartInv, DispatchInv,
      QueueOwnsUntilAccepted
<1> QED
  BY <1>4, <1>5, <1>6, <1>7, <1>8, <1>9

\* A Session is resumed.
LEMMA ResumeThreadKeeps ==
  ASSUME IInv, ResumeThread
  PROVE  IInv'
<1> USE Frames
    DEF IInv, Dispatching, Idle, tableVars, lockVars, sessionVars, fileVars,
        boundVars, historyVars
<1>1. /\ ~ loaded /\ ~ deleted /\ loaded' /\ resumes' = resumes + 1
      /\ known' = StartedIn(rollout)
      /\ IF interrupted' THEN UNCHANGED tail ELSE Enqueue(WakeJob)
      /\ UNCHANGED <<tableVars, archived, deleted, at, item, thread, direct,
                     unseen, sent, turn, fileVars, crashes, historyVars>>
  BY DEF ResumeThread
<1>2. turn = NoTurn /\ Handed = rollout /\ Handed' = Handed
  BY <1>1, ConcatEmptySeq DEF TypeInv, DispatchInv, Handed
<1>3. known' \subseteq Key
  <2>1. Range(rollout) \subseteq RecordType
    BY RangeOfSeq DEF TypeInv
  <2> QED
    BY <1>1, <2>1 DEF StartedIn, RecordType
<1>4. /\ tail' \in Seq(JobType) /\ (tail # <<>> => tail' # <<>> /\ tail'[1] = tail[1])
      /\ ~ interrupted' => /\ Woken(0)'
                           /\ tail # <<>> => Woken(1)'
  <2>1. CASE interrupted'
    BY <1>1, <2>1 DEF TypeInv
  <2>2. CASE ~ interrupted'
    <3>1. WakeJob \in JobType /\ WakeJob.op = "wake"
      BY DEF WakeJob, Job, JobType, Key
    <3> QED
      BY <1>1, <2>2, <3>1, JobEnqueued DEF TypeInv
  <2> QED
    BY <2>1, <2>2
<1>5. NoTurn.stage = "over"
  BY DEF NoTurn
<1>6. TypeInv'
  BY <1>1, <1>2, <1>3, <1>4, <1>5 DEF TypeInv, Places
<1>7. RowInv'
  BY <1>1, <1>2, <1>3, <1>4, <1>5 DEF TypeInv, RowInv
<1>8. DispatchInv'
  BY <1>1, <1>2, <1>3, <1>4, <1>5 DEF TypeInv, DispatchInv
<1>9. StartInv'
  BY <1>1, <1>2, <1>3, <1>4, <1>5 DEF TypeInv, StartInv, DispatchInv
<1>10. WakeInv'
  BY <1>1, <1>2, <1>3, <1>4, <1>5 DEF TypeInv, WakeInv, DispatchInv
<1>11. QueueOwnsUntilAccepted'
  BY <1>1, <1>2, <1>3, <1>4, <1>5 DEF TypeInv, RowInv, StartInv, DispatchInv,
      QueueOwnsUntilAccepted
<1> QED
  BY <1>6, <1>7, <1>8, <1>9, <1>10, <1>11

\* The process dies.
LEMMA CrashKeeps ==
  ASSUME IInv, Crash
  PROVE  IInv'
<1> USE Frames
    DEF IInv, Dispatching, Idle, tableVars, lockVars, sessionVars, fileVars,
        boundVars, historyVars
<1>1. PICK n \in synced .. Len(rollout) : rollout' = SubSeq(rollout, 1, n)
  BY DEF Crash
<1>2. /\ buffer' = <<>> /\ synced' = Len(rollout')
      /\ tail' = <<>> /\ at' = "ready" /\ item' = NoRow /\ thread' = 0
      /\ direct' = "none" /\ ~ loaded' /\ turn' = NoTurn
      /\ UNCHANGED <<tableVars, archived, deleted, unseen, sent, known,
                     interrupted, resumes, inserted, accepted, cancelled>>
  BY DEF Crash, Free
<1>3. n \in 0 .. Len(rollout)
  BY DEF TypeInv
<1>4. /\ rollout' \in Seq(RecordType) /\ Len(rollout') = n
      /\ StartedIn(rollout') \subseteq StartedIn(Handed) /\ Distinct(rollout')
  BY <1>1, <1>3, StartedInPrefix DEF TypeInv, StartInv
<1>5. Handed' = rollout'
  BY <1>2, <1>4, ConcatEmptySeq DEF Handed
<1>6. /\ <<>> \in Seq(RecordType) /\ <<>> \in Seq(JobType) /\ "none" \in Key
      /\ NoTurn \in [sub : Key, stage : Stages] /\ NoTurn.stage = "over"
  BY EmptyFacts DEF NoTurn, Key, Stages
<1>7. synced' \in 0 .. Len(rollout')
  BY <1>2, <1>3, <1>4
<1>8. TypeInv'
  BY <1>2, <1>4, <1>5, <1>6, <1>7 DEF TypeInv, Places
<1>9. RowInv'
  BY <1>2, <1>4, <1>5, <1>6, <1>7 DEF TypeInv, RowInv
<1>10. DispatchInv'
  BY <1>2, <1>4, <1>5, <1>6, <1>7 DEF TypeInv, DispatchInv
<1>11. StartInv'
  BY <1>2, <1>4, <1>5, <1>6, <1>7 DEF TypeInv, StartInv, DispatchInv
<1>12. WakeInv'
  BY <1>2, <1>4, <1>5, <1>6, <1>7 DEF TypeInv, WakeInv, DispatchInv
<1>13. QueueOwnsUntilAccepted'
  BY <1>2, <1>4, <1>5, <1>6, <1>7 DEF TypeInv, RowInv, StartInv, DispatchInv,
      QueueOwnsUntilAccepted
<1> QED
  BY <1>8, <1>9, <1>10, <1>11, <1>12, <1>13

-----------------------------------------------------------------------------
(* The theorems.                                                           *)

LEMMA InitIInv == Init => IInv
<1> SUFFICES ASSUME Init PROVE IInv
  OBVIOUS
<1>1. /\ \A X : <<>> \in Seq(X)
      /\ Len(<<>>) = 0 /\ DOMAIN <<>> = {} /\ Range(<<>>) = {}
  BY EmptyFacts
<1>2. Handed = <<>> /\ StartedIn(Handed) = {}
  BY <1>1, ConcatEmptySeq DEF Init, Handed, StartedIn
<1>3. NoTurn \in [sub : Key, stage : Stages] /\ NoTurn.stage = "over"
  BY DEF NoTurn, Key, Stages
<1>4. TypeInv
  BY <1>1, <1>3 DEF Init, TypeInv, Places, Key
<1>5. RowInv /\ QueueOwnsUntilAccepted
  BY <1>1 DEF Init, RowInv, UniqueIds, QueueOwnsUntilAccepted
<1>6. DispatchInv
  BY DEF Init, DispatchInv, Dispatching
<1>7. StartInv
  BY <1>1, <1>2, <1>3 DEF Init, StartInv, Distinct
<1>8. WakeInv
  BY DEF Init, WakeInv, Dispatching
<1> QED
  BY <1>4, <1>5, <1>6, <1>7, <1>8 DEF IInv

LEMMA NextIInv == IInv /\ [Next]_vars => IInv'
<1> SUFFICES ASSUME IInv, [Next]_vars PROVE IInv'
  OBVIOUS
<1>1. CASE UNCHANGED vars
  BY <1>1, Frames
     DEF vars, tableVars, lockVars, sessionVars, fileVars, boundVars,
         historyVars, IInv, TypeInv, RowInv, DispatchInv, StartInv, WakeInv,
         Idle, QueueOwnsUntilAccepted
<1>2. ASSUME NEW c \in Requests,
             CallLocked(c) \/ CallDirect(c) \/ CallExternal(c)
      PROVE  IInv'
  <2>1. c \in RequestType
    BY ScriptsAssumption DEF ScriptsAssumption, Requests
  <2> QED
    BY <1>2, <2>1, CallLockedKeeps, CallDirectKeeps, CallExternalKeeps
<1>3. CASE PollExternalChanges \/ Locked
  BY <1>3, PollKeeps, QueueInputKeeps, EditQueueKeeps, ArchiveKeeps,
     DeleteKeeps, WakeKeeps, StartKeeps, CheckArchivedKeeps, ReconcileKeeps,
     SubmitQueuedKeeps, RemoveStartedKeeps
     DEF Locked, DispatchStep
<1>4. CASE SessionStep \/ CloseThread \/ ResumeThread \/ Crash
  BY <1>4, SubmitDirectKeeps, TurnBeginsKeeps, TurnEndsKeeps,
     CloseThreadKeeps, ResumeThreadKeeps, CrashKeeps
     DEF SessionStep
<1> QED
  BY <1>1, <1>2, <1>3, <1>4 DEF Next

LEMMA SpecIInv == Spec => []IInv
BY InitIInv, NextIInv, PTL DEF Spec

\* A row that is gone from the table was cancelled, or a Session has accepted
\* its input: no dispatch, edit, conflict, close or crash loses an input.
THEOREM QueueOwnsUntilAcceptedHolds == Spec => []QueueOwnsUntilAccepted
<1>1. IInv => QueueOwnsUntilAccepted
  BY DEF IInv
<1> QED
  BY <1>1, SpecIInv, PTL

\* No submission starts twice among the records that the writer was handed,
\* whichever way it is sent, retried or dispatched again after a crash.
THEOREM StartedOnceHolds == Spec => []StartedOnce
<1>1. IInv => StartedOnce
  BY DEF IInv, StartInv, Distinct, Handed, StartedOnce
<1> QED
  BY <1>1, SpecIInv, PTL

\* An idle Session with rows in its queue has a wake ahead of it, or its last
\* dispatch was refused for a reason that no event announces.
THEOREM NoLostWakeupHolds == Spec => []NoLostWakeup
<1>1. IInv => NoLostWakeup
  <2>1. tail = <<>> => ~ Woken(0)
    BY EmptyFacts DEF Woken
  <2> QED
    BY <2>1 DEF IInv, DispatchInv, WakeInv, Idle, NoLostWakeup, Dispatching
<1> QED
  BY <1>1, SpecIInv, PTL

\* A Turn starts only with a row that is in the table as it was read, at its
\* head when the queue was woken, and of a session that is neither archived nor
\* deleted.
THEOREM StartsWhatIsQueuedHolds == Spec => StartsWhatIsQueued
<1>1. IInv /\ [Next]_vars =>
        ((at' = "started" /\ at # "started") =>
           /\ item \in Range(queue) /\ ~archived /\ ~deleted
           /\ tail[1].op = "wake" => item = Head(queue))
  <2> SUFFICES ASSUME IInv, [Next]_vars, at' = "started", at # "started"
               PROVE  at = "submitting"
    BY DEF IInv, DispatchInv, Dispatching
  <2>1. ASSUME NEW c, CallLocked(c) \/ CallDirect(c) \/ CallExternal(c)
        PROVE  at' = at
    BY <2>1 DEF CallLocked, CallDirect, CallExternal, lockVars
  <2> USE DEF tableVars, lockVars, sessionVars, fileVars, boundVars, historyVars,
              Unlock, UnlockAndWake, Free, Continue, Dispatch
  <2>2. CASE Locked
    BY <2>2 DEF Locked, DispatchStep, QueueInput, EditQueue, Archive,
       DeleteSession, Wake, StartQueuedInput, CheckArchived, Reconcile,
       SubmitQueued, RemoveStarted
  <2>3. CASE PollExternalChanges \/ SessionStep \/ CloseThread \/ ResumeThread
             \/ Crash
    BY <2>3 DEF PollExternalChanges, SessionStep, SubmitDirect, TurnBegins,
       TurnEnds, CloseThread, ResumeThread, Crash
  <2>4. CASE UNCHANGED vars
    BY <2>4 DEF vars
  <2> QED
    BY <2>1, <2>2, <2>3, <2>4 DEF Next
<1> QED
  BY <1>1, SpecIInv, PTL DEF Spec, StartsWhatIsQueued
=============================================================================
