---------------------------- MODULE QueueDispatch ----------------------------
(***************************************************************************)
(* The queue of inputs that wait for a Session's next Turn                 *)
(* (src/server/queued-item-service.ts, input-queue.ts and the handlers     *)
(* that use them): rows of an SQLite table, edited and dispatched under a  *)
(* lock per session, beside direct inputs that do not take the lock, other *)
(* processes that write the table, an archive flag, Turns that end or are  *)
(* interrupted, Sessions that are closed and resumed, failing saves and    *)
(* crashes.                                                                *)
(*                                                                         *)
(* Abstractions.  One session.  The Session (module Session) is what the   *)
(* queue sees of it: the active Turn, the submissions it knows, whether    *)
(* its last Turn was interrupted, and its rollout of Turns that started    *)
(* and ended.  Inputs are human ones, so the Session refuses a submission  *)
(* it knows as a conflict.  An append that rejects leaves its record in    *)
(* the writer's buffer, and the next one writes both (RolloutWriter).      *)
(* What an operation under the lock does in awaits that no other step can  *)
(* tell apart is one step.  Attachments, notifications and the shutdown of *)
(* the server are left out.                                                *)
(***************************************************************************)
EXTENDS Naturals, Sequences, FiniteSets, SequencesExt

CONSTANTS
  Scripts,      \* sets of calls: the users of an execution make the calls of
                \* one script, each one once
  Capacity,     \* MAX_QUEUED_ITEMS
  SavesFail,    \* whether appends to the rollout may fail
  MaxResumes,   \* bound: how often the Session is resumed
  MaxCrashes    \* bound: crashes of the process

Operations == {"queue", "direct", "external", "cancel", "update", "reorder",
               "start", "archive", "restore", "delete"}
\* sub is the id of the request that is queued, or whose row is meant; n tells
\* a retry from the original.
RequestType == [op : Operations, sub : STRING, n : Nat]

Requests == UNION Scripts

ASSUME ScriptsAssumption == Scripts \subseteq SUBSET RequestType
ASSUME BoundsAssumption ==
  /\ Capacity \in Nat \ {0} /\ SavesFail \in BOOLEAN
  /\ MaxResumes \in Nat /\ MaxCrashes \in Nat

VARIABLES
  queue,        \* the rows of the session, in queue_order
  nextId,       \* the id of the next row
  archived,     \* the archived flag of the session's sidebar entry
  deleted,      \* the session is gone from the store
  tail,         \* #tails: operations that hold or wait for the lock
  at,           \* where the operation that holds the lock is
  item,         \* the row it dispatches
  thread,       \* the incarnation of the Session it dispatches to
  direct,       \* a direct input past its checks, or "none"
  unseen,       \* another process has written the table since the last poll
  sent,         \* requests made
  loaded,       \* the thread manager has the Session
  turn,         \* #activeTurn: [sub, stage], or NoTurn
  known,        \* keys of #submittedInputs
  interrupted,  \* agentStatus is "interrupted"
  rollout,      \* records of Turns in rollout.jsonl
  buffer,       \* numbered records that are not in the file
  synced,       \* length of rollout that a flush has promised
  crashes,
  resumes,      \* Sessions resumed: the number of the present incarnation
  inserted,     \* history: every row there has been
  accepted,     \* history: submissions a Session has accepted
  cancelled,    \* history: ids of rows whose cancellation was confirmed
  parked        \* history: why the last dispatch left its row, if no event
                \* is to wake the queue for it: "no" or the reason

tableVars == <<queue, nextId>>
lockVars == <<tail, at, item, thread>>
sessionVars == <<loaded, turn, known, interrupted>>
fileVars == <<rollout, buffer, synced>>
boundVars == <<crashes, resumes>>
historyVars == <<inserted, accepted, cancelled, parked>>
vars == <<tableVars, archived, deleted, lockVars, direct, unseen, sent,
          sessionVars, fileVars, boundVars, historyVars>>

NoTurn == [sub |-> "none", stage |-> "over"]
NoRow == [id |-> 0, sub |-> "none", rev |-> 0]
Started(s) == [type |-> "turn_started", id |-> s]
Ended(cause) == [type |-> "turn_completed", id |-> cause]
StartedIn(records) ==
  {r.id : r \in {q \in Range(records) : q.type = "turn_started"}}
\* agentStatusFromStoredThread: a Turn that did not end was interrupted.
InterruptedIn(records) ==
  records # <<>> /\ Last(records) # Ended("finished")

IdsOf(sub) == {r.id : r \in {q \in Range(queue) : q.sub = sub}}
HasRoom == Len(queue) < Capacity

Init ==
  /\ queue = <<>> /\ nextId = 1
  /\ archived = FALSE /\ deleted = FALSE
  /\ tail = <<>> /\ at = "ready" /\ item = NoRow /\ thread = 0
  /\ direct = "none" /\ unseen = FALSE /\ sent = {}
  /\ loaded = TRUE /\ turn = NoTurn /\ known = {} /\ interrupted = FALSE
  /\ rollout = <<>> /\ buffer = <<>> /\ synced = 0
  /\ crashes = 0 /\ resumes = 0
  /\ inserted = {} /\ accepted = {} /\ cancelled = {} /\ parked = "no"

-----------------------------------------------------------------------------
\* withLock: operations run one at a time, in the order of their calls.
Job(op, sub, id) == [op |-> op, sub |-> sub, id |-> id]
WakeJob == Job("wake", "none", 0)
Enqueue(job) == tail' = Append(tail, job)
Runs(op) == tail # <<>> /\ tail[1].op = op /\ at = "ready"
\* The operation ends, normally or by throwing, and gives the lock back; some
\* wake the queue as they end.
Free == at' = "ready" /\ item' = NoRow /\ thread' = 0
Unlock == tail' = Tail(tail) /\ Free
UnlockAndWake == tail' = Append(Tail(tail), WakeJob) /\ Free
\* The operation goes on.
Continue(step) == at' = step /\ UNCHANGED <<tail, item, thread>>
\* It dispatches a row to the Session that is loaded.
Dispatch(row) ==
  at' = "checking" /\ item' = row /\ thread' = resumes /\ UNCHANGED tail

Insert(sub) ==
  /\ LET row == [id |-> nextId, sub |-> sub, rev |-> 1] IN
     queue' = Append(queue, row) /\ inserted' = inserted \cup {row}
  /\ nextId' = nextId + 1
Without(id) ==
  IF \E i \in DOMAIN queue : queue[i].id = id
  THEN RemoveAt(queue, CHOOSE i \in DOMAIN queue : queue[i].id = id)
  ELSE queue

\* Mutant: a cancellation does not wait for the lock.
CallCancel_Unlocked(id) ==
  /\ queue' = Without(id)
  /\ cancelled' = cancelled \cup {id}
  /\ UNCHANGED <<nextId, tail, inserted, accepted, parked>>

\* cancelInput.
CallCancel(id) ==
  /\ Enqueue(Job("cancel", "none", id))
  /\ UNCHANGED <<tableVars, historyVars>>

Send(c) ==
  /\ c \notin sent /\ ~deleted
  /\ \E script \in Scripts : sent' = sent \cup {c} /\ sent' \subseteq script

\* Calls that take the lock.  queueInput checks the archived flag before;
\* edits name a row that the user has seen.
CallLocked(c) ==
  /\ Send(c)
  /\ \/ \E id \in IdsOf(c.sub) : c.op = "cancel" /\ CallCancel(id)
     \/ /\ \/ \E id \in IdsOf(c.sub) :
                c.op \in {"update", "start"} /\ Enqueue(Job(c.op, "none", id))
           \/ c.op = "queue" /\ ~archived /\ Enqueue(Job("queue", c.sub, 0))
           \/ /\ c.op \in {"reorder", "archive", "restore", "delete"}
              /\ Enqueue(Job(c.op, "none", 0))
        /\ UNCHANGED <<tableVars, historyVars>>
  /\ UNCHANGED <<archived, deleted, at, item, thread, direct, unseen,
                 sessionVars, fileVars, boundVars>>

\* admitInput does not take the lock: it checks the archived flag, and its
\* input reaches the Session later.
CallDirect(c) ==
  /\ c.op = "direct" /\ direct = "none" /\ ~archived
  /\ Send(c)
  /\ direct' = c.sub
  /\ UNCHANGED <<tableVars, archived, deleted, lockVars, unseen, sessionVars,
                 fileVars, boundVars, historyVars>>

\* Another process queues an input.
CallExternal(c) ==
  /\ c.op = "external" /\ ~archived
  /\ IdsOf(c.sub) = {} /\ HasRoom
  /\ Send(c)
  /\ Insert(c.sub)
  /\ unseen' = TRUE
  /\ UNCHANGED <<archived, deleted, lockVars, direct, sessionVars, fileVars,
                 boundVars, accepted, cancelled, parked>>

\* pollExternalChanges: wakes the queue of a Session that is loaded.
PollExternalChanges ==
  /\ unseen
  /\ unseen' = FALSE
  /\ IF loaded THEN Enqueue(WakeJob) ELSE UNCHANGED tail
  /\ UNCHANGED <<tableVars, archived, deleted, at, item, thread, direct, sent,
                 sessionVars, fileVars, boundVars, historyVars>>

-----------------------------------------------------------------------------
\* What the operations do under the lock.

\* InputQueue.enqueue, then wake.  A retry finds the row of the original,
\* unless it has been edited; a full queue refuses.
QueueInput ==
  /\ Runs("queue")
  /\ LET sub == tail[1].sub
         edited == \E r \in Range(queue) : r.sub = sub /\ r.rev # 1 IN
     \/ /\ IdsOf(sub) # {} /\ ~edited
        /\ UnlockAndWake
        /\ UNCHANGED <<tableVars, inserted>>
     \/ /\ IdsOf(sub) = {} /\ HasRoom /\ ~deleted
        /\ Insert(sub)
        /\ UnlockAndWake
     \/ /\ IF IdsOf(sub) # {} THEN edited ELSE ~HasRoom \/ deleted
        /\ Unlock
        /\ UNCHANGED <<tableVars, inserted>>
  /\ UNCHANGED <<archived, deleted, direct, unseen, sent, sessionVars,
                 fileVars, boundVars, accepted, cancelled, parked>>

\* cancelInput, updateQueuedInput and reorderQueuedInputs.  They fail when the
\* row is gone, or when the rows to reorder are not those of the queue.
EditQueue ==
  /\ \/ /\ Runs("cancel")
        /\ queue' = Without(tail[1].id)
        /\ cancelled' = IF queue' # queue THEN cancelled \cup {tail[1].id}
                        ELSE cancelled
     \/ /\ Runs("update")
        /\ queue' = [i \in DOMAIN queue |->
             IF queue[i].id = tail[1].id THEN [queue[i] EXCEPT !.rev = 2]
             ELSE queue[i]]
        /\ UNCHANGED cancelled
     \/ /\ Runs("reorder")
        /\ queue' \in {queue, Reverse(queue)}
        /\ UNCHANGED cancelled
  /\ Unlock
  /\ UNCHANGED <<nextId, archived, deleted, direct, unseen, sent, sessionVars,
                 fileVars, boundVars, inserted, accepted, parked>>

\* updateSidebar: the active Turn is checked, then the flag is stored.
Archive ==
  /\ \/ /\ Runs("archive") /\ turn # NoTurn
        /\ Unlock
        /\ UNCHANGED archived
     \/ /\ Runs("archive") /\ turn = NoTurn
        /\ Continue("archiving")
        /\ UNCHANGED archived
     \/ /\ at = "archiving"
        /\ archived' = TRUE
        /\ Unlock
     \/ /\ Runs("restore")
        /\ archived' = FALSE
        /\ Unlock
  /\ UNCHANGED <<tableVars, deleted, direct, unseen, sent, sessionVars,
                 fileVars, boundVars, historyVars>>

\* deleteSession: the Session is discarded with its rollout, then its rows.
DeleteSession ==
  \/ /\ Runs("delete")
     /\ Continue("deleting")
     /\ deleted' = TRUE /\ loaded' = FALSE /\ turn' = NoTurn
     /\ rollout' = <<>> /\ buffer' = <<>> /\ synced' = 0
     /\ UNCHANGED <<tableVars, archived, direct, unseen, sent, known,
                    interrupted, boundVars, historyVars>>
  \/ /\ at = "deleting"
     /\ queue' = <<>>
     /\ Unlock
     /\ UNCHANGED <<nextId, archived, deleted, direct, unseen, sent,
                    sessionVars, fileVars, boundVars, historyVars>>

\* wake: nothing to do unless the Session is idle and was not interrupted.
Wake ==
  /\ Runs("wake")
  /\ IF queue = <<>> \/ ~loaded \/ turn # NoTurn \/ interrupted
     THEN Unlock
     ELSE Dispatch(Head(queue))
  /\ parked' = IF queue = <<>> THEN parked ELSE "no"
  /\ UNCHANGED <<tableVars, archived, deleted, direct, unseen, sent,
                 sessionVars, fileVars, boundVars, inserted, accepted,
                 cancelled>>

\* startQueuedInput of a row, if it still is there and the Session is loaded.
StartQueuedInput ==
  /\ Runs("start")
  /\ \/ /\ loaded
        /\ \E r \in Range(queue) : r.id = tail[1].id /\ Dispatch(r)
     \/ /\ ~loaded \/ \A r \in Range(queue) : r.id # tail[1].id
        /\ Unlock
  /\ UNCHANGED <<tableVars, archived, deleted, direct, unseen, sent,
                 sessionVars, fileVars, boundVars, historyVars>>

\* start: an archived session refuses.
CheckArchived ==
  /\ at = "checking"
  /\ IF archived
     THEN Unlock /\ parked' = "archived"
     ELSE Continue("reading") /\ UNCHANGED parked
  /\ UNCHANGED <<tableVars, archived, deleted, direct, unseen, sent,
                 sessionVars, fileVars, boundVars, inserted, accepted,
                 cancelled>>

\* Mutant: the queue is not woken for the row behind a replayed one.
Reconcile_Asleep ==
  /\ at = "reading"
  /\ IF item.sub \in StartedIn(rollout)
     THEN queue' = Without(item.id) /\ Unlock
     ELSE Continue("submitting") /\ UNCHANGED queue
  /\ UNCHANGED <<nextId, archived, deleted, direct, unseen, sent, sessionVars,
                 fileVars, boundVars, historyVars>>

\* start: a row whose Turn the stored rollout holds is removed, not run again.
Reconcile ==
  /\ at = "reading"
  /\ IF item.sub \in StartedIn(rollout)
     THEN queue' = Without(item.id) /\ UnlockAndWake
     ELSE Continue("submitting") /\ UNCHANGED queue
  /\ UNCHANGED <<nextId, archived, deleted, direct, unseen, sent, sessionVars,
                 fileVars, boundVars, historyVars>>

\* Mutant: a submission is not looked up.
Knows_Nothing(sub) == FALSE

\* #dispatchTurnInput finds the submission.
Knows(sub) == sub \in known
StartTurn(sub) ==
  /\ turn' = [sub |-> sub, stage |-> "starting"]
  /\ known' = known \cup {sub}
  /\ interrupted' = FALSE
  /\ accepted' = accepted \cup {sub}
  /\ UNCHANGED loaded

\* Mutant: whatever the Session answers, the row is removed.
Refused_Removed ==
  /\ queue' = Without(item.id)
  /\ Unlock

\* start: after a refusal or an error the row stays.
Refused == Unlock /\ UNCHANGED queue

\* start: the Session takes startIfIdle, unless it was closed during the reads.
SubmitQueued ==
  /\ at = "submitting"
  /\ LET open == loaded /\ thread = resumes IN
     \/ /\ open /\ ~Knows(item.sub) /\ turn = NoTurn
        /\ StartTurn(item.sub)
        /\ Continue("started")
        /\ UNCHANGED <<queue, parked>>
     \/ /\ ~open \/ Knows(item.sub) \/ turn # NoTurn
        /\ Refused
        /\ parked' = IF open /\ Knows(item.sub) THEN "conflict" ELSE parked
        /\ UNCHANGED <<sessionVars, accepted>>
  /\ UNCHANGED <<nextId, archived, deleted, direct, unseen, sent, fileVars,
                 boundVars, inserted, cancelled>>

\* start: the answer "started" removes the row.
RemoveStarted ==
  /\ at = "started"
  /\ queue' = Without(item.id)
  /\ Unlock
  /\ UNCHANGED <<nextId, archived, deleted, direct, unseen, sent, sessionVars,
                 fileVars, boundVars, historyVars>>

-----------------------------------------------------------------------------
\* The Session.

\* A direct input reaches the Session, which the handler has resumed, or fails
\* since the session is gone.
SubmitDirect ==
  /\ direct # "none" /\ (loaded \/ deleted)
  /\ IF loaded /\ ~Knows(direct) /\ turn = NoTurn
     THEN StartTurn(direct)
     ELSE UNCHANGED <<sessionVars, accepted>>
  /\ direct' = "none"
  /\ UNCHANGED <<tableVars, archived, deleted, lockVars, unseen, sent,
                 fileVars, boundVars, inserted, cancelled, parked>>

\* An append writes what failed before it, too; one that rejects leaves its
\* record in the buffer, and one that is refused leaves nothing.
AppendRecord(r, flushed) ==
  /\ rollout' = rollout \o Append(buffer, r)
  /\ buffer' = <<>>
  /\ synced' = IF flushed THEN Len(rollout') ELSE synced
AppendFails(r) ==
  /\ SavesFail
  /\ buffer' \in {buffer, Append(buffer, r)}
  /\ UNCHANGED <<rollout, synced>>

\* A Turn whose start cannot be saved is going to fail.
TurnBegins ==
  /\ turn.stage = "starting"
  /\ \/ /\ AppendRecord(Started(turn.sub), FALSE)
        /\ turn' = [turn EXCEPT !.stage = "running"]
     \/ /\ AppendFails(Started(turn.sub))
        /\ turn' = [turn EXCEPT !.stage = "failing"]
  /\ UNCHANGED <<tableVars, archived, deleted, lockVars, direct, unseen, sent,
                 loaded, known, interrupted, boundVars, historyVars>>

\* How a Turn can end: it finishes, completed or failed, or is interrupted,
\* before it has begun, too.
Causes == IF turn.stage = "failing" THEN {"finished"}
          ELSE {"finished", "interrupted"}

\* #releaseTurn, after the record of the end and the flush, or their failure:
\* the Session is idle, which wakes the queue unless the Turn was interrupted
\* (QueuedItemService.install).
TurnEnds ==
  /\ turn # NoTurn
  /\ \E cause \in Causes :
       /\ \/ \E flushed \in {TRUE, ~SavesFail} :
               AppendRecord(Ended(cause), flushed)
          \/ AppendFails(Ended(cause))
       /\ turn' = NoTurn
       /\ interrupted' = (cause = "interrupted")
       /\ IF cause = "interrupted" THEN UNCHANGED tail ELSE Enqueue(WakeJob)
       /\ UNCHANGED <<tableVars, archived, deleted, at, item, thread, direct,
                      unseen, sent, loaded, known, boundVars, historyVars>>

\* An idle Session is closed; its shutdown drains the writer.
CloseThread ==
  /\ loaded /\ turn = NoTurn /\ resumes < MaxResumes
  /\ loaded' = FALSE
  /\ rollout' = rollout \o buffer /\ buffer' = <<>> /\ synced' = Len(rollout')
  /\ UNCHANGED <<tableVars, archived, deleted, lockVars, direct, unseen, sent,
                 turn, known, interrupted, boundVars, historyVars>>

\* It is resumed from its rollout, and install wakes its queue.
ResumeThread ==
  /\ ~loaded /\ ~deleted /\ resumes < MaxResumes
  /\ resumes' = resumes + 1
  /\ loaded' = TRUE
  /\ known' = StartedIn(rollout)
  /\ interrupted' = InterruptedIn(rollout)
  /\ IF interrupted' THEN UNCHANGED tail ELSE Enqueue(WakeJob)
  /\ UNCHANGED <<tableVars, archived, deleted, at, item, thread, direct,
                 unseen, sent, turn, fileVars, crashes, historyVars>>

\* The process dies.  The table survives, and what was flushed of the rollout.
Crash ==
  /\ crashes < MaxCrashes
  /\ crashes' = crashes + 1
  /\ \E n \in synced .. Len(rollout) : rollout' = SubSeq(rollout, 1, n)
  /\ buffer' = <<>> /\ synced' = Len(rollout')
  /\ tail' = <<>> /\ Free
  /\ direct' = "none" /\ loaded' = FALSE /\ turn' = NoTurn
  /\ parked' = "no"
  /\ UNCHANGED <<tableVars, archived, deleted, unseen, sent, known,
                 interrupted, resumes, inserted, accepted, cancelled>>

DispatchStep == \/ Wake \/ StartQueuedInput \/ CheckArchived \/ Reconcile
                \/ SubmitQueued \/ RemoveStarted
Locked == QueueInput \/ EditQueue \/ Archive \/ DeleteSession \/ DispatchStep
SessionStep == SubmitDirect \/ TurnBegins \/ TurnEnds

Next ==
  \/ \E c \in Requests : CallLocked(c) \/ CallDirect(c) \/ CallExternal(c)
  \/ PollExternalChanges \/ Locked \/ SessionStep
  \/ CloseThread \/ ResumeThread \/ Crash

Spec == Init /\ [][Next]_vars
-----------------------------------------------------------------------------
\* Properties.
\* A Turn starts from the queue only with a row that still is in the table as
\* it was read, of a session that is not archived, and when the queue was
\* woken only with the first row, whatever edits, cancellations and archive
\* transitions arrive during the two reads before (start and withLock).
StartsWhatIsQueued ==
  [][(at' = "started" /\ at # "started") =>
       /\ item \in Range(queue) /\ ~archived /\ ~deleted
       /\ tail[1].op = "wake" => item = Head(queue)]_vars

\* No submission starts twice: retries of queueInput after the row is gone,
\* a row left behind by a crash, direct and queued copies of one input, and a
\* start that failed to be saved and sits in the writer's buffer.
StartedOnce ==
  LET records == rollout \o buffer IN
  \A i, j \in DOMAIN records :
    records[i].type = "turn_started" /\ records[i] = records[j] => i = j

\* "Queue storage owns the input until the core accepts a Turn start"
\* (src/server/handlers.ts:1628): a row that is gone was cancelled, or a
\* Session has accepted its input.
QueueOwnsUntilAccepted ==
  deleted \/ \A row \in inserted :
    \/ row.id \in {r.id : r \in Range(queue)} \cup cancelled
    \/ row.sub \in accepted

\* A queue whose Session could take its first row is going to be woken, except
\* after a dispatch that was refused for a reason no event announces.
NoLostWakeup ==
  loaded /\ turn = NoTurn /\ ~interrupted /\ tail = <<>> /\ ~unseen
    /\ queue # <<>> => parked # "no"
=============================================================================
