# Yakitori in TLA+

Yakitori is a coding agent: a Node server keeps conversations ("Sessions",
stored as threads of JSONL rollouts), runs model Turns with tools in them, and
serves a desktop and a web front end. This directory holds TLA+ models of the
parts of it whose correctness depends on order, failure and concurrency, the
TLC configurations that check them on small instances, and TLAPS proofs of what
holds for every instance. Source paths below are relative to `src/` of the
repository; `PROJECT.json` maps every definition to the lines it stands for.

## 1. Inventory of the system

Everything runs in one Node process: interleaving happens at `await`s,
callbacks and microtasks, never inside a synchronous stretch of code. Several
processes may share one data directory (a desktop server and a CLI).

| component | state it keeps | operations | what is hard | what makes it correct |
|---|---|---|---|---|
| **Rollout writer** `core/jsonl-thread-store.ts` | per thread: file descriptor, retry buffer, `nextSeq`, `offset`/`needsRecovery` of the first record, a queue of operations | append, flush, shutdown, discard, resume | short and failing writes and fsyncs, reconciliation of an uncertain tail, crash, power loss | the file always parses; flushed records survive; nothing is lost, repeated or reordered |
| **Thread storage** (same file) | metadata files, rollout directories, lock files; staged threads, live writers, prepared forks | create, persist, resume, shut down, discard, fork, delete, collect garbage | several processes, probes that take the lock they probe, crash or failure between two files | one writer per rollout; a fork's base outlives it; an answered thread stays; no two callers wait for each other |
| **Session actor** `core/session.ts` | queue of commands, the active Turn, steering, history, `#contextMutationTail`, received messages | turn input, steer, resume, compact, interrupt, message, fail, fork, shutdown | tasks run beside the loop; records are saved asynchronously; saves fail; crashes | bracketed Turns, no lost input, at most once execution, quiescent forks, every command answered |
| **Thread manager** `core/thread-manager.ts`, `agent-thread.ts` | loaded Sessions, pending loads and closes | load, fork, close, shut down | concurrent load and close of one thread | one Session per thread |
| **Tool gate** `runtime/tool-execution-gate.ts` | queue of waiters, readers, writer | reserve, run, cancel, abort | listeners and drains that nest | exclusive tools run alone, in order; nobody waits for ever |
| **Tool dispatch** `runtime/tool-execution.ts`, `turn-loop.ts` | batches of calls, reservations, results | prepare, record start, reserve, ask, run, commit | overlapping batches, aborts, failures of each phase | results in call order, effects announced and recorded, an interrupted Turn settles |
| **Input queue** `server/queued-item-service.ts`, `input-queue.ts` | SQLite rows, a lock per session | queue, edit, reorder, cancel, start, wake, archive, delete | two reads between the check and the start, direct inputs and other processes outside the lock, crash | at most one start per input, no row lost, no lost wakeup |
| **Agent control and graph** `runtime/agent-control.ts`, `agent-runtime.ts`, `core/sqlite-agent-graph-store.ts` | tree of agents, task queues and workers, execution slots, updates and waiters, closing paths; edges in SQLite | spawn, message, follow up, wait, list, interrupt, delete, restore | admission from statuses read asynchronously, failed deliveries, deletion of a growing subtree, crash | no more children execute than allowed, each outcome is announced once, nobody sleeps over news, deletions are whole |
| **Goals** `runtime/goal-runtime.ts` | goal rows, continuations | set, account, continue, clear | a user Turn racing a continuation | one continuation at a time, budgets hold |
| **Server shell** `server/request-gate.ts`, `shutdown.ts`, `rpc/*`, `event-hub.ts` | connections, subscriptions, pending requests | dispatch, subscribe, answer, drain | reconnects, late answers, shutdown | events in order, no answer to a request that is gone |
| **Credentials** `server/chatgpt-credential-store.ts` | tokens of each account | read, refresh, rotate | two refreshes of one rotating token | a fresh token is never overwritten by a stale one |
| **External sessions** `server/external-session-service.ts` | external engines and their runs | start, send, stop | processes that die | a run ends once |
| **Permission gate**, **MCP connections**, **runtime lock**, **side chat**, **mates** | see `PROJECT.json` | | | |

How they meet: a handler of the server loads a Session through the thread
manager and sends it commands; the queue wakes on the Session's idle events and
submits through the same entry (`startIfIdle`); a Session runs its Turn loop,
which calls the model and dispatches tools through the gate; everything a Turn
does is recorded by the Session through the rollout writer; a Session is
rebuilt from its rollout, by a resume or after a crash. Context assembly, the
provider protocols, tools, attachments, previews, the projections for search
and usage, protocol validation and the front ends are sequential
transformations, SQL or I/O: `PROJECT.json` lists each with its reason.

`PROJECT.json` also lists the hazards of this code at the line where each
bites, with the properties that cover it.

## 2. Modules

```
model              for TLC           theorems
RolloutLog <=
  RolloutWriter                      RolloutWriter_proof,
                                     RolloutWriterSafety_proof
ToolOrder <=
  ToolGate                           ToolGate_proof
    ToolDispatch                     ToolDispatch_proof
Session            MCSession         Session_proof
QueueDispatch      MCQueueDispatch   QueueDispatch_proof
ThreadStorage      MCThreadStorage   ThreadStorage_proof
AgentControl       MCAgentControl    AgentControl_proof
```

`A <= B`: B implements A through `INSTANCE ... WITH` a refinement mapping; a
run checks it and a theorem proves it. ToolDispatch EXTENDS ToolGate and takes
its steps.

The models meet at their borders: RolloutWriter is the inside of one element of
ThreadStorage's `writers`; Session records through what RolloutWriter promises;
QueueDispatch and AgentControl keep of a Session only the records, submissions
and Turn state that they look at.

### RolloutWriter, RolloutLog

`RolloutWriter` is the live writer of one physical rollout. A record is
`[seq, gen]`, where `gen` tells the incarnations of the writer apart; its line
is `LineLen` units, the last one the newline, so that a write may stop anywhere
in it. The file is `lines` and a torn `tail`; `synced` is what survives a power
loss; `numbered`, `acked` and `promised` are history. `ops` is the promise
chain `writer.tail`, whose first operation drains the buffer (`WriteChunk`,
short writes, a failed write after any number of units, `Reconcile`) and then
syncs. `Discard`, `Crash`, `PowerLoss` and `Resume` (which repairs a torn tail)
end and begin incarnations. Left out: the `session_meta` line, metadata and
projection touches (their errors are swallowed). Assumed: a failed fsync keeps
the pages dirty, and a power loss keeps a prefix of the file.

`RolloutLog` is the promise: records accepted wait in a buffer, are committed
in order, and become durable; losing the writer keeps what was promised.

### Session

The submission loop with every command, the Turn from its start to its release
(start record with its inspect-and-retry path, initial input, steering, tool
results, completion, interruption with escalation, cleanup failure), context
mutations (`#withContextMutation`), agent messages, fork barriers, both
shutdowns, failing saves, crashes and reconstruction from the rollout. The
rollout is `log`, records numbered by `appendItems`, of which `disk` are
resolved and `synced` flushed: what RolloutWriter promises of the file. An
append that fails may keep its record in the writer's buffer or refuse it.
A script is a set of commands and a number of crashes; the callers of an
execution send the commands of one script, each once per process and in any
order; no submission is called "none", which stands for no Turn, "interruption"
or "tool_result", which name records of a Turn. Left out: inputs with a
thread provenance, checkpoints of the history, configuration, the event stream,
the capacity of the command queue.

### ToolGate, ToolOrder

The gate of one Turn with its waiters numbered in the order of their
reservations. `drain()` is a sequence of `Admit` steps while `draining`; the
listeners of an abort are called one by one (`listeners`), each of which may
drain; nothing else runs meanwhile (`Quiet`). `ToolOrder` is what the model
turn is promised: exclusive calls run alone, and no call starts after a later
one it conflicts with.

### ToolDispatch

A Turn's calls in batches (`startCalls`): each batch prepares its calls while
earlier ones still run, records their starts, reserves at the gate in order
(`previousSchedule`), launches, runs, and commits results in order
(`previousResults`). A call may be open, ask for permission, wait for a
readiness that never comes, or fail its preparation; start records and result
records may fail. It EXTENDS ToolGate and uses its actions. Left out: composed
tools, post-processing hooks, compaction beside a Turn.

### QueueDispatch

The rows of one session and the operations under `withLock` (`tail`, the
operation at its head, and where it is: `at`), each `await` during which
something else can happen being a step. Calls outside the lock: direct inputs,
other processes, the Session's own Turns. The Session is what the queue sees of
it: the active Turn, the submissions it knows, whether its last Turn was
interrupted, and its rollout of starts and ends with failing saves. `parked`
records why a dispatch left a row that no event will wake the queue for (a
conflict with a submission the Session knows, an archived session). Left out:
attachments, size limits, notifications, the close of the service.

### ThreadStorage

The store of each process over one directory. A thread exists when its metadata
file does (`index`); its rollout (`journal`) is reduced to the rollout it
continues. `lock` is the owner of each writer lock, `coordination` the owner of
`storage.lock`; both die with their owner, `lockFiles` (which the collector
reads) do not. Every caller is somewhere in one call (`call`, `at`), and one
step is what happens between two awaits that matter: claiming the lock, entering
the storage, writing the rollout, writing the metadata, opening the writer, each
step of the undoing and of the rollback, each probe of a lock, each directory
that the collector removes. File operations may fail, also after they took
effect, and a process may crash anywhere and open its store again. `held` is the
environment: the Session that shuts down or discards a thread got it from a
call that answered, and the thread manager of a process ends a thread once at a
time. A staged thread is discarded in three steps, the wait for `storage.lock`,
the removal and the release of its lock (`DiscardStaged`, `RemoveStaged`,
`ReleaseStaged`), the first two of which may fail: the lock is then released all
the same and, after a shutdown, the thread stays in `#staged` without one
(`KeepStaged`; the set `unlocked`), where a deletion of the same process may find
it and discard it again (`DiscardUnlocked`, `RemoveUnlocked`) while others may
lock the thread. A creation has a new id (`CreationsAssumption`,
`createSessionId`). `kept` is history. Left out: assets and ephemeral asset
owners, sidebar entries, renames, the projections (except that one may fail and
so undo a creation), corrupt metadata.

### AgentControl

The tree of agents of one conversation in one process. `op` is how far each call
is; `agents` is the registry, in which a path has one owner: a spawn or a
deletion that finds the path of its child with another one fails (`Taken`), and
a restore that does fails as a whole (`conflict`); `worker` is the phase of
`runTasks` of each child; `slot` is a path's
execution slot, which is taken (`deciding`) before the statuses are read and
granted (`held`) or refused when they have arrived; `seen` is what they were.
`updates`, `mailbox` and the state `waiting` of a call are the mailboxes and the
waiters. Of a child's Session the model keeps the lifecycle records of its
rollout (`life`: the start of a task's Turn, the start of one that nobody in the
tree asked for, an end, a failure outside of a Turn), the follow-ups it knows,
and whether its Turn accepts steering. A failure that its status holds already
is not recorded again (`FailTask`, `#recordAgentFailure`). Each call of the
adapter may fail (`Fails`), also after it took effect where it has an effect. A
follow-up that repeats one under way shares its receipt (`JoinEnds`), so it fails
as soon as that does. A deletion goes through `messages`, `spawns`, `runs` and
`removing`, the four waits of `closeAgent` and `discardStoredSubtree`; it
registers its thread first if it has to (`discardThread`), takes the threads that
are the child or strictly under its path, remembers in `listed` which these were,
and unregisters those and no others. Where another deletion has registered a
child of one of them meanwhile, `unregisterAgent` throws and the deletion fails
with the rest still registered (`Blocked`). The handler serialises the deletions
of one thread; one that finds its thread gone by then only clears the graph
(`sweeping`). After a crash `Restore` reconciles rollouts and edges,
reads every child's last outcome, and delivers it again. A script is a set of
calls, a number of failures and a number of crashes. Left out: the interrupt of
one child, deleting the root, the depth limit and model targets, the token
budget, lists, `knownDeliveryIds` (the parent's Session deduplicates by the same
id), replayed starts in `runChild`, the reload of a tree after an eviction.

## 3. Runs

| run | instance | what it shows |
|---|---|---|
| `rollout_writer` | 3 records, 2 incarnations, 2 queued operations, lines of 3 units | the file always parses, promised and acknowledged records stay, rejected ones are kept for the next drain, a shutdown settles, the refinement of RolloutLog |
| `session_turns` | four scripts (steering and a retry, resumption and compaction, closing, inputs and messages retried across one crash), cleanup failures, fairness | bracketed Turns, consumed steering, history equal to the rollout, continuation of the last Turn only, an input executed once and a message recorded once, nothing recorded after settling, every command answered, interrupts settle |
| `session_saves` | two scripts, failing saves | what is acknowledged is saved, the status survives a reload, forks see no half-done Turn |
| `session_compact_steering`, `session_reload_receipt` | one script each | findings 1 and 2 |
| `gate_order` | 3 reservations of either mode, 2 signals, fairness | exclusion, order, no lost wakeup, every ready call is served |
| `dispatch_drain` | 3 calls in all divisions into batches, failing start records, abort | results in call order, effects recorded, nothing of a Turn outlives it |
| `dispatch_settle` | 2 calls, all preparations and failures, fairness | an interrupted Turn settles |
| `dispatch_abort` | 2 calls | finding 3 |
| `queue_dispatch` | six scripts of at most 4 calls, room for 2 rows, failing saves, 1 crash, 1 resume | no double start, rows are kept until accepted or cancelled, what starts is still queued and the session is not archived, no lost wakeup |
| `thread_storage` | 2 processes, 3 clients, 3 threads, four scripts (staging, creating a child, forking a live thread, forking a fork), 2 failures, 1 crash, fairness (624,184 states) | one writer per rollout and only under its lock, no history that is needed goes missing, an answered thread stays until it is deleted, every call returns |
| `agent_control` | 4 children in two generations, one of which takes the name of another, 2 slots, nine scripts with up to 3 failures and 2 crashes, fairness (348,935 states) | the execution limit, one announcement per outcome, no waiter asleep over news, whole deletions, every call returns and every outcome is heard |

Why the bounds are enough. Three records let an uncertain one stand before and
behind certain ones; a line of three units has a torn state of more than one
length; two incarnations meet one crash or power loss, and repair and reconcile
only look at the last line. The scripts of Session and QueueDispatch hold every
command in company with those it races; every pair of commands of the hazard
list shares a script. Three calls are the least in which an exclusive call has
neighbours on both sides and a batch can fail between two others. Two signals
let one abort reach some waiters and not others. Two rows have a head and a
successor, and the third input finds the queue full. Two processes, one of them
with two clients, have every pair of storage calls once across processes and
once beside each other in one store; three threads make a fork of a fork, the
shortest lineage in which retaining only direct bases loses something. Three
children compete for two slots and contain a grandchild, so that a deletion has
an order; the fourth takes the name of the first, so that a path changes hands.
Two failures hit an operation and its cleanup, or an attempt and its retry; in
AgentControl a third leaves the orphan of a spawn whose cleanup failed for the next spawn. Two crashes around a prompt
let two restores read one Turn of a person, open and ended.

Deadlock is not checked: each of these systems really stops, when its writer or
Session is closed for good, its calls are over, or all its commands are sent.

**Fairness.** RolloutWriter: the event loop runs the queued operation (weak
fairness of `OpStep`), and a device that keeps alternating short writes with
failures is excluded (strong fairness of a complete write), because
`#writePending` counts attempts per call and nothing in the code ends such a
run. Session: weak fairness of what the event loop runs (loop, mutations,
settlement, escalation); a task is assumed to stop only once it is aborted, as
nothing bounds a Turn nobody interrupts. ToolGate: reservations are run or
cancelled by their owner, but a ready one need not be cancelled. ToolDispatch:
internal steps always; permissions, readiness and tools are assumed to end only
in a Turn that was stopped, so `InterruptedTurnSettles` is about the abort.
ThreadStorage: operations on files and locks come to an end; `storage.lock` is
waited for, and an owner that dies gives it up. AgentControl: the adapter
answers, Turns end (Session's own liveness), and the root's model keeps calling
`wait` or `list`, which is the only thing that retries a worker that failed;
spawns, messages and deletions need not be made. `EverythingSettles` then says
that again and again no call is under way, no task is queued, and the parent of
every stored and registered child whose path is open has recorded an outcome
not older than the child's last failure and the last start of a task: a delivery
that fails is made good by a later wait, or after a crash by the restore.

## 4. Findings

1. `session_compact_steering`: during a manual compaction the Session answers
   "steered" to a follow-up that no step then consumes (`runtime/turn-loop.ts:1001`);
   `docs/agent-messaging.md:16-18` says the current Turn consumes it. A Turn
   whose prompt the hook declines returns at once too
   (`runtime/turn-loop.ts:1290`), with the steering that was accepted while the
   hook ran: TLC finds the same violation for the script of `Prompt("p")` and
   `Followup("a", 1)`. The passing runs check `SteeringConsumed` without
   follow-ups to either.
2. `session_reload_receipt`: after a crash a retried agent message that is in
   the file, but was never flushed, is acknowledged without a flush
   (`core/session.ts:1736`; `docs/agent-messaging.md:36-39`), so a power loss
   may still drop it.
3. `dispatch_abort`: the abort listener of the first waiter drains the queue
   and admits the next ready waiter, whose tool then starts after the abort
   (`runtime/tool-execution-gate.ts:102`; comment at `core/session.ts:1464`).

Three things that the code does and no sentence of the repository denies are in
the models without a run of their own:

* A shutdown whose discard of a staged thread fails releases the lock and keeps
  the thread staged and accepting (`core/jsonl-thread-store.ts:473-482,
  1173-1176`). `WritersHoldLocks` is therefore about threads that are written or
  materialized or that have a Session; it and `HistoryReachable` show that the
  thread left behind never becomes one of these without a lock, unless a goal is
  set on it (section 6).
* A restore that reads a child while a Turn for a person runs in it announces
  that Turn as interrupted (`core/session.ts:1950`), and a restore after a later
  crash announces it again by its end. `AnnouncedOnce` allows this second
  announcement and no other; the script `Prompting` reaches it.
  `docs/agent-messaging.md:48-52` promises stable ids and denies a guarantee of
  exactly one consumption.
* Two failures in a row with one message are one record
  (`core/session.ts:1709-1715`), so the parent's Session takes the second
  outcome for the first and drops it (line 1736). `EverythingSettles` asks that
  every record is heard of, not every task.

## 5. Proofs

Theorems hold for every value of the constants, under the named `ASSUME`s of
the modules and the hypotheses named below. Every invariant here was first
checked by TLC on the instances of the runs.

**RolloutWriter** (`RolloutWriter_proof`, `RolloutWriterSafety_proof`).
`TypeCorrect` needs two facts beyond types: sequence numbers count the numbered
records (`NumberingInv`), and a queued shutdown is the last operation of an
open writer that accepts nothing more (`QueueInv`). The safety theorems follow
from `WriterInv`, which adds

* `FileInv`: the file is a prefix of the numbered records, and its torn line a
  proper beginning of the next one;
* `BufferInv`: the retry buffer continues the file; only when its head's last
  write failed (`needsRecovery`) may that head be in the file already;
* `SyncInv`: an operation that syncs has drained;
* `DurabilityInv`: what is promised is synced, what is acknowledged is in the
  file.

Neither `AlwaysReadable` nor `PromisedDurable` is inductive: whether the next
write corrupts the file depends on what the buffer and the offset say of the
tail. The lemmas on chunks of lines show that a torn line determines how much
of a record it holds, which is what reconciling relies on. From it:
`RolloutStaysReadable`, `PromiseKept`, `AcknowledgedIsRead`, `RejectedIsRetried`.

`LogImplemented` proves the refinement of RolloutLog. Under the invariant the
log and the buffer of RolloutLog are the first records of `numbered` and the
rest (`BarInv`), and a writer that is gone leaves in the log the last line that
only lacks its newline. So a step that numbers nothing is a matter of one
number, the length of the log: it stays (a stutter), it grows by one (`Commit`,
whichever of a write, a failing write, a reconciliation or a failing
reconciliation completed the line), or the writer goes and it shrinks no
further than to what was promised (`Lose`). A repair changes no log: what it
completes a reader already saw.

**ToolGate** (`ToolGate_proof`). `GateInv` joins the types with: `draining`
says exactly that the head can be admitted; the queue holds exactly the waiting
reservations in increasing order; the counters count the holders; nothing that
conflicts with a waiter has been let past it (`OvertakeInv`). It gives
`TypeCorrect`, `MutualExclusion`, `NoWakeupIsLost`, and, with a lemma that every
step of the gate is a step or a stutter of `ToolOrder`, `OrderImplemented`.

**ToolDispatch** (`ToolDispatch_proof`). `GateServesTurn`: a Turn uses the gate
only in the ways its specification allows, so that every theorem about the gate
holds in a Turn, the order of `ToolOrder` included. The invariant adds to
`GateInv` how the batches divide the calls (`BatchInv`), that a batch is
prepared only when every earlier one has its reservations (`ScheduleInv`), what
a call may be doing at each phase of its batch (`TaskInv`, `PhaseInv`), which
records its batch can have written (`LogInv`) and must have (`CommitInv`), when
results may be out of order (`AheadInv`, `OrderInv`), and what is left when the
Turn is over (`OverInv`). `ResultsInCallOrder` is not inductive, because the
promise `previousResults` looks one batch back only: `AheadInv` carries the
failed batch, over which a later one may have gone ahead, from batch to batch.
From it `ResultsInCallOrderHolds`, `NothingOutlivesTurnHolds` and, if appending
a result does not fail (`"result" \notin Failures`), `EffectsRecordedHolds`; an
append that fails fails the Turn, and what the tool did is then not on record.

**Session** (`Session_proof`), for any scripts, failing saves and cleanups and,
unless a theorem says otherwise, any number of crashes. `IInv` ties what the
actor is doing to the rollout: whose closures are on the mutation queue, and
that a Turn that is being finished counts exactly those (`QueueInv`); what the
loop has waited for (`LoopInv`); which records each place of the Turn has handed
to the writer, and that no other Turn has written since its start (`TurnInv`);
and, record by record, where a record may stand and that the submission and
message ids it carries are known to the Session (`LogInv`), which is what a
rebuilt Session relies on. From it `TurnsAreBracketedHolds` and
`MessageOnceHolds` for the state, `ForkSeesQuiescenceHolds` and
`NothingAfterSettlingHolds` for steps. Six properties need more:

* `ExecutedOnceHolds` (`OnceInv`): an input of an agent is executed at most once
  in `log` and, if it was, it is in `submitted` or belongs to the closure that
  has just appended it; what waits in `steering` and `taken` has ids that differ
  from each other, from those in `submitted` and from the one being recorded;
  and nobody steered with the id of the active Turn before it.
* `SteeringConsumedHolds` (`ConsumedInv`) is about Turns that recorded their
  input (`Recorder`): a compaction and a Turn whose prompt was declined lose
  steering, which is finding 1.
* `AcknowledgedMessageSavedHolds` (`Acknowledged`) is about executions without
  a crash: after one, a message that was only in the file counts as received,
  which is finding 2. It says which messages are behind the last flush, and
  whose message the loop is waiting for.
* `StatusSurvivesReloadHolds` (`PathInv`, `StatusInv`): unless a save has failed
  in this process, a Turn goes straight through its places (its start is never
  looked for again and its failure never saved), and between Turns the status is
  what the last lifecycle record says. While a Turn runs nothing is claimed.
* `HistoryFollowsRolloutHolds` (`HistoryInv`): one closure runs at a time, and a
  tool result or steering is in the rollout before it is in the history. So the
  two agree at every moment up to the one record of the running closure
  (`Added`), as long as saves succeed; that a message which is accepted is
  recorded excludes a second append of it. `RecordsOf` is a recursive function,
  and what it makes of a longer rollout is proved with the smallest place where
  it fails (`SmallestNat`), which needs no induction over an operator.
* `ResumesLastTurnHolds` (`ResumeInv`): a Turn is released when its end is in the
  file (`EndInv`), so the read of a continuation, made when no Turn is active,
  sees the end that came last; and between the read and the continuation's
  record of its start no other Turn ends (`Prepared`). The hypotheses:
  `OwnResumptions`, that no other command has the id of a resumption
  (`createRequestId`, `gui/store/app-store.ts:2803-2817`), and `[]~saveFailed`.
  The second is needed: the read looks at the files alone
  (`core/jsonl-thread-store.ts:685`), so it misses the end of a Turn whose save
  was rejected. TLC finds the property violated when saves fail and the script
  has two inputs, an interrupt and a resumption of the first: the end of the
  second Turn is numbered and its save rejected, and the rollout as it is later
  written has that end before the continuation. The run has cleanup
  failures only.

**QueueDispatch** (`QueueDispatch_proof`), for any scripts, capacity, failing
saves, resumptions and crashes. `RowInv` ties the table to the rows that were
inserted; `DispatchInv` says what the holder of the lock may rely on at each of
its awaits (its row is still where it was, of a session not deleted and, once
looked at, not archived); `StartInv` that a loaded Session knows what it handed
to its writer, and hands over no start twice; `WakeInv` where the wake is that
an idle Session with rows waits for: behind the running operation, unless that
will look at the queue itself, or with a reason in `parked`.
From it `QueueOwnsUntilAcceptedHolds`, `StartedOnceHolds`, `NoLostWakeupHolds`
and, as an action property, `StartsWhatIsQueuedHolds`. `NoLostWakeup` alone
says nothing of a wake that is running now and of a Session resumed meanwhile.

**ThreadStorage** (`ThreadStorage_proof`), for any processes, clients, threads
and scripts. A caller in the middle of a call answers for the lock of its
thread in one of three ways: it claimed it for itself, it owns it in the name
of its process, or it materializes a staged thread whose lock the process has.
`LockInv` gives the owner at every place a caller can be, `SoleInv` that no two
callers of a process answer for one thread in the same way, `PhaseInv` and
`StagedInv` what the store's maps say meanwhile, `PlaceInv` which operations
come where, `KeptInv` that what a rollback removes was never answered. From it
`WritersHoldLocksHolds` and `KeptThreadsLastHolds`, under `~ GoalsRaceCloses`:
without it `WritersHoldLocks` is false (section 6). The failing discard is part
of the steps the theorems cover; a thread it leaves without a lock is in neither
of the three ways anybody's.

`HistoryReachableHolds` is about paths of rollouts of any length, and no
induction along a path is at hand. The invariant has a set in its place:
`Avoids(r, X)` says that some set of rollouts holds `r`, is closed under what
they continue, is wholly on disk and has nothing of `X`; such sets are closed
under intersection (`AvoidsBoth`), and `Lineage` is the least of them
(`LineageIsLeast`). `ReachInv` then says, of everything that is needed (what is
stored, what a prepared fork will continue, what is about to be stored): it can
be read; it can be read without any thread that a caller may still undo or roll
back; and, while a collection removes, without anything on its list. Around it
`CoordInv` (who writes or removes has `storage.lock`), `AbsentInv` (a staged
thread, and one that is about to be written, has no rollout yet, so nothing
continues it), `HeldInv`, and `OriginInv`: a staged thread that lost its lock has
no rollout and nobody will create another one under its id, so a late second
discard removes nothing (`CreationsAssumption`). Its assumptions: stored threads can be read at
first (`StoredAssumption`); `~ GoalsRaceCloses`, as above; and the hypothesis
`[]ForksAnswered`, that nobody prepares a fork of a thread of which the same
process has opened the writer but not answered the creation. A snapshot of such
a thread would pass the store's own test, and the rollback could still remove
it. `forkThread` (`core/thread-manager.ts:305-339`), the only caller of
`prepareFork`, has resumed the source and prepares the fork inside the fork
barrier of its Session. The scripts of the run satisfy the hypothesis: TLC finds
`HInv` and `ForksAnswered` true in every state of that instance.

**AgentControl** (`AgentControl_proof`), for any tree, limit and scripts.
`BaseInv` (types, the phases of each type of call, slots counted, one
registered agent to a path, nothing at work before the restore) is inductive
with `NoLostWakeup`, hence `NoLostWakeupHolds`: every step that brings an agent
news, closes its path or unregisters it also wakes its waiters.
`ExecutionLimitHolds` needs more: workers that execute hold the slots of
different paths (`HeldInv`), and nobody gives such a slot away meanwhile. The
latter is not for the slot's sake but for the task's: the worker's task is
still the first of its queue, or a deletion has dropped it (`TaskInv`), and
then the path is closed and no message, spawn or worker can come to it
(`CloseInv`). Counting is by the library's theorems on cardinality and
injections. A deletion unregisters what it listed, so it also takes that nothing
was registered below since (`DeleteInv`, `AllUnregistered`). The hypothesis
`[]DeletionsApart` excludes that a deletion runs while another one is closing the
same subtree or one around it, or finds that such a one has removed its thread,
because the one that ends first reopens paths the other relies on; the handler serialises the
deletions of one thread only, so for nested deletions the limit rests on the
run (script `Nesting`).

`AnnouncedOnceHolds` is about names: an outcome is named by the place of a record
in the child's rollout, first in `found` or in the queue and then in the parent's
Session. Records are only appended while the child is there, so it suffices that
no name is the place of a task's start that has an end or may still get one
(`RecordInv`, `NoteInv`); two names then have a start or a failure between them
(`NamedApart`), but for the start and the end of one direct Turn. A failure that
is not recorded again keeps the old name and is the same outcome. That takes four
more facts: an open Turn is the last record and an end comes next to its start
(`Recorded`); before the tree is restored only direct Turns are open
(`PromptInv`), so a restore never takes the start of a task that still runs for
its outcome; a worker past the check of its task still has a first task to name,
unless its path is closed, and then it delivers nothing (`HeadInv`); and a child
that is created is new, nothing of it in any store, queue or Session
(`FreshInv`). Most steps record and create nothing and are covered by one lemma
(`SteadyKept`). The hypotheses: `OwnThreads`, that every spawn has a thread id of
its own (`createSessionId`, `runtime/agent-runtime.ts:57`), and
`[]DeletionsApart`, as above. Restores are not restricted, whatever runs while
they read.

`DeletionsAreWholeHolds` is about what the graph has below a thread
(`GraphInv`). Edges lead down from the root (`EdgeInv`), so all that has an edge
below a closed thread is among its descendants, and what is removed next, the
deepest, has no edge below it. Nobody spawns under a thread that is not there
(`SpawnInv`), and a registered agent is there or its path is closed (`LiveInv`).
Once the deletion has waited for the spawns, messages and workers under its path
(`CloseInv`), nothing can therefore come to the subtree any more, and what it
leaves (`GoneInv`) is at most the rollout of a spawn that failed to link its
child and to discard it (`LeftInv`). A restore reads from the root down what is
there (`FoundInv`), so no thread is left without its parent (`WholeInv`). The
hypotheses are `OwnThreads` and `[]DeletionsApart`: a deletion that removes the
thread of another one opens the path that the other has closed and still relies
on. For nested deletions the property rests on the run (`Nesting`).

The proof attempt corrected the model twice. A message whose recipient was
removed while a deletion had it registered again is refused, as
`requireThread` does (`LoadRecipient`). And a deletion of an orphan that a failed
spawn has left may fail in its turn and leave it registered with its path closed:
`DeletionsAreWhole` now allows the agent of such a deletion.

Every safety invariant of a passing run has a theorem. Only model-checked:
liveness under fairness (`ShutdownSettles`, the settling properties of the other
runs), which is out of this prover's reach.

## 6. Not modelled

* **Thread manager.** A registry of loaded Sessions; its calls are steps of the
  environment in ThreadStorage (`held`), Session and AgentControl. What is its
  own is an order of three checks around `#installStored`; the hazard at
  `core/thread-manager.ts:505` names the window they leave.
* **Goal on a thread that is being closed.** `persistThread` for a goal takes no
  lock (`server/handlers.ts:1301`). With `GoalsRaceCloses = TRUE` ThreadStorage
  shows that it may materialize a staged thread while `shutdownThread` discards
  it, or one that a shutdown could not discard and that has no lock any more:
  `WritersHoldLocks` and `HistoryReachable` then fail. The repository states
  nothing about it, so the run keeps the two apart and the hazard is listed.
* **Devices and kernels.** A device that alternates short writes with failures
  keeps a drain running for ever (`core/jsonl-thread-store.ts:1379`); a kernel
  that drops dirty pages on a failed fsync breaks the retry at line 1408. Both
  are excluded by assumption.
* **What a queue row owns.** A row is deleted once the Session answers
  `started`, before `turn_started` is recorded (`server/queued-item-service.ts:216`);
  a crash there loses the input from both. `QueueOwnsUntilAccepted` checks the
  ownership as the code states it.
* **AgentControl's corners.** An interrupt of a child whose thread is still being
  loaded does nothing (`runtime/agent-control.ts:527`). When both the edge of a
  new child and its discard fail, the orphan's path may be taken again, and the
  next restore finds two threads on one path and fails for every call
  (`runtime/agent-runtime.ts:119`): the model has this (`conflict`, script
  `Renaming`), after which no call is served; the repository says nothing of it.
* **The command queue's capacity** (512, `core/session.ts:172`) is out of reach
  of small instances; **a missing assistant item** makes `answerText` throw
  before the terminal record (`core/session.ts:999`), and items are data the
  model leaves out.
* Prompt assembly, provider protocols, patching and process tools, attachments
  and previews, navigation and search and usage projections, MCP, credentials,
  mates, external sessions, the RPC and HTTP shell and the front ends are
  sequential transformations, SQL or I/O; `PROJECT.json` gives each its reason.
  They are most of the repository's lines.

## 7. Plan

Done: RolloutLog, RolloutWriter, ToolOrder, ToolGate, ToolDispatch, Session,
QueueDispatch, ThreadStorage and AgentControl, all with proofs. Next:

1. `ExecutionLimit` and `DeletionsAreWhole` of AgentControl without
   `DeletionsApart`, which needs paths whose closing is counted.
2. Thread messages across two Sessions, and the goal runtime over an abstract
   Session, as models.
