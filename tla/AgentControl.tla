---------------------------- MODULE AgentControl -----------------------------
(***************************************************************************)
(* The agents of one conversation (src/runtime/agent-control.ts) and the   *)
(* adapter that runs them as threads (agent-runtime.ts).                   *)
(*                                                                         *)
(* An agent spawns children, sends them messages and follow-up tasks, and  *)
(* waits for them.  Each child has a queue of tasks and, while it has      *)
(* something to do, one worker: it reserves one of the execution slots of  *)
(* the tree, starts a Turn in the child's Session, waits for its end and   *)
(* delivers the outcome to the parent's Session under an id made of the    *)
(* child's last terminal record.  A failed worker leaves its task in the   *)
(* queue; the next wait, list or start retries it.                         *)
(*                                                                         *)
(* Slots, queues and wake-ups live in memory.  After a crash the first     *)
(* call restores the tree from the rollouts and the edges of the graph     *)
(* store and delivers the last outcome of every child again.  Deleting a   *)
(* thread closes its path, drains what is in flight under it and removes   *)
(* the subtree, deepest thread first.                                      *)
(*                                                                         *)
(* Of a Session the model keeps the lifecycle records of its rollout, the  *)
(* follow-ups it knows and the state of its Turn (see Session.tla); the    *)
(* texts, model targets, depth limit, statuses in lists and forked context *)
(* are left out, as are a second load of a tree after an eviction and the  *)
(* interrupt of one child.                                                 *)
(***************************************************************************)
EXTENDS Naturals, Sequences, FiniteSets, SequencesExt

CONSTANTS
  Root,         \* the root agent
  Children,     \* the threads that spawns may create
  Parent,       \* [Children -> Agents]
  Path,         \* [Children -> the task names from the root]
  Limit,        \* children that may execute (maxConcurrentAgents - 1)
  Scripts       \* bound: what is called in one execution, and how often the
                \* adapter fails and the process crashes in it

Agents == {Root} \union Children
PathOf(a) == IF a = Root THEN <<>> ELSE Path[a]
Paths == {Path[c] : c \in Children}
\* A call: what it is, the agent that makes it, the agent it is about, and
\* the id of the message, with a number that tells a retry from the original.
Calls == UNION {script.calls : script \in Scripts}

ASSUME TreeAssumption ==
  /\ Root \notin Children /\ IsFiniteSet(Children)
  /\ \A c \in Children :
       /\ Parent[c] \in Agents
       /\ Path[c] \in Seq(Range(Path[c])) /\ Path[c] # <<>>
       /\ Front(Path[c]) = PathOf(Parent[c])
ASSUME CallsAssumption ==
  \A x \in Calls :
    /\ x.type \in {"spawn", "followup", "message", "wait", "delete", "prompt"}
    /\ x.by \in Agents /\ x.to \in Agents
    /\ x.type \in {"spawn", "followup", "delete", "prompt"} => x.to # Root
    /\ x.type = "spawn" => Parent[x.to] = x.by
ASSUME BoundsAssumption ==
  /\ Limit \in Nat
  /\ \A script \in Scripts : script.crashes \in Nat /\ script.failures \in Nat

VARIABLES
  exists,     \* children whose rollout exists
  edges,      \* children with an edge from their parent in the graph store
  life,       \* [Children -> lifecycle records of the rollout]
  known,      \* [Children -> follow-ups recorded in the rollout]
  notes,      \* outcomes recorded in the Sessions of the parents
  turn,       \* [Children -> state of the Session's active Turn]
  steered     \* [Children -> follow-ups accepted by it, not yet recorded]
VARIABLES
  ready,      \* restorePromise: "no", "linking", "reading", "yes"
  found,      \* [Children -> the id of the last outcome restored, or 0]
  agents,     \* agents: the registered ones
  slot,       \* executionSlots: [Paths -> {"none", "deciding", "held"}]
  seen,       \* [Paths -> children that ran when the slot was asked for]
  tasks,      \* tasks: [Children -> Seq(Task)]
  worker,     \* runs: [Children -> phase of runTasks]
  updates,    \* updates: [Agents -> children whose outcome is unread]
  mailbox,    \* mailboxUpdates
  closing,    \* closingPaths
  doomed,     \* pendingDeletions
  listed,     \* [Calls -> the subtree that a deletion is about to unregister]
  op,         \* [Calls -> how far the call is]
  failures, crashes  \* history

storeVars == <<exists, edges, life, known, notes>>
turnVars == <<turn, steered>>
restoreVars == <<ready, found>>
slotVars == <<slot, seen>>
workVars == <<tasks, worker>>
mailVars == <<updates, mailbox>>
closeVars == <<closing, doomed, listed>>
history == <<failures, crashes>>
vars == <<storeVars, turnVars, restoreVars, agents, slotVars, workVars,
          mailVars, closeVars, op, history>>

-----------------------------------------------------------------------------
\* Trees, paths and calls in progress.

Under(a, path) == IsPrefix(path, PathOf(a))
Closing(path) == \E p \in closing : IsPrefix(p, path)
Live(a) == a \in agents /\ ~Closing(PathOf(a))
\* A path has one owner.
Taken(c) == \E a \in agents \ {Root, c} : Path[a] = Path[c]
Above[c \in Children] ==
  IF Parent[c] = Root THEN {Root} ELSE {Parent[c]} \union Above[Parent[c]]

Ended == {"unsent", "done", "failed", "past"}
Running(x) == op[x] \notin Ended
Spawning(path) ==
  {x \in Calls : x.type = "spawn" /\ Running(x) /\ Path[x.to] = path}
Sending(path) ==
  {x \in Calls : /\ x.type \in {"followup", "message"} /\ Running(x)
                 /\ op[x] # "joined"
                 /\ (Under(x.by, path) \/ Under(x.to, path))}
PendingFollowups(path) ==
  {x \in Calls : /\ x.type = "followup" /\ Path[x.to] = path
                 /\ op[x] \in {"steering", "reserving", "starting"}}

\* The waiters of some agents wake.
Woken(ops, some) ==
  [x \in Calls |->
     IF ops[x] = "waiting" /\ x.by \in some THEN "woken" ELSE ops[x]]

\* The lifecycle records: the start of a task's Turn or of one that nobody in
\* the tree asked for, the end of a Turn, and a failure outside of a Turn.
Starts == {"started", "prompted"}

Task(id) == [id |-> id, settled |-> FALSE, note |-> 0]

NoneFound == [c \in Children |-> 0]

\* Empty stores and a fresh process.
Init ==
  /\ exists = {} /\ edges = {} /\ notes = {}
  /\ life = [c \in Children |-> <<>>] /\ known = [c \in Children |-> {}]
  /\ op = [x \in Calls |-> "unsent"]
  /\ failures = 0 /\ crashes = 0
  /\ ready = "no" /\ found = NoneFound
  /\ agents = {Root}
  /\ slot = [p \in Paths |-> "none"] /\ seen = [p \in Paths |-> {}]
  /\ tasks = [c \in Children |-> <<>>]
  /\ worker = [c \in Children |-> "none"]
  /\ updates = [a \in Agents |-> {}] /\ mailbox = {}
  /\ closing = {} /\ doomed = {} /\ listed = [x \in Calls |-> {}]
  /\ turn = [c \in Children |-> "none"] /\ steered = [c \in Children |-> {}]

\* The script that the execution follows.
Followed ==
  {script \in Scripts :
     /\ {x \in Calls : op[x] # "unsent"} \subseteq script.calls
     /\ crashes <= script.crashes /\ failures <= script.failures}
Fails ==
  /\ \E script \in Followed : failures < script.failures
  /\ failures' = failures + 1 /\ UNCHANGED crashes

-----------------------------------------------------------------------------
\* Execution slots.

Executing(c) == c \in exists /\ (life[c] = <<>> \/ turn[c] # "none")
\* Mutant: a slot counts only when it has been granted.
Reserved_Granted == {p \in Paths : slot[p] = "held"}
Reserved == {p \in Paths : slot[p] # "none"}
Full == Cardinality(Reserved) >= Limit

\* The statuses are read at once; the answers are looked at a while later.
Ask(p) ==
  /\ slot' = [slot EXCEPT ![p] = "deciding"]
  /\ seen' = [seen EXCEPT ![p] = {c \in agents \ {Root} : Executing(c)}]

\* A call or worker that needs a slot is refused, or goes on as it finds it.
Refused(p) == Closing(p) \/ (slot[p] = "none" /\ Full)
Reserve(p) == IF slot[p] = "none" THEN Ask(p) ELSE UNCHANGED slotVars

\* What keeps a slot: a task to be run, a spawn, a follow-up on its way.  A
\* worker that gives up does not count the task at the head of its queue.
HasTask(c, skipped) ==
  \E i \in DOMAIN tasks[c] : ~tasks[c][i].settled /\ (i # 1 \/ c # skipped)
ReleaseBut(p, skipped) ==
  LET queued == \E c \in agents \ {Root} : Path[c] = p /\ HasTask(c, skipped)'
      needed == queued \/ Spawning(p)' # {} \/ PendingFollowups(p)' # {}
  IN /\ slot' = [slot EXCEPT ![p] = IF needed THEN @ ELSE "none"]
     /\ UNCHANGED seen
ReleaseIdle(p) == ReleaseBut(p, Root)

\* A reservation is answered: everybody who waits for it goes on or fails.
Answer(p, admitted) ==
  LET waiting == {x \in Calls : op[x] = "reserving" /\ Path[x.to] = p}
      next(x) == IF ~admitted THEN "failed"
                 ELSE IF x.type = "spawn" THEN "creating" ELSE "starting"
      workers == {c \in Children : worker[c] = "reserving" /\ Path[c] = p}
  IN /\ slot' = [slot EXCEPT ![p] = IF admitted THEN "held" ELSE "none"]
     /\ seen' = [seen EXCEPT ![p] = {}]
     /\ op' = Woken([x \in Calls |-> IF x \in waiting THEN next(x) ELSE op[x]],
                    IF admitted THEN {} ELSE {Parent[c] : c \in workers})
     /\ worker' = [c \in Children |->
                     IF c \notin workers THEN worker[c]
                     ELSE IF admitted THEN "checking" ELSE "none"]

\* The statuses arrive: the slot is kept if the children that run without one
\* leave room for it.
Decide(p) ==
  LET unreserved == {c \in seen[p] : slot[Path[c]] = "none"}
      room == Cardinality(Reserved) + Cardinality(unreserved) <= Limit
  IN /\ slot[p] = "deciding"
     /\ \/ Answer(p, room) /\ UNCHANGED history
        \/ Fails /\ Answer(p, FALSE)
     /\ UNCHANGED <<storeVars, turnVars, restoreVars, agents, tasks, mailVars,
                    closeVars>>

-----------------------------------------------------------------------------
\* The model of an agent calls from the agent's Turn, which waits for the
\* answer unless it is interrupted.
Calling(x, type) ==
  /\ op[x] = "unsent" /\ x.type = type
  /\ \E script \in Followed : x \in script.calls
  /\ ready = "yes"
  /\ x.by # Root => turn[x.by] = "open"

To(x, at) == op' = [op EXCEPT ![x] = at]
\* The worker of a child starts if there is something to do.
Started(some, queues) ==
  [c \in Children |->
     IF /\ c \in some /\ worker[c] = "none"
        /\ ~Closing(Path[c]) /\ queues[c] # <<>>
     THEN "reserve" ELSE worker[c]]
Enqueue(c, task) ==
  /\ tasks' = [tasks EXCEPT ![c] = Append(@, task)]
  /\ worker' = Started({c}, tasks')

\* spawn: the path and a slot are taken before anything is created.
Spawn(x) ==
  /\ Calling(x, "spawn")
  /\ x.to \notin exists \union edges
  /\ IF /\ Live(x.by) /\ ~Refused(Path[x.to])
        /\ Spawning(Path[x.to]) = {}
        /\ \A c \in agents \ {Root} : Path[c] # Path[x.to]
     THEN /\ To(x, IF slot[Path[x.to]] = "held" THEN "creating"
                   ELSE "reserving")
          /\ Reserve(Path[x.to])
     ELSE To(x, "failed") /\ UNCHANGED slotVars
  /\ UNCHANGED <<storeVars, turnVars, restoreVars, agents, workVars, mailVars,
                 closeVars, history>>

SpawnFrame ==
  UNCHANGED <<life, known, notes, turnVars, restoreVars, mailVars, closeVars>>
SpawnEnds(x) == To(x, "failed") /\ UNCHANGED tasks /\ ReleaseIdle(Path[x.to])

CreateThread(x) ==
  /\ op[x] = "creating"
  /\ \/ /\ exists' = exists \union {x.to} /\ To(x, "linking")
        /\ UNCHANGED <<slotVars, history>>
     \/ Fails /\ SpawnEnds(x) /\ UNCHANGED exists
  /\ UNCHANGED <<edges, agents, workVars>> /\ SpawnFrame

\* The edge makes the thread a member of the tree; without it the thread is
\* discarded, unless that fails too.
LinkThread(x) ==
  /\ op[x] = "linking"
  /\ \/ edges' = edges \union {x.to} /\ To(x, "created") /\ UNCHANGED history
     \/ Fails /\ To(x, "discarding") /\ UNCHANGED edges
  /\ UNCHANGED <<exists, agents, workVars, slotVars>> /\ SpawnFrame

DiscardChild(x) ==
  /\ op[x] = "discarding" /\ x.type = "spawn"
  /\ \/ exists' = exists \ {x.to} /\ UNCHANGED history
     \/ Fails /\ UNCHANGED exists
  /\ SpawnEnds(x)
  /\ UNCHANGED <<edges, agents, workVars>> /\ SpawnFrame

RegisterChild(x) ==
  /\ op[x] = "created"
  /\ IF Closing(Path[x.to]) \/ Taken(x.to)
     THEN To(x, "rollback") /\ UNCHANGED <<agents, workVars>>
     ELSE /\ agents' = agents \union {x.to}
          /\ Enqueue(x.to, Task("none"))
          /\ To(x, "done")
  /\ UNCHANGED <<exists, edges, slotVars, history>> /\ SpawnFrame

\* A child whose path was closed or taken meanwhile is removed; if that fails,
\* so does every deletion that waits for the spawn.
RollbackFails(x) ==
  /\ Fails
  /\ op' = [y \in Calls |->
              IF y = x \/ (op[y] = "spawns" /\ Under(x.to, PathOf(y.to)))
              THEN "failed" ELSE op[y]]
  /\ UNCHANGED tasks /\ ReleaseIdle(Path[x.to])
RollbackChild(x) ==
  /\ op[x] \in {"rollback", "unlinking"}
  /\ \/ /\ op[x] = "rollback"
        /\ exists' = exists \ {x.to} /\ To(x, "unlinking")
        /\ UNCHANGED <<edges, slotVars, history>>
     \/ /\ op[x] = "unlinking"
        /\ edges' = edges \ {x.to} /\ SpawnEnds(x)
        /\ UNCHANGED <<exists, history>>
     \/ RollbackFails(x) /\ UNCHANGED <<exists, edges>>
  /\ UNCHANGED <<agents, workVars>> /\ SpawnFrame

-----------------------------------------------------------------------------
\* Messages and follow-ups (send).

\* A follow-up that repeats one in progress or accepted shares its receipt.
Repeats(x) ==
  {y \in Calls \ {x} : y.type = "followup" /\ y.by = x.by /\ y.id = x.id}
Original(x) ==
  {y \in Repeats(x) : op[y] \notin {"unsent", "failed", "past", "joined"}}
SendFrame == UNCHANGED <<storeVars, restoreVars, agents, closeVars>>

Send(x) ==
  /\ \/ Calling(x, "message") \/ Calling(x, "followup")
  /\ Original(x) = {} => \A y \in Repeats(x) : op[y] # "joined"
  /\ To(x, IF ~Live(x.by) \/ ~Live(x.to) THEN "failed"
           ELSE IF x.type = "followup" /\ Original(x) # {} THEN "joined"
           ELSE "loading")
  /\ UNCHANGED <<turnVars, slotVars, workVars, mailVars, history>> /\ SendFrame

\* The receipt rejects or resolves with the original's, before anything else
\* is sent under the id.
JoinEnds(x) ==
  /\ op[x] = "joined"
  /\ \/ Original(x) = {} /\ To(x, "failed")
     \/ (\E y \in Original(x) : op[y] = "done") /\ To(x, "done")
  /\ UNCHANGED <<turnVars, slotVars, workVars, mailVars, history>> /\ SendFrame

\* The recipient is loaded; both agents may have been closed meanwhile.  An
\* agent that a deletion registered while another one removed it is not found.
LoadRecipient(x) ==
  /\ op[x] = "loading"
  /\ \/ /\ To(x, IF \/ ~Live(x.by) \/ ~Live(x.to)
                    \/ x.to \notin exists \union {Root} THEN "failed"
                 ELSE IF x.type = "followup" THEN "steering" ELSE "posting")
        /\ UNCHANGED history
     \/ Fails /\ To(x, "failed")
  /\ UNCHANGED <<turnVars, slotVars, workVars, mailVars>> /\ SendFrame

\* Mutant: nobody is woken.
Arrives_Silent(x) ==
  /\ mailbox' = mailbox \union {x.to}
  /\ To(x, "done")
  /\ UNCHANGED updates
Arrives(x) ==
  /\ mailbox' = mailbox \union {x.to}
  /\ op' = Woken([op EXCEPT ![x] = "done"], {x.to})
  /\ UNCHANGED updates

\* The message is in the history of the recipient (see Session.tla).
DeliverMessage(x) ==
  /\ op[x] = "posting"
  /\ \/ Arrives(x) /\ UNCHANGED history
     \/ Fails /\ To(x, "failed") /\ UNCHANGED mailVars
  /\ UNCHANGED <<turnVars, slotVars, workVars>> /\ SendFrame

\* The Session knows the follow-up, or its Turn takes it, or a new Turn has to
\* be queued: only then is a slot needed.  The steering may also fail.
SteerChild(x) ==
  LET replayed == x.id \in known[x.to] \union steered[x.to]
      steers == turn[x.to] = "open" /\ ~replayed
      p == Path[x.to]
  IN /\ op[x] = "steering"
     /\ UNCHANGED workVars
     /\ \/ /\ replayed \/ steers
           /\ steered' = [steered EXCEPT ![x.to] =
                            IF steers THEN @ \union {x.id} ELSE @]
           /\ Arrives(x) /\ ReleaseIdle(p) /\ UNCHANGED history
        \/ /\ ~replayed /\ ~steers /\ Refused(p)
           /\ To(x, "failed") /\ ReleaseIdle(p)
           /\ UNCHANGED <<steered, mailVars, history>>
        \/ /\ ~replayed /\ ~steers /\ ~Refused(p)
           /\ To(x, IF slot[p] = "held" THEN "starting" ELSE "reserving")
           /\ Reserve(p) /\ UNCHANGED <<steered, mailVars, history>>
        \/ /\ Fails /\ To(x, "failed") /\ ReleaseIdle(p)
           /\ UNCHANGED <<steered, mailVars>>
     /\ UNCHANGED turn /\ SendFrame

StartFollowup(x) ==
  /\ op[x] = "starting"
  /\ IF Live(x.by) /\ Live(x.to)
     THEN To(x, "done") /\ Enqueue(x.to, Task(x.id))
     ELSE To(x, "failed") /\ UNCHANGED workVars
  /\ ReleaseIdle(Path[x.to])
  /\ UNCHANGED <<turnVars, mailVars, history>> /\ SendFrame

-----------------------------------------------------------------------------
\* wait and list: both retry what failed workers left.

Drain(a) ==
  /\ updates' = [updates EXCEPT ![a] = {}]
  /\ mailbox' = mailbox \ {a}
WaitFrame ==
  UNCHANGED <<storeVars, turnVars, restoreVars, agents, slotVars, closeVars,
              tasks, history>>

Wait(x) ==
  /\ Calling(x, "wait")
  /\ IF ~Live(x.by)
     THEN To(x, "failed") /\ UNCHANGED <<worker, mailVars>>
     ELSE /\ worker' = Started(agents \ {Root}, tasks)
          /\ IF updates[x.by] # {} \/ x.by \in mailbox
             THEN To(x, "done") /\ Drain(x.by)
             ELSE To(x, "waiting") /\ UNCHANGED mailVars
  /\ WaitFrame

\* A waiter that was woken takes what has come by the time it runs; one whose
\* time is over or that is aborted leaves everything to the next.
WaitEnds(x) ==
  /\ \/ op[x] = "woken" /\ Drain(x.by)
     \/ op[x] \in {"waiting", "woken"} /\ UNCHANGED mailVars
  /\ To(x, "done")
  /\ UNCHANGED worker /\ WaitFrame

Retry ==
  /\ ready = "yes"
  /\ worker' = Started(agents \ {Root}, tasks)
  /\ worker' # worker
  /\ UNCHANGED <<op, mailVars>> /\ WaitFrame

-----------------------------------------------------------------------------
\* The worker of a child (runTasks).

Goes(c, phase) == worker' = [worker EXCEPT ![c] = phase]
WorkFrame == UNCHANGED <<exists, edges, restoreVars, agents, closeVars>>
CallFrame == UNCHANGED <<mailVars, op>>
SessionFrame == UNCHANGED <<life, known, notes, turnVars>>
\* The worker rejects: the task stays and the parent is told.
Rejects(c) ==
  /\ Goes(c, "none") /\ UNCHANGED tasks
  /\ op' = Woken(op, {Parent[c]}) /\ UNCHANGED mailVars
Dies(c) == Rejects(c) /\ ReleaseBut(Path[c], c)

\* The next task, or the end.  The slot is asked for before the first await.
NextTask(c) ==
  LET p == Path[c]
      head == Head(tasks[c])
  IN /\ worker[c] = "reserve"
     /\ \/ /\ tasks[c] = <<>> /\ Goes(c, "returning")
           /\ CallFrame /\ UNCHANGED <<tasks, slotVars>>
        \/ /\ tasks[c] # <<>> /\ head.settled
           /\ Goes(c, IF head.note = 0 THEN "naming" ELSE "delivering")
           /\ CallFrame /\ UNCHANGED <<tasks, slotVars>>
        \/ /\ tasks[c] # <<>> /\ ~head.settled
           /\ IF Refused(p)
              THEN Rejects(c) /\ ReleaseIdle(p)
              ELSE /\ Goes(c, IF slot[p] = "held" THEN "checking"
                              ELSE "reserving")
                   /\ Reserve(p) /\ CallFrame /\ UNCHANGED tasks
     /\ UNCHANGED history /\ WorkFrame /\ SessionFrame

\* The task may have been removed while the slot was asked for.
CheckTask(c) ==
  /\ worker[c] = "checking"
  /\ CallFrame /\ UNCHANGED tasks
  /\ IF Closing(Path[c]) \/ tasks[c] = <<>>
     THEN Goes(c, "returning") /\ ReleaseBut(Path[c], c)
     ELSE Goes(c, "launching") /\ UNCHANGED slotVars
  /\ UNCHANGED history /\ WorkFrame /\ SessionFrame

\* runChild: the thread is loaded and its Session starts a Turn if it is idle.
LaunchTask(c) ==
  /\ worker[c] = "launching"
  /\ \/ /\ turn[c] = "none" /\ Goes(c, "running")
        /\ life' = [life EXCEPT ![c] = Append(@, "started")]
        /\ turn' = [turn EXCEPT ![c] = "open"]
        /\ known' = IF tasks[c] = <<>> THEN known
                    ELSE [known EXCEPT ![c] = @ \union {Head(tasks[c]).id}]
        /\ UNCHANGED <<notes, steered, history>>
     \/ /\ turn[c] # "none" /\ Goes(c, "failing")
        /\ SessionFrame /\ UNCHANGED history
     \/ Fails /\ Goes(c, "failing") /\ SessionFrame
  /\ UNCHANGED <<tasks, slotVars>> /\ CallFrame /\ WorkFrame

\* failChild: the Session records the failure if it is idle, unless its status
\* is that very error already: then the last record stands for both.
FailTask(c) ==
  /\ worker[c] = "failing"
  /\ \/ /\ turn[c] = "none" /\ Goes(c, "ended")
        /\ \/ life' = [life EXCEPT ![c] = Append(@, "failed")]
           \/ /\ life[c] # <<>> /\ Last(life[c]) \notin Starts
              /\ UNCHANGED life
        /\ UNCHANGED <<known, notes, turnVars, tasks, slotVars, history>>
        /\ CallFrame
     \/ turn[c] # "none" /\ Dies(c) /\ SessionFrame /\ UNCHANGED history
     \/ Fails /\ Dies(c) /\ SessionFrame
  /\ WorkFrame

\* The outcome is known; the slot is free for the others.
SettleTask(c) ==
  /\ worker[c] = "ended"
  /\ tasks' = [tasks EXCEPT ![c] =
                 IF @ = <<>> THEN @ ELSE [@ EXCEPT ![1].settled = TRUE]]
  /\ Goes(c, "naming")
  /\ CallFrame /\ ReleaseIdle(Path[c])
  /\ UNCHANGED history /\ WorkFrame /\ SessionFrame

\* completionDeliveryId: the last terminal record of the child.
\* Mutant: the record of the start names the outcome.
LastTerminal_Start(c) == SelectLastInSeq(life[c], LAMBDA r : r \in Starts)
LastTerminal(c) == SelectLastInSeq(life[c], LAMBDA r : r \notin Starts)
NameOutcome(c) ==
  /\ worker[c] = "naming"
  /\ \/ /\ Goes(c, "delivering")
        /\ tasks' = [tasks EXCEPT ![c] =
                       IF @ = <<>> THEN @
                       ELSE [@ EXCEPT ![1].note = LastTerminal(c)]]
        /\ UNCHANGED <<slotVars, history>> /\ CallFrame
     \/ Fails /\ Dies(c)
  /\ WorkFrame /\ SessionFrame

\* Mutant: the task leaves the queue although the delivery has failed.
DeliverOutcome_Dropped(c) ==
  LET note == [from |-> c, at |-> Head(tasks[c]).note]
  IN /\ worker[c] = "delivering"
     /\ \/ /\ Closing(Path[c])
           /\ tasks' = [tasks EXCEPT ![c] = IF @ = <<>> THEN @ ELSE Tail(@)]
           /\ Goes(c, "reserve")
           /\ CallFrame /\ UNCHANGED <<notes, slotVars, history>>
        \/ /\ ~Closing(Path[c])
           /\ notes' = notes \union {note} /\ Goes(c, "delivered")
           /\ CallFrame /\ UNCHANGED <<tasks, slotVars, history>>
        \/ /\ ~Closing(Path[c]) /\ Fails /\ Goes(c, "reserve")
           /\ tasks' = [tasks EXCEPT ![c] = IF @ = <<>> THEN @ ELSE Tail(@)]
           /\ CallFrame /\ UNCHANGED <<notes, slotVars>>
     /\ UNCHANGED <<life, known, turnVars>> /\ WorkFrame
DeliverOutcome(c) ==
  LET note == [from |-> c, at |-> Head(tasks[c]).note]
  IN /\ worker[c] = "delivering"
     /\ \/ /\ Closing(Path[c])
           /\ tasks' = [tasks EXCEPT ![c] = IF @ = <<>> THEN @ ELSE Tail(@)]
           /\ Goes(c, "reserve")
           /\ CallFrame /\ UNCHANGED <<notes, slotVars, history>>
        \/ /\ ~Closing(Path[c])
           /\ notes' = notes \union {note} /\ Goes(c, "delivered")
           /\ CallFrame /\ UNCHANGED <<tasks, slotVars, history>>
        \/ /\ ~Closing(Path[c]) /\ Fails /\ Dies(c)
           /\ notes' \in {notes, notes \union {note}}
     /\ UNCHANGED <<life, known, turnVars>> /\ WorkFrame

\* The task leaves the queue and all ancestors learn of the outcome.
OutcomeDelivered(c) ==
  /\ worker[c] = "delivered"
  /\ tasks' = [tasks EXCEPT ![c] = IF @ = <<>> THEN @ ELSE Tail(@)]
  /\ Goes(c, "reserve")
  /\ updates' = [a \in Agents |-> IF a \in Above[c] THEN updates[a] \union {c}
                                  ELSE updates[a]]
  /\ op' = Woken(op, Above[c])
  /\ UNCHANGED <<mailbox, slotVars, history>> /\ WorkFrame /\ SessionFrame

\* A task that was queued after the worker had seen none starts the next one.
WorkerEnds(c) ==
  /\ worker[c] = "returning"
  /\ Goes(c, IF Closing(Path[c]) \/ tasks[c] = <<>> THEN "none" ELSE "reserve")
  /\ CallFrame /\ UNCHANGED tasks /\ ReleaseIdle(Path[c])
  /\ UNCHANGED history /\ WorkFrame /\ SessionFrame

-----------------------------------------------------------------------------
\* The Turn of a child's Session.

SessionStep == UNCHANGED <<exists, edges, notes, restoreVars, agents, slotVars,
                           tasks, mailVars, closeVars, history>>

\* A Turn that nobody in the tree asked for: a prompt or a goal.
DirectTurn(x) ==
  /\ op[x] = "unsent" /\ x.type = "prompt"
  /\ \E script \in Followed : x \in script.calls
  /\ x.to \in exists /\ turn[x.to] = "none"
  /\ x.to \in agents \/ life[x.to] # <<>>
  /\ To(x, "done")
  /\ life' = [life EXCEPT ![x.to] = Append(@, "prompted")]
  /\ turn' = [turn EXCEPT ![x.to] = "open"]
  /\ UNCHANGED <<known, steered, worker>> /\ SessionStep

\* Steering is recorded before the Turn completes.
TurnTakes(c) ==
  /\ turn[c] \in {"open", "closed"} /\ steered[c] # {}
  /\ known' = [known EXCEPT ![c] = @ \union steered[c]]
  /\ steered' = [steered EXCEPT ![c] = {}]
  /\ UNCHANGED <<life, turn, worker, op>> /\ SessionStep

TurnStops(c) ==
  /\ turn[c] = "open" /\ steered[c] = {}
  /\ \A x \in Calls : x.by = c => ~Running(x)
  /\ turn' = [turn EXCEPT ![c] = "closed"]
  /\ UNCHANGED <<life, known, steered, worker, op>> /\ SessionStep

TurnEnds(c) ==
  /\ turn[c] \in {"closed", "aborted"}
  /\ turn' = [turn EXCEPT ![c] = "none"]
  /\ steered' = [steered EXCEPT ![c] = {}]
  /\ life' = [life EXCEPT ![c] = Append(@, "ended")]
  /\ worker' = [worker EXCEPT ![c] = IF @ = "running" THEN "ended" ELSE @]
  /\ UNCHANGED <<known, op>> /\ SessionStep

-----------------------------------------------------------------------------
\* Deleting a thread (discardThread, closeAgent, discardStoredSubtree).

Below(x) == {a \in agents : Under(a, Path[x.to])}
Subtree(x) ==
  {a \in agents :
     a = x.to \/ (Under(a, Path[x.to]) /\ PathOf(a) # Path[x.to])}
DeleteFrame == UNCHANGED <<known, notes, restoreVars>>

\* The thread is registered if it is not, the path is closed to everybody, and
\* the waiters under it wake.  Deletions of one thread come one at a time: one
\* that found the thread and had to wait may find it gone when its turn comes,
\* by the one before or by one from above, and only clears the graph.
Delete(x) ==
  /\ Calling(x, "delete")
  /\ \A y \in Calls : y.type = "delete" /\ y.to = x.to => ~Running(y)
  /\ \/ /\ x.to \in exists /\ Taken(x.to)
        /\ To(x, "failed") /\ UNCHANGED <<agents, closeVars>>
     \/ /\ x.to \in exists /\ ~Taken(x.to)
        /\ agents' = agents \union {x.to}
        /\ closing' = closing \union {Path[x.to]}
        /\ doomed' = doomed \union {x.to}
        /\ op' = Woken([op EXCEPT ![x] = "messages"], Below(x))
        /\ UNCHANGED listed
     \/ /\ x.to \notin exists
        /\ \E y \in Calls : y.type = "spawn" /\ y.to = x.to /\ op[y] = "done"
        /\ To(x, "sweeping") /\ UNCHANGED <<agents, closeVars>>
  /\ UNCHANGED <<exists, edges, life, turnVars, slotVars, workVars, mailVars,
                 history>> /\ DeleteFrame

\* What was admitted under the path before it closed comes to its end.
MessagesSettle(x) ==
  /\ op[x] = "messages" /\ Sending(Path[x.to]) = {}
  /\ To(x, "spawns")
  /\ UNCHANGED <<exists, edges, life, turnVars, agents, slotVars, workVars,
                 mailVars, closeVars, history>> /\ DeleteFrame

\* The subtree is listed, its queued tasks are dropped and the Turns of its
\* workers are interrupted.
SpawnsSettle(x) ==
  LET active == {c \in Subtree(x) \ {Root} : worker[c] # "none"}
  IN /\ op[x] = "spawns"
     /\ \A y \in Calls : y.type = "spawn" /\ Running(y) =>
                           ~Under(y.to, Path[x.to])
     /\ tasks' = [c \in Children |->
                    IF c \in Subtree(x) THEN <<>> ELSE tasks[c]]
     /\ \/ /\ turn' = [c \in Children |->
                         IF c \in active /\ turn[c] # "none" THEN "aborted"
                         ELSE turn[c]]
           /\ listed' = [listed EXCEPT ![x] = Subtree(x)]
           /\ To(x, "runs") /\ UNCHANGED history
        \/ /\ active # {} /\ Fails /\ To(x, "failed")
           /\ UNCHANGED <<turn, listed>>
     /\ UNCHANGED <<exists, edges, life, steered, agents, slotVars, worker,
                    mailVars, closing, doomed>> /\ DeleteFrame

\* The agents of the list that another deletion has registered a child of
\* since: these cannot be unregistered.
Blocked(x) ==
  {a \in Subtree(x) \intersect listed[x] :
     \E c \in Subtree(x) \ listed[x] : Parent[c] = a}
\* The list is unregistered, deepest first, up to the first that is blocked.
Unregistered(x) ==
  LET all == Subtree(x) \intersect listed[x]
      below(c) == \A b \in Blocked(x) : Len(Path[c]) > Len(Path[b])
      level(c) == \A b \in Blocked(x) : Len(Path[c]) >= Len(Path[b])
  IN {some \in SUBSET (all \ Blocked(x)) :
        \A c \in all : (below(c) => c \in some) /\ (c \in some => level(c))}

\* No worker is left: the subtree leaves the registry.
Unregister(x) ==
  /\ op[x] = "runs"
  /\ \A c \in Subtree(x) : worker[c] = "none"
  /\ \E some \in Unregistered(x) :
       /\ agents' = agents \ some
       /\ updates' = [a \in Agents |-> IF a \in some THEN {} ELSE updates[a]]
       /\ mailbox' = mailbox \ some
       /\ op' = Woken([op EXCEPT ![x] = IF Blocked(x) = {} THEN "removing"
                                        ELSE "failed"], some)
       /\ slot' = [p \in Paths |->
                     IF p \in {Path[c] : c \in some} /\ Spawning(p)' = {}
                                                   /\ PendingFollowups(p)' = {}
                     THEN "none" ELSE slot[p]]
       /\ tasks' = [c \in Children |-> IF c \in some THEN <<>> ELSE tasks[c]]
  /\ listed' = [listed EXCEPT ![x] = {}]
  /\ UNCHANGED <<exists, edges, life, turnVars, worker, closing, doomed, seen,
                 history>> /\ DeleteFrame

\* The threads that the graph store knows under a thread, deepest first.
Descendants(c) ==
  {d \in edges : /\ c \in Above[d]
                 /\ \A b \in Above[d] \ {Root} : c \in Above[b] => b \in edges}
\* Mutant: the thread itself goes first.
Deepest_First(some) ==
  {d \in some : \A e \in some : Len(Path[d]) <= Len(Path[e])}
Deepest(some) ==
  {d \in some : \A e \in some : Len(Path[e]) <= Len(Path[d])}
NextRemoved(c) == Deepest(Descendants(c) \union {c})

\* The rollout goes before the edge, which remains as a tombstone.
RemoveRollout(d) ==
  /\ exists' = exists \ {d}
  /\ turn' = [turn EXCEPT ![d] = "none"]
  /\ steered' = [steered EXCEPT ![d] = {}]
  /\ life' = [life EXCEPT ![d] = <<>>]
  /\ UNCHANGED <<edges, closeVars>>
RemoveEdges(d) ==
  /\ edges' = {c \in edges : c # d /\ Parent[c] # d}
  /\ doomed' = doomed \ {d}
  /\ closing' = IF d \in doomed THEN closing \ {Path[d]} ELSE closing
  /\ UNCHANGED <<exists, turnVars, life, listed>>

RemoveNext(x) ==
  /\ op[x] \in {"removing", "sweeping"}
  /\ \/ \E d \in NextRemoved(x.to) :
           \/ d \in exists /\ RemoveRollout(d) /\ UNCHANGED <<op, history>>
           \/ /\ d \notin exists /\ RemoveEdges(d) /\ UNCHANGED history
              /\ To(x, IF d = x.to THEN "done" ELSE op[x])
     \/ /\ Fails /\ To(x, "failed")
        /\ UNCHANGED <<exists, edges, life, turnVars, closeVars>>
  /\ UNCHANGED <<agents, slotVars, workVars, mailVars>> /\ DeleteFrame

-----------------------------------------------------------------------------
\* The first call after a start restores the tree (restoreAgents, ensureReady).

RestoreFrame == UNCHANGED <<known, notes, slotVars, mailVars, crashes>>
RestoreFails ==
  /\ ready \in {"linking", "reading"}
  /\ Fails /\ ready' = "no" /\ found' = NoneFound
  /\ UNCHANGED <<exists, edges, life, turnVars, agents, workVars, closeVars>>
Shallowest(some) ==
  {c \in some : \A d \in some : Len(Path[c]) <= Len(Path[d])}

Restore ==
  /\ ready = "no" /\ \E x \in Calls : op[x] = "unsent" /\ x.type # "prompt"
  /\ ready' = "linking" /\ found' = NoneFound
  /\ UNCHANGED <<exists, edges, life, turnVars, agents, workVars, closeVars,
                 op, failures>> /\ RestoreFrame

\* A thread without an edge joins its parent, or goes if that is gone.
Reconcile ==
  LET unlinked == exists \ edges
  IN /\ ready = "linking"
     /\ \/ unlinked = {} /\ ready' = "reading" /\ UNCHANGED <<exists, edges>>
        \/ /\ \E c \in Shallowest(unlinked) :
                IF Parent[c] \in edges \union {Root}
                THEN edges' = edges \union {c} /\ UNCHANGED exists
                ELSE exists' = exists \ {c} /\ UNCHANGED edges
           /\ UNCHANGED ready
     /\ UNCHANGED <<found, life, turnVars, agents, workVars, closeVars, op,
                    failures>> /\ RestoreFrame

\* A tombstone's subtree goes; a child that never started is failed; of the
\* others the last lifecycle record, ended or not, is their outcome.
Unread == {c \in edges : found[c] = 0}
ReadChild ==
  /\ ready = "reading"
  /\ \E c \in Shallowest(Unread) :
       \/ /\ c \notin exists
          /\ \E d \in NextRemoved(c) :
               IF d \in exists THEN RemoveRollout(d) ELSE RemoveEdges(d)
          /\ UNCHANGED found
       \/ /\ c \in exists /\ life[c] = <<>>
          /\ life' = [life EXCEPT ![c] = <<"failed">>]
          /\ UNCHANGED <<exists, edges, turnVars, closeVars, found>>
       \/ /\ c \in exists /\ life[c] # <<>>
          /\ found' = [found EXCEPT ![c] = Len(life[c])]
          /\ UNCHANGED <<exists, edges, life, turnVars, closeVars>>
  /\ UNCHANGED <<ready, agents, workVars, op, failures>> /\ RestoreFrame

\* All are registered before the first outcome is delivered again.  A path has
\* one owner: if two children were found on it the tree is not restored.
Restored(note) == [id |-> "none", settled |-> TRUE, note |-> note]
RegisterFound ==
  LET read == {c \in Children : found[c] # 0}
      conflict == \E c, d \in read : c # d /\ Path[c] = Path[d]
  IN /\ ready = "reading" /\ Unread = {}
     /\ found' = NoneFound
     /\ \/ conflict /\ ready' = "no" /\ UNCHANGED <<agents, workVars>>
        \/ /\ ~conflict /\ ready' = "yes"
           /\ agents' = agents \union read
           /\ tasks' = [c \in Children |->
                          IF c \in read
                          THEN Append(tasks[c], Restored(found[c]))
                          ELSE tasks[c]]
           /\ worker' = Started(read, tasks')
     /\ UNCHANGED <<exists, edges, life, turnVars, closeVars, op, failures>>
     /\ RestoreFrame

RestoreStep ==
  \/ Restore \/ Reconcile \/ ReadChild \/ RegisterFound
  \/ RestoreFails /\ UNCHANGED op /\ RestoreFrame

-----------------------------------------------------------------------------
\* The process dies.  Its calls are gone; later ones may repeat them.
Crash ==
  /\ \E script \in Followed : crashes < script.crashes
  /\ crashes' = crashes + 1
  /\ op' = [x \in Calls |-> CASE op[x] = "unsent" -> "unsent"
                              [] op[x] \in {"done", "past"} -> "past"
                              [] OTHER -> "failed"]
  /\ ready' = "no" /\ found' = NoneFound
  /\ agents' = {Root}
  /\ slot' = [p \in Paths |-> "none"] /\ seen' = [p \in Paths |-> {}]
  /\ tasks' = [c \in Children |-> <<>>]
  /\ worker' = [c \in Children |-> "none"]
  /\ updates' = [a \in Agents |-> {}] /\ mailbox' = {}
  /\ closing' = {} /\ doomed' = {} /\ listed' = [x \in Calls |-> {}]
  /\ turn' = [c \in Children |-> "none"] /\ steered' = [c \in Children |-> {}]
  /\ UNCHANGED <<storeVars, failures>>

WorkerStep(c) ==
  \/ NextTask(c) \/ CheckTask(c) \/ LaunchTask(c) \/ FailTask(c)
  \/ SettleTask(c) \/ NameOutcome(c) \/ DeliverOutcome(c)
  \/ OutcomeDelivered(c) \/ WorkerEnds(c)
TurnStep(c) == TurnTakes(c) \/ TurnStops(c) \/ TurnEnds(c)
CallStep(x) ==
  \/ CreateThread(x) \/ LinkThread(x) \/ DiscardChild(x) \/ RegisterChild(x)
  \/ RollbackChild(x)
  \/ JoinEnds(x) \/ LoadRecipient(x) \/ DeliverMessage(x) \/ SteerChild(x)
  \/ StartFollowup(x)
  \/ WaitEnds(x)
  \/ MessagesSettle(x) \/ SpawnsSettle(x) \/ Unregister(x) \/ RemoveNext(x)
Begin(x) == Spawn(x) \/ Send(x) \/ Wait(x) \/ Delete(x) \/ DirectTurn(x)

Next ==
  \/ \E x \in Calls : Begin(x) \/ CallStep(x)
  \/ \E p \in Paths : Decide(p)
  \/ \E c \in Children : WorkerStep(c) \/ TurnStep(c)
  \/ RestoreStep \/ Retry \/ Crash

Spec == Init /\ [][Next]_vars

(***************************************************************************)
(* Everything that has begun goes on: the adapter answers, Turns end (the  *)
(* Session's own concern) and the root's model keeps calling wait or list, *)
(* which is what retries a worker that has failed.                         *)
(***************************************************************************)
Fairness ==
  /\ \A x \in Calls : WF_vars(CallStep(x))
  /\ \A p \in Paths : WF_vars(Decide(p))
  /\ \A c \in Children : WF_vars(WorkerStep(c)) /\ WF_vars(TurnStep(c))
  /\ WF_vars(RestoreStep) /\ WF_vars(Retry)
FairSpec == Spec /\ Fairness

-----------------------------------------------------------------------------
\* No more children execute tasks than the tree may have, although spawns and
\* follow-ups of several agents are admitted while others are being created,
\* fail, are closed or run without a slot.
ExecutionLimit ==
  LET executing == {c \in Children : worker[c] \in {"launching", "running"}}
  IN Cardinality(executing) <= Limit

\* The parent hears of every execution of a child at most once, across failed
\* deliveries, crashes and restores: between two outcomes of a child there is
\* always a new start or a failure.  Only a Turn that nobody in the tree asked
\* for may be announced twice: as interrupted, by a restore that reads the
\* child while the Turn is open, and as ended, by a later one.
AnnouncedOnce ==
  \A n, m \in notes :
    LET records == life[n.from]
    IN n.from = m.from /\ n.at < m.at /\ n.from \in exists =>
         \/ \E i \in n.at + 1 .. m.at : records[i] \in Starts \union {"failed"}
         \/ /\ m.at = n.at + 1
            /\ records[n.at] = "prompted" /\ records[m.at] = "ended"

\* An agent does not sleep in wait while there is something for it to read or
\* while it is being closed.
NoLostWakeup ==
  \A x \in Calls : op[x] = "waiting" =>
    updates[x.by] = {} /\ x.by \notin mailbox /\ Live(x.by)

\* When a deletion has returned, nothing of the subtree is left in the graph,
\* the registry or at work, whatever was being created, sent or run in it; of
\* the rollouts only one may be left whose spawn failed and could not clean
\* up, for the next restore to find, or for a later deletion to register and,
\* if that fails in its turn, to leave there with its path closed.  A deletion
\* that failed or crashed half-way leaves, once the tree is restored, no thread
\* whose parent is gone.
DeletionsAreWhole ==
  /\ \A x \in Calls : x.type = "delete" /\ op[x] \in {"done", "past"} =>
       \A c \in Children : c = x.to \/ x.to \in Above[c] =>
         /\ c \notin edges /\ worker[c] = "none" /\ tasks[c] = <<>>
         /\ c \in agents => \E y \in Calls :
                              /\ y.type = "delete" /\ y.to = c
                              /\ Running(y) \/ op[y] = "failed"
         /\ c \in exists => \E y \in Calls : y.type = "spawn" /\ y.to = c
                                             /\ op[y] = "failed"
  /\ ready = "yes" =>
       \A c \in exists \intersect edges : Parent[c] \in exists \union {Root}

\* Every call returns and every task that was accepted is executed and its
\* outcome delivered, or its agent is closed, or the process dies: at last the
\* parent has an outcome of the child that is not older than the last start of
\* a task and the last failure in the child's rollout.
Heard(c) ==
  \A i \in DOMAIN life[c] : life[c][i] \in {"started", "failed"} =>
    \E n \in notes : n.from = c /\ n.at >= i
Settled ==
  /\ \A x \in Calls : ~Running(x)
  /\ \A c \in Children : tasks[c] = <<>> \/ Closing(Path[c])
  /\ ready = "yes" =>
       \A c \in exists \intersect agents : Heard(c) \/ Closing(Path[c])
EverythingSettles == []<>Settled
=============================================================================
