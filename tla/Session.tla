------------------------------- MODULE Session -------------------------------
(***************************************************************************)
(* The Session actor (src/core/session.ts, session-io.ts): endpoints put   *)
(* commands on a queue, one loop dispatches them in order, and the task of *)
(* the active Turn runs beside the loop.  Both write the rollout: the task *)
(* through a queue of context mutations and through direct appends, the    *)
(* loop through agent messages and agent statuses.  Tasks are interrupted, *)
(* fail, take steering and end; appends and flushes fail; the process      *)
(* crashes and the Session is rebuilt from its rollout.                    *)
(*                                                                         *)
(* Abstractions.  The rollout is the sequence of records that appendItems  *)
(* has numbered (module RolloutWriter says what becomes of them): an       *)
(* append numbers its records at once and resolves or rejects later, or is *)
(* refused and numbers nothing.  A record is its type, an identity and its *)
(* Turn; records that only describe a Turn (context, usage, metrics, model *)
(* attempts, items) are left out, except one tool result per Turn that     *)
(* stands for the writes a stopping Turn may still make.  An input is its  *)
(* submission id, so its content never conflicts.  Commands that wait for  *)
(* room in the bounded queue keep their order and are part of it.  Inputs  *)
(* with a thread provenance, model selections and events are left out.     *)
(***************************************************************************)
EXTENDS Naturals, Sequences, FiniteSets, SequencesExt

CONSTANTS
  Scripts,     \* what the callers of an execution send: they follow one of
               \* these, each command once per process; the bound of a
               \* script is the number of times the process may crash
  Failures     \* what may fail: "save" (appends, flushes and reads of the
               \* rollout), "cleanup" (the release of a task's resources)

\* A command: its kind, the submission or message id it carries, where the
\* input comes from, how it may be admitted, the Turn it expects, and a
\* number that tells a retry from the original.
CommandType ==
  [type : {"turn_input", "compact", "resume_turn", "interrupt", "fail_agent",
           "agent_message", "fork_barrier", "shutdown", "shutdown_if_idle"},
   id : STRING, source : {"human", "agent", "runtime"},
   mode : {"start_if_idle", "start_or_steer", "steer"},
   expected : STRING, n : Nat]

Commands == UNION {script.commands : script \in Scripts}
ASSUME CommandsAssumption ==
  /\ IsFiniteSet(Commands)
  /\ Commands \subseteq CommandType
  \* these names are not those of submissions
  /\ \A c \in Commands : c.id \notin {"none", "interruption", "tool_result"}
ASSUME BoundsAssumption ==
  /\ Failures \subseteq {"save", "cleanup"}
  /\ \A script \in Scripts : script.crashes \in Nat

SaveFails == "save" \in Failures
CleanupFails == "cleanup" \in Failures

VARIABLES
  inbox,          \* #submissions: commands the loop has not received
  held,           \* commands that wait for #idleShutdown to settle
  reply,          \* what each command's caller has been told
  closing,        \* #closing
  idle,           \* #idleShutdown: "none", "asked", or its answer "no", "yes"
  loop,           \* what #runSubmissionLoop awaits
  current,        \* the command being dispatched, or NoCommand
  turn,           \* #activeTurn, or NoTurn
  mutations,      \* closures queued on #contextMutationTail, running one first
  submitted,      \* keys of #submittedInputs
  received,       \* #receivedAgentMessageIds
  accepted,       \* keys of #acceptedAgentMessages
  agentStatus,    \* #agentStatus; an error is named by its message
  history,        \* conversation records in #contextManager, in its order
  log,            \* records numbered by appendItems, in order
  disk,           \* how many of them an append or a flush has resolved for
  synced,         \* how many of them a flush has promised
  rejected,       \* the last awaited `finalized` rejected
  saveFailed,     \* a persistence error was reported by this process
  crashes         \* history: crashes so far

loopVars == <<inbox, held, reply, closing, idle, loop, current>>
inputVars == <<submitted, received, accepted>>
storeVars == <<log, disk, synced>>
bodyVars == <<turn, mutations, inputVars, agentStatus, history, storeVars,
              rejected, saveFailed>>
vars == <<loopVars, turn, mutations, inputVars, agentStatus, history,
          storeVars, rejected, saveFailed, crashes>>

NoCommand == [type |-> "none"]
NoTurn == [id |-> "none", at |-> "none"]

Rec(type, id, of) == [type |-> type, id |-> id, turn |-> of]
TurnStarted(t) == Rec("turn_started", t, t)
ResponseItem(id, t) == Rec("response_item", id, t)
TurnCompleted(t, outcome) == Rec("turn_completed", outcome, t)
AgentMessage(id) == Rec("agent_message", id, "none")
AgentError(message) == Rec("agent_status", message, "none")
Interruption == "interruption"
ToolResult == "tool_result"

Recorded(record) == record \in Range(log)
\* Where a record is in the log; the last place if it is there twice.
Position(record) ==
  CHOOSE i \in DOMAIN log :
    log[i] = record /\ \A j \in DOMAIN log : log[j] = record => j <= i
AtLeast(n, m) == IF n >= m THEN n ELSE m

Idle == turn = NoTurn

\* The place of the last record of some types, 0 if there is none.
LastOf(types, rollout) ==
  SelectLastInSeq(rollout, LAMBDA r : r.type \in types)

\* agentStatusFromStoredThread: the last record that says something of it.
StatusTypes == {"agent_status", "turn_started", "turn_completed"}
StatusOf(r) ==
  IF r.type = "turn_started" THEN "interrupted"
  ELSE IF r.id = "failed" THEN "turn failed" ELSE r.id
AgentStatusOf(rollout) ==
  LET last == LastOf(StatusTypes, rollout)
  IN IF last = 0 THEN "pending_init" ELSE StatusOf(rollout[last])

\* The records of some types in a rollout, but for those with some ids; the
\* proofs expand the recursion.
RecordsOf(types, but, rollout) ==
  LET kept[i \in 0 .. Len(rollout)] ==
        IF i = 0 THEN <<>>
        ELSE IF rollout[i].type \in types /\ rollout[i].id \notin but
        THEN Append(kept[i - 1], rollout[i])
        ELSE kept[i - 1]
  IN kept[Len(rollout)]

\* ContextManager.fromStoredThread: the model-visible part of a rollout.
Conversation == {"response_item", "agent_message"}
ConversationOf(rollout) == RecordsOf(Conversation, {}, rollout)

AgentInputs == {c.id : c \in {d \in Commands : d.source = "agent"}}

\* Mutants: a rebuilt Session forgets the steering it has recorded, or the
\* agent messages.
SubmittedOfTurns(rollout) ==
  {r.turn : r \in {q \in Range(rollout) : q.type = "turn_started"}}
ReceivedOfNothing(rollout) == {}

\* What the constructor finds in a stored rollout.
SubmittedOf(rollout) ==
  {r.id : r \in {q \in Range(rollout) :
                   \/ q.type = "turn_started"
                   \/ q.type = "response_item" /\ q.id \in AgentInputs}}
ReceivedOf(rollout) ==
  {r.id : r \in {q \in Range(rollout) : q.type = "agent_message"}}

\* The constructor: a Session over a stored rollout.
Constructed(rollout) ==
  /\ inbox' = <<>> /\ held' = <<>> /\ mutations' = <<>>
  /\ closing' = FALSE /\ idle' = "none"
  /\ loop' = "receive" /\ current' = NoCommand /\ turn' = NoTurn
  /\ submitted' = SubmittedOf(rollout) /\ received' = ReceivedOf(rollout)
  /\ accepted' = {}
  /\ agentStatus' = AgentStatusOf(rollout)
  /\ history' = ConversationOf(rollout)
  /\ rejected' = FALSE /\ saveFailed' = FALSE

Init ==
  /\ inbox = <<>> /\ held = <<>> /\ mutations = <<>>
  /\ reply = [c \in Commands |-> "unsent"]
  /\ closing = FALSE /\ idle = "none"
  /\ loop = "receive" /\ current = NoCommand /\ turn = NoTurn
  /\ submitted = {} /\ received = {} /\ accepted = {}
  /\ agentStatus = "pending_init" /\ history = <<>>
  /\ log = <<>> /\ disk = 0 /\ synced = 0
  /\ rejected = FALSE /\ saveFailed = FALSE /\ crashes = 0

-----------------------------------------------------------------------------
\* The store.  An append numbers its records at once and resolves or rejects
\* later, or is refused (a staged thread that cannot be materialised) and
\* numbers nothing; a refusal is acted upon in the step of the call.
AppendItems(records) ==
  log' = log \o records /\ UNCHANGED <<disk, synced, saveFailed>>
SaveRejects == SaveFails /\ saveFailed' = TRUE /\ UNCHANGED storeVars

\* A numbered append resolves: its records are in the file.  A rejected one
\* leaves them in the writer's retry buffer.
AppendResolves(record) ==
  /\ disk' = AtLeast(disk, Position(record))
  /\ UNCHANGED <<log, synced, saveFailed>>

\* A flush called when n records were numbered resolves.
FlushResolves(n) ==
  /\ disk' = AtLeast(disk, n)
  /\ synced' = AtLeast(synced, n)
  /\ UNCHANGED <<log, saveFailed>>

-----------------------------------------------------------------------------
\* The endpoints.
LoopEnded == loop \in {"done", "failed"}
Answer(c, answer) == reply' = [reply EXCEPT ![c] = answer]

\* #sendCommand
SendCommand(c) ==
  /\ c.type \notin {"shutdown", "shutdown_if_idle"}
  /\ reply[c] = "unsent"
  /\ \/ /\ idle # "none"
        /\ held' = Append(held, c)
        /\ Answer(c, "sent")
        /\ UNCHANGED inbox
     \/ /\ idle = "none" /\ closing
        /\ Answer(c, "rejected")
        /\ UNCHANGED <<held, inbox>>
     \/ /\ idle = "none" /\ ~closing
        /\ inbox' = Append(inbox, c)
        /\ Answer(c, "sent")
        /\ UNCHANGED held
  /\ UNCHANGED <<closing, idle, loop, current, bodyVars, crashes>>

\* endpoints.shutdown: every caller gets the loop's promise.
Shutdown(c) ==
  /\ c.type = "shutdown"
  /\ reply[c] = "unsent"
  /\ ~LoopEnded
  /\ closing' = TRUE
  /\ inbox' = IF closing THEN inbox ELSE Append(inbox, c)
  /\ Answer(c, "sent")
  /\ UNCHANGED <<held, idle, loop, current, bodyVars, crashes>>

\* endpoints.shutdownIfIdle: callers share one pending request.
ShutdownIfIdle(c) ==
  /\ c.type = "shutdown_if_idle"
  /\ reply[c] = "unsent"
  /\ \/ /\ idle # "none"
        /\ Answer(c, "sent")
        /\ UNCHANGED <<inbox, idle>>
     \/ /\ idle = "none" /\ closing
        /\ Answer(c, "false")
        /\ UNCHANGED <<inbox, idle>>
     \/ /\ idle = "none" /\ ~closing
        /\ idle' = "asked"
        /\ inbox' = Append(inbox, c)
        /\ Answer(c, "sent")
  /\ UNCHANGED <<held, closing, loop, current, bodyVars, crashes>>

\* Mutant: commands held by a shutdown that happened are never answered.
IdleShutdownForgetsHeld ==
  /\ \/ idle = "no"
     \/ idle = "yes" /\ LoopEnded
  /\ idle' = "none"
  /\ held' = <<>>
  /\ inbox' = IF closing THEN inbox ELSE inbox \o held
  /\ reply' = [c \in Commands |->
       IF reply[c] = "sent" /\ c.type = "shutdown_if_idle"
       THEN IF idle = "no" THEN "false" ELSE "true"
       ELSE reply[c]]
  /\ UNCHANGED <<closing, loop, current, bodyVars, crashes>>

\* The shared request settles: its callers are answered and the commands
\* that waited for it are sent again.
IdleShutdownSettles ==
  /\ \/ idle = "no"
     \/ idle = "yes" /\ LoopEnded
  /\ idle' = "none"
  /\ held' = <<>>
  /\ inbox' = IF closing THEN inbox ELSE inbox \o held
  /\ reply' = [c \in Commands |->
       CASE reply[c] = "sent" /\ c.type = "shutdown_if_idle" ->
              IF idle = "no" THEN "false"
              ELSE IF loop = "done" THEN "true" ELSE "rejected"
         [] closing /\ c \in Range(held) -> "rejected"
         [] OTHER -> reply[c]]
  /\ UNCHANGED <<closing, loop, current, bodyVars, crashes>>

-----------------------------------------------------------------------------
\* #runSubmissionLoop and #dispatch.  A command whose handler awaits nothing
\* is received and answered in one step.
Receive(c) ==
  /\ loop = "receive"
  /\ inbox # <<>>
  /\ c = Head(inbox)
  /\ inbox' = Tail(inbox)
  /\ UNCHANGED <<held, crashes>>

\* The loop goes on to the next command.
NextCommand == loop' = "receive" /\ current' = NoCommand
Await(what, c) == loop' = what /\ current' = c

NewTurn(c) ==
  [id |-> c.id, source |-> c.source, type |-> c.type, at |-> "preparing",
   accepting |-> TRUE, finishing |-> FALSE, aborted |-> FALSE,
   pendingStart |-> FALSE, inputRecorded |-> (c.type = "resume_turn"),
   steering |-> <<>>, taken |-> <<>>, seen |-> {}, tool |-> FALSE,
   ahead |-> 0, outcome |-> "none", escalation |-> "none",
   cleanupFailed |-> FALSE]

\* #startTurn
StartTurn(c) ==
  /\ turn' = NewTurn(c)
  /\ submitted' = submitted \cup {c.id}
  /\ agentStatus' = "running"
  /\ rejected' = FALSE
  /\ Answer(c, "started")
  /\ NextCommand
  /\ UNCHANGED <<storeVars, saveFailed>>

\* #recordAgentFailure, called by the loop: nothing is saved when the status
\* already is this error, and a refused append ends it.
RecordAgentFailure(c, message, done) ==
  /\ \/ /\ agentStatus = message
        /\ Answer(c, done) /\ NextCommand
        /\ UNCHANGED <<storeVars, saveFailed>>
     \/ /\ agentStatus # message
        /\ AppendItems(<<AgentError(message)>>)
        /\ Await("saving_failure", c) /\ UNCHANGED reply
     \/ /\ agentStatus # message
        /\ SaveRejects
        /\ Answer(c, "rejected") /\ NextCommand
  /\ UNCHANGED <<turn, submitted, agentStatus, rejected>>

\* #startTurn when createTask throws: the failure is saved before the answer.
CaptureFails(c) == RecordAgentFailure(c, "Task capture failed.", "rejected")

AnswerInput(c, answer) ==
  /\ Answer(c, answer)
  /\ NextCommand
  /\ UNCHANGED <<turn, submitted, agentStatus, rejected, storeVars, saveFailed>>

\* #acceptSteering
AcceptSteering(c) ==
  /\ turn' = [turn EXCEPT !.steering = Append(@, [id |-> c.id, source |-> c.source]),
                          !.seen = @ \cup {c.id}]
  /\ Answer(c, "steered")
  /\ NextCommand
  /\ UNCHANGED <<submitted, agentStatus, rejected, storeVars, saveFailed>>

\* Whether #routeTurnInput may admit c to the active Turn.
MaySteer(c) ==
  /\ c.mode # "start_if_idle"
  /\ turn.accepting /\ ~turn.finishing
  /\ c.mode = "steer" => c.expected = turn.id

\* #routeTurnInput
RouteTurnInput(c) ==
  \/ /\ c.id \in submitted
     /\ AnswerInput(c, IF c.source = "human" THEN "refused" ELSE "replayed")
  \/ /\ c.id \notin submitted
     /\ \/ Idle /\ c.mode = "steer" /\ AnswerInput(c, "refused")
        \/ Idle /\ c.mode # "steer" /\ (StartTurn(c) \/ CaptureFails(c))
        \/ ~Idle /\ ~MaySteer(c) /\ AnswerInput(c, "refused")
        \/ /\ ~Idle /\ MaySteer(c)
           /\ IF c.id \in turn.seen
              THEN AnswerInput(c, IF c.source = "human" THEN "refused"
                                                        ELSE "steered")
              ELSE AcceptSteering(c)

DispatchInput(c) ==
  /\ c.type \in {"turn_input", "compact"}
  /\ Receive(c)
  /\ RouteTurnInput(c)
  /\ UNCHANGED <<closing, idle, mutations, received, accepted, history>>

\* The append and flush of a failure resolve, or one of them rejects.
FailureSaved ==
  /\ loop = "saving_failure"
  /\ LET failAgent == current.type = "fail_agent"
         message == IF failAgent THEN "agent failed" ELSE "Task capture failed."
     IN \/ /\ FlushResolves(Position(AgentError(message)))
           /\ agentStatus' = message
           /\ Answer(current, IF failAgent THEN "done" ELSE "rejected")
        \/ /\ SaveRejects
           /\ Answer(current, "rejected")
           /\ UNCHANGED agentStatus
  /\ NextCommand
  /\ UNCHANGED <<inbox, held, closing, idle, turn, mutations, inputVars,
                 history, rejected, crashes>>

\* resume_turn: an unknown request of an idle Session reads the rollout first.
DispatchResume(c) ==
  /\ c.type = "resume_turn"
  /\ Receive(c)
  /\ \/ c.id \in submitted /\ RouteTurnInput(c)
     \/ c.id \notin submitted /\ ~Idle /\ AnswerInput(c, "refused")
     \/ /\ c.id \notin submitted /\ Idle
        /\ Await("reading", c)
        /\ UNCHANGED <<reply, turn, submitted, agentStatus, rejected, storeVars,
                       saveFailed>>
  /\ UNCHANGED <<closing, idle, mutations, received, accepted, history>>

\* Mutant: any interrupted Turn may be resumed.
ResumableAny(rollout, expected, outcomes) ==
  \E i \in DOMAIN rollout : rollout[i].turn = expected /\ rollout[i].id \in outcomes

\* canResumeTurn of the last stored start and end; whether a failure may be
\* resumed depends on its error.
Resumable(rollout, expected, outcomes) ==
  LET start == LastOf({"turn_started"}, rollout)
      end == LastOf({"turn_completed"}, rollout)
  IN /\ start > 0 /\ end > 0
     /\ rollout[start].turn = expected
     /\ rollout[end].turn = expected
     /\ rollout[end].id \in outcomes
StoredRead ==
  /\ loop = "reading"
  /\ LET stored == SubSeq(log, 1, disk)
     IN \/ Resumable(stored, current.expected, {"interrupted", "failed"})
           /\ RouteTurnInput(current)
        \/ ~Resumable(stored, current.expected, {"interrupted"})
           /\ AnswerInput(current, "refused")
        \/ SaveFails /\ AnswerInput(current, "rejected")
  /\ UNCHANGED <<inbox, held, closing, idle, mutations, received, accepted,
                 history, crashes>>

\* #cancelTask; the escalation timer is armed once.
Cancelled(t) ==
  [t EXCEPT !.accepting = FALSE, !.aborted = TRUE,
            !.escalation = IF @ = "none" /\ ~t.finishing THEN "armed" ELSE @]
InterruptActiveTurn == turn' = IF Idle THEN turn ELSE Cancelled(turn)

DispatchInterrupt(c) ==
  /\ c.type = "interrupt"
  /\ Receive(c)
  /\ IF c.expected # "any" /\ c.expected # turn.id
     THEN Answer(c, "false") /\ UNCHANGED turn
     ELSE Answer(c, "true") /\ InterruptActiveTurn
  /\ UNCHANGED <<closing, idle, loop, current, mutations, inputVars,
                 agentStatus, history, storeVars, rejected, saveFailed>>

StartPending == ~Idle /\ turn.pendingStart

DispatchFailAgent(c) ==
  /\ c.type = "fail_agent"
  /\ Receive(c)
  /\ IF Idle THEN RecordAgentFailure(c, "agent failed", "done")
             ELSE AnswerInput(c, IF StartPending THEN "rejected" ELSE "done")
  /\ UNCHANGED <<closing, idle, mutations, received, accepted, history>>

\* agent_message: the loop waits until the message's mutation has run.
DispatchAgentMessage(c) ==
  /\ c.type = "agent_message"
  /\ Receive(c)
  /\ \/ /\ StartPending
        /\ Answer(c, "rejected") /\ NextCommand
        /\ UNCHANGED mutations
     \/ /\ ~StartPending
        /\ mutations' = Append(mutations,
             [kind |-> "message", id |-> c.id, turn |-> "none", stage |-> "queued"])
        /\ Await("recording_message", c)
        /\ UNCHANGED reply
  /\ UNCHANGED <<closing, idle, turn, inputVars, agentStatus, history,
                 storeVars, rejected, saveFailed>>

\* Mutant: the barrier does not wait for the Turn it interrupts.
DispatchForkBarrierAtOnce(c) ==
  /\ c.type = "fork_barrier"
  /\ Receive(c)
  /\ InterruptActiveTurn
  /\ Await("fork_flushing", c)
  /\ UNCHANGED <<reply, closing, idle, mutations, inputVars, agentStatus,
                 history, storeVars, rejected, saveFailed>>

\* #runForkBarrier: interrupt, wait for the Turn to settle, flush, and let
\* the caller read the snapshot while the loop waits for it.
DispatchForkBarrier(c) ==
  /\ c.type = "fork_barrier"
  /\ Receive(c)
  /\ InterruptActiveTurn
  /\ Await(IF Idle THEN "fork_flushing" ELSE "fork_settling", c)
  /\ UNCHANGED <<reply, closing, idle, mutations, inputVars, agentStatus,
                 history, storeVars, rejected, saveFailed>>

\* Mutant: a Turn counts as settled when it begins to finish.
TurnSettledEarly == ~Idle => turn.finishing

TurnSettled == Idle \/ turn.at = "stuck"

ForkTurnSettled ==
  /\ loop = "fork_settling"
  /\ TurnSettled
  /\ IF rejected \/ ~Idle
     THEN Answer(current, "rejected") /\ NextCommand
     ELSE Await("fork_flushing", current) /\ UNCHANGED reply
  /\ UNCHANGED <<inbox, held, closing, idle, bodyVars, crashes>>

ForkFlushed ==
  /\ loop = "fork_flushing"
  /\ \/ FlushResolves(Len(log)) /\ Await("forking", current) /\ UNCHANGED reply
     \/ SaveFails /\ UNCHANGED <<storeVars, saveFailed>>
        /\ Answer(current, "rejected") /\ NextCommand
  /\ UNCHANGED <<inbox, held, closing, idle, turn, mutations, inputVars,
                 agentStatus, history, rejected, crashes>>

ForkDone ==
  /\ loop = "forking"
  /\ Answer(current, "done") /\ NextCommand
  /\ UNCHANGED <<inbox, held, closing, idle, bodyVars, crashes>>

DispatchShutdownIfIdle(c) ==
  /\ c.type = "shutdown_if_idle"
  /\ Receive(c)
  /\ IF ~Idle \/ closing
     THEN idle' = "no" /\ UNCHANGED <<closing, loop, current>>
     ELSE idle' = "yes" /\ closing' = TRUE /\ Await("settling", NoCommand)
  /\ UNCHANGED <<reply, turn, mutations, inputVars, agentStatus, history,
                 storeVars, rejected, saveFailed>>

DispatchShutdown(c) ==
  /\ c.type = "shutdown"
  /\ Receive(c)
  /\ InterruptActiveTurn
  /\ Await("settling", NoCommand)
  /\ UNCHANGED <<reply, closing, idle, mutations, inputVars, agentStatus,
                 history, storeVars, rejected, saveFailed>>

\* The end of the loop: the Turn settles, services are disposed of, and the
\* rollout is flushed and closed; then the loop's promise settles.
LoopSettled ==
  /\ loop = "settling"
  /\ TurnSettled
  /\ loop' = "disposing"
  /\ UNCHANGED <<inbox, held, reply, closing, idle, current, bodyVars, crashes>>

LoopEnds ==
  /\ loop = "disposing"
  /\ FlushResolves(Len(log)) \/ SaveRejects
  /\ loop' \in IF rejected \/ ~Idle THEN {"failed"} ELSE {"done", "failed"}
  /\ agentStatus' = "shutdown"
  /\ reply' = [c \in Commands |->
       IF c.type = "shutdown" /\ reply[c] = "sent"
       THEN IF loop' = "done" THEN "done" ELSE "rejected"
       ELSE reply[c]]
  /\ UNCHANGED <<inbox, held, closing, idle, current, turn, mutations,
                 inputVars, history, rejected, crashes>>

-----------------------------------------------------------------------------
\* Context mutations: closures run one after the other.  The running one has
\* left stage "queued".
Mutation(kind, id) ==
  [kind |-> kind, id |-> id, turn |-> turn.id, stage |-> "queued"]
Running(m) == mutations # <<>> /\ m = mutations[1]
Stage(stage) == mutations' = [mutations EXCEPT ![1].stage = stage]

\* The running closure ends; finishTurn waits for the ones queued before it.
MutationEnds ==
  /\ mutations' = Tail(mutations)
  /\ turn' = IF ~Idle /\ turn.ahead > 0
             THEN [turn EXCEPT !.ahead = @ - 1] ELSE turn

\* #requireExecution, for a closure of Turn t
Executing(t) == turn.id = t /\ ~turn.finishing /\ ~turn.aborted

\* recordInitialInput, recordConversationItems (steering) and recordToolResult
\* number their records when they run; only tool results are admitted before.
RecordStarts(m) ==
  /\ m.kind # "message"
  /\ Running(m) /\ m.stage = "queued"
  /\ m.kind # "tool" => Executing(m.turn)
  /\ \/ /\ AppendItems(<<ResponseItem(m.id, m.turn)>>)
        /\ Stage("appending")
        /\ turn' = IF m.kind = "input" THEN [turn EXCEPT !.inputRecorded = TRUE]
                                       ELSE turn
     \/ /\ SaveRejects
        /\ Stage(IF m.kind = "input" THEN "resaving" ELSE "refused")
        /\ turn' = IF m.kind = "input" THEN [turn EXCEPT !.inputRecorded = TRUE]
                                       ELSE turn
  /\ history' = IF m.kind = "input"
                THEN Append(history, ResponseItem(m.id, m.turn)) ELSE history
  /\ UNCHANGED <<loopVars, inputVars, agentStatus, rejected, crashes>>

RecordRefused(m) ==
  /\ m.kind \in {"input", "steering"}
  /\ Running(m) /\ m.stage = "queued"
  /\ ~Executing(m.turn)
  /\ MutationEnds
  /\ UNCHANGED <<loopVars, inputVars, agentStatus, history, storeVars,
                 rejected, saveFailed, crashes>>

\* Mutant: the context of a Turn that is finishing is left alone.
RecordEndsUnlessFinishing(m) ==
  /\ m.kind \in {"tool", "steering"}
  /\ Running(m) /\ m.stage \in {"appending", "refused"}
  /\ AppendResolves(ResponseItem(m.id, m.turn))
  /\ history' = IF Executing(m.turn)
                THEN Append(history, ResponseItem(m.id, m.turn)) ELSE history
  /\ MutationEnds
  /\ UNCHANGED <<loopVars, inputVars, agentStatus, rejected, crashes>>

\* The append resolves or its rejection is reported; the context follows.
\* #rememberRecordedInput makes an agent's steering replayable.
RecordEnds(m) ==
  /\ m.kind \in {"tool", "steering"}
  /\ Running(m) /\ m.stage \in {"appending", "refused"}
  /\ \/ m.stage = "appending" /\ AppendResolves(ResponseItem(m.id, m.turn))
     \/ m.stage = "appending" /\ SaveRejects
     \/ m.stage = "refused" /\ UNCHANGED <<storeVars, saveFailed>>
  /\ history' = Append(history, ResponseItem(m.id, m.turn))
  /\ submitted' = IF m.kind = "steering" /\ m.id \in AgentInputs
                  THEN submitted \cup {m.id} ELSE submitted
  /\ MutationEnds
  /\ UNCHANGED <<loopVars, received, accepted, agentStatus, rejected, crashes>>

\* recordInitialInput: after a rejected append it flushes, reads the rollout
\* and appends again only what is not there; in the end it gives up.
InputSaved(m) ==
  /\ m.kind = "input"
  /\ Running(m) /\ m.stage \in {"appending", "resaving"}
  /\ \/ /\ m.stage = "appending"
        /\ AppendResolves(ResponseItem(m.id, m.turn)) \/ SaveRejects
        /\ MutationEnds
     \/ /\ m.stage = "resaving"
        /\ AppendItems(<<ResponseItem(m.id, m.turn)>>)
        /\ Stage("appending") /\ UNCHANGED turn
     \/ m.stage = "resaving" /\ SaveRejects /\ MutationEnds
  /\ UNCHANGED <<loopVars, inputVars, agentStatus, history, rejected, crashes>>

\* #recordAgentMessage.  A message whose append was called stays accepted
\* until a flush has saved it, so that a retry does not append it twice.
MessageStarts(m) ==
  /\ m.kind = "message"
  /\ Running(m) /\ m.stage = "queued"
  /\ m.id \notin received
  /\ IF m.id \in accepted
     THEN Stage("flushing") /\ UNCHANGED <<accepted, history, storeVars, saveFailed>>
     ELSE /\ accepted' = accepted \cup {m.id}
          /\ history' = Append(history, AgentMessage(m.id))
          /\ AppendItems(<<AgentMessage(m.id)>>) \/ SaveRejects
          /\ Stage("flushing")
  /\ UNCHANGED <<loopVars, turn, submitted, received, agentStatus, rejected,
                 crashes>>

MessageAnswered(answer) ==
  /\ Answer(current, answer)
  /\ NextCommand
  /\ MutationEnds
  /\ UNCHANGED <<inbox, held, closing, idle, submitted, agentStatus, history,
                 rejected, crashes>>

MessageKnown(m) ==
  /\ m.kind = "message"
  /\ Running(m) /\ m.stage = "queued"
  /\ m.id \in received
  /\ MessageAnswered("done")
  /\ UNCHANGED <<received, accepted, storeVars, saveFailed>>

\* Mutant: the message is acknowledged when its append resolves.
MessageSavedUnflushed(m) ==
  /\ m.kind = "message"
  /\ Running(m) /\ m.stage = "flushing"
  /\ Recorded(AgentMessage(m.id))
  /\ AppendResolves(AgentMessage(m.id))
  /\ received' = received \cup {m.id}
  /\ accepted' = accepted \ {m.id}
  /\ MessageAnswered("done")

\* The flush resolves: the message is saved if it was numbered.
MessageSaved(m) ==
  /\ m.kind = "message"
  /\ Running(m) /\ m.stage = "flushing"
  /\ Recorded(AgentMessage(m.id))
  /\ FlushResolves(Position(AgentMessage(m.id)))
  /\ received' = received \cup {m.id}
  /\ accepted' = accepted \ {m.id}
  /\ MessageAnswered("done")

\* The flushed rollout does not hold the message: it is appended again.
MessageResaved(m) ==
  /\ m.kind = "message"
  /\ Running(m) /\ m.stage = "flushing"
  /\ ~Recorded(AgentMessage(m.id))
  /\ AppendItems(<<AgentMessage(m.id)>>)
  /\ UNCHANGED <<loopVars, turn, mutations, inputVars, agentStatus, history,
                 rejected, crashes>>

\* One of the steps of saving the message rejects.
MessageFails(m) ==
  /\ m.kind = "message"
  /\ Running(m) /\ m.stage = "flushing"
  /\ SaveRejects
  /\ MessageAnswered("rejected")
  /\ UNCHANGED <<received, accepted>>

MutationStep ==
  \E m \in Range(mutations) :
    \/ RecordStarts(m) \/ RecordRefused(m) \/ RecordEnds(m) \/ InputSaved(m)
    \/ MessageStarts(m) \/ MessageKnown(m) \/ MessageSaved(m)
    \/ MessageResaved(m) \/ MessageFails(m)

-----------------------------------------------------------------------------
\* The task of the active Turn (SessionTask.run, called by #settleTask).
TaskFrame == UNCHANGED <<loopVars, inputVars, rejected, crashes>>
\* What else a step of the task leaves alone: it saves something, queues a
\* mutation, or does neither.
SavesForTurn == UNCHANGED <<mutations, agentStatus, history>> /\ TaskFrame
QueuesForTurn ==
  UNCHANGED <<agentStatus, history, storeVars, saveFailed>> /\ TaskFrame
ChangesTurn == UNCHANGED mutations /\ QueuesForTurn
At(where) == turn.at = where
Goto(where) == turn' = [turn EXCEPT !.at = where]

\* run() returns or throws: an aborted Turn was interrupted whatever it did.
Stopped(t, outcome) ==
  [t EXCEPT !.at = "stopped",
            !.outcome = IF t.aborted THEN "interrupted" ELSE outcome]

\* beginExecution and #recordTurnStart
BeginExecution ==
  /\ At("preparing") /\ ~turn.aborted
  /\ \/ AppendItems(<<TurnStarted(turn.id)>>)
        /\ turn' = [turn EXCEPT !.at = "starting", !.pendingStart = TRUE]
     \/ SaveRejects
        /\ turn' = [turn EXCEPT !.at = "inspecting", !.pendingStart = TRUE]
  /\ SavesForTurn

StartSaved ==
  /\ At("starting")
  /\ AppendResolves(TurnStarted(turn.id))
  /\ turn' = [turn EXCEPT !.at = "running", !.pendingStart = FALSE]
  /\ SavesForTurn

StartRejected ==
  /\ At("starting")
  /\ SaveRejects
  /\ Goto("inspecting")
  /\ SavesForTurn

\* A rejected append is flushed and looked up in the rollout, and appended
\* again only if it is not there.
StartInspected ==
  /\ At("inspecting")
  /\ \/ /\ Recorded(TurnStarted(turn.id))
        /\ FlushResolves(Position(TurnStarted(turn.id)))
        /\ turn' = [turn EXCEPT !.at = "running", !.pendingStart = FALSE]
     \/ /\ ~Recorded(TurnStarted(turn.id))
        /\ AppendItems(<<TurnStarted(turn.id)>>)
        /\ Goto("restarting")
     \/ SaveRejects /\ turn' = Stopped(turn, "failed")
  /\ SavesForTurn

StartRetried ==
  /\ At("restarting")
  /\ \/ /\ AppendResolves(TurnStarted(turn.id))
        /\ turn' = [turn EXCEPT !.at = "running", !.pendingStart = FALSE]
     \/ SaveRejects /\ turn' = Stopped(turn, "failed")
  /\ SavesForTurn

Queued(kind) == \E m \in Range(mutations) : m.turn = turn.id /\ m.kind = kind
Enqueue(ms) == mutations' = mutations \o ms

\* recordInitialInput
RecordInitialInput ==
  /\ At("running") /\ ~turn.aborted
  /\ turn.type = "turn_input" /\ ~turn.inputRecorded /\ ~Queued("input")
  /\ Enqueue(<<Mutation("input", turn.id)>>)
  /\ UNCHANGED turn /\ QueuesForTurn

\* takeSteering
TakeSteering ==
  /\ At("running") /\ ~turn.aborted
  /\ turn.steering # <<>>
  /\ turn' = [turn EXCEPT !.taken = @ \o turn.steering, !.steering = <<>>]
  /\ ChangesTurn

\* recordSteering records one taken input after the other; a prompt hook may
\* decline one.
RecordSteering ==
  /\ At("running") /\ ~turn.aborted
  /\ turn.taken # <<>> /\ turn.inputRecorded /\ ~Queued("steering")
  /\ mutations' \in {mutations,
                     Append(mutations, Mutation("steering", Head(turn.taken).id))}
  /\ turn' = [turn EXCEPT !.taken = Tail(@)]
  /\ QueuesForTurn

\* recordToolResult, admitted until finalization begins
RecordToolResult ==
  /\ turn.at \in {"running", "completing", "stopped"} /\ ~turn.finishing
  /\ turn.type = "turn_input" /\ ~turn.tool /\ turn.inputRecorded
  /\ Enqueue(<<Mutation("tool", ToolResult)>>)
  /\ turn' = [turn EXCEPT !.tool = TRUE]
  /\ QueuesForTurn

\* The turn loop has no work left of its own.
NothingToRecord ==
  turn.taken = <<>> /\ turn.inputRecorded /\ ~Queued("input") /\ ~Queued("steering")

\* Mutant: admission stays open while the Turn completes.
TakeSteeringThenComplete ==
  /\ At("running") /\ ~turn.aborted
  /\ turn.type # "compact" /\ NothingToRecord
  /\ turn.steering = <<>>
  /\ Goto("completing")
  /\ ChangesTurn

\* takeSteeringOrComplete finds no steering: admission ends with the Turn.
TakeSteeringOrComplete ==
  /\ At("running") /\ ~turn.aborted
  /\ turn.type # "compact" /\ NothingToRecord
  /\ turn.steering = <<>>
  /\ turn' = [turn EXCEPT !.at = "completing", !.accepting = FALSE]
  /\ ChangesTurn

TaskReturns ==
  /\ \/ At("completing")
     \/ At("running") /\ turn.type = "compact"
  /\ turn' = Stopped(turn, "completed")
  /\ ChangesTurn

\* The prompt hook declines the initial input: the loop returns at once.
PromptDeclined ==
  /\ At("running") /\ ~turn.aborted
  /\ turn.type = "turn_input" /\ turn.source = "human"
  /\ ~turn.inputRecorded /\ ~Queued("input")
  /\ turn' = Stopped(turn, "completed")
  /\ ChangesTurn

\* The task throws: a model or tool fails, or #requireExecution refuses an
\* aborted Turn; a TaskCleanupError says its resources are not released.
TaskThrows ==
  /\ turn.at \in {"preparing", "running", "completing"}
  /\ \E failed \in {FALSE, CleanupFails} :
       turn' = [Stopped(turn, "failed") EXCEPT !.cleanupFailed = failed]
  /\ ChangesTurn

\* The escalation timer calls definition.abort, which ends or fails.
EscalationFires ==
  /\ ~Idle /\ turn.escalation = "armed"
  /\ turn' = [turn EXCEPT !.escalation = "aborting"]
  /\ ChangesTurn
EscalationEnds ==
  /\ ~Idle /\ turn.escalation = "aborting"
  /\ \E failed \in {FALSE, CleanupFails} :
       turn' = [turn EXCEPT !.escalation = "ended",
                            !.cleanupFailed = @ \/ failed]
  /\ ChangesTurn

\* Mutants: the terminal is appended while admitted mutations are pending; an
\* armed escalation timer is waited for instead of cleared.
TaskSettledEarly ==
  /\ At("stopped") /\ turn.escalation # "aborting"
  /\ turn' = [turn EXCEPT !.accepting = FALSE, !.finishing = TRUE,
       !.at = CASE turn.cleanupFailed -> "stuck"
                [] turn.pendingStart -> "failing"
                [] OTHER -> "draining"]
  /\ agentStatus' = IF turn.cleanupFailed THEN "cleanup failed" ELSE agentStatus
  /\ UNCHANGED <<mutations, history, storeVars, saveFailed>> /\ TaskFrame
TaskSettledAfterTimer ==
  At("stopped") /\ turn.escalation # "armed" /\ TaskSettledEarly

\* The end of #settleTask, #onTaskSettled and the beginning of #finishTurn.
TaskSettled ==
  /\ At("stopped") /\ turn.escalation # "aborting"
  /\ turn' = [turn EXCEPT !.accepting = FALSE, !.finishing = TRUE,
       !.pendingStart = @ /\ turn.cleanupFailed, !.ahead = Len(mutations),
       !.escalation = IF @ = "armed" THEN "ended" ELSE @,
       !.at = CASE turn.cleanupFailed -> "stuck"
                [] turn.pendingStart -> "failing"
                [] OTHER -> "draining"]
  /\ agentStatus' = IF turn.cleanupFailed THEN "cleanup failed" ELSE agentStatus
  /\ UNCHANGED <<mutations, history, storeVars, saveFailed>> /\ TaskFrame

ReleaseTurn == turn' = NoTurn

\* A Turn whose start was never saved ends with an agent status only.
StartFailed ==
  /\ At("failing") /\ turn.ahead = 0
  /\ \/ /\ AppendItems(<<AgentError("Turn persistence failed.")>>)
        /\ Goto("failed")
        /\ UNCHANGED rejected
     \/ SaveRejects /\ ReleaseTurn /\ rejected' = TRUE
  /\ UNCHANGED <<loopVars, mutations, inputVars, agentStatus, history, crashes>>

StartFailureSaved ==
  /\ At("failed")
  /\ \/ /\ FlushResolves(Position(AgentError("Turn persistence failed.")))
        /\ agentStatus' = "Turn persistence failed."
        /\ UNCHANGED rejected
     \/ SaveRejects /\ rejected' = TRUE /\ UNCHANGED agentStatus
  /\ ReleaseTurn
  /\ UNCHANGED <<loopVars, mutations, inputVars, history, crashes>>

\* #finishTurn: the mutations queued before it have run, and the terminal
\* records are appended.
TerminalRecords ==
  (IF turn.outcome = "interrupted"
   THEN <<ResponseItem(Interruption, turn.id)>> ELSE <<>>)
    \o <<TurnCompleted(turn.id, turn.outcome)>>
AppendTerminal ==
  /\ At("draining") /\ turn.ahead = 0
  /\ AppendItems(TerminalRecords) \/ SaveRejects
  /\ Goto("terminating")
  /\ SavesForTurn

TerminalSaved ==
  /\ At("terminating")
  /\ \/ /\ Recorded(TurnCompleted(turn.id, turn.outcome))
        /\ AppendResolves(TurnCompleted(turn.id, turn.outcome))
     \/ SaveRejects
  /\ history' = IF turn.outcome = "interrupted"
                THEN Append(history, ResponseItem(Interruption, turn.id))
                ELSE history
  /\ Goto("flushing")
  /\ UNCHANGED <<mutations, agentStatus>> /\ TaskFrame

\* Mutant: an interrupted Turn leaves the status as it is.
TerminalFlushedSilently ==
  /\ At("flushing")
  /\ FlushResolves(IF Recorded(TurnCompleted(turn.id, turn.outcome))
                   THEN Position(TurnCompleted(turn.id, turn.outcome)) ELSE 0)
  /\ agentStatus' = CASE turn.outcome = "failed" -> "turn failed"
                      [] turn.outcome = "interrupted" -> agentStatus
                      [] OTHER -> turn.outcome
  /\ ReleaseTurn
  /\ UNCHANGED <<mutations, history>> /\ TaskFrame

TerminalFlushed ==
  /\ At("flushing")
  /\ \/ FlushResolves(IF Recorded(TurnCompleted(turn.id, turn.outcome))
                      THEN Position(TurnCompleted(turn.id, turn.outcome)) ELSE 0)
     \/ SaveRejects
  /\ agentStatus' = IF turn.outcome = "failed" THEN "turn failed" ELSE turn.outcome
  /\ ReleaseTurn
  /\ UNCHANGED <<mutations, history>> /\ TaskFrame

TaskStep ==
  \/ BeginExecution \/ StartSaved \/ StartRejected \/ StartInspected
  \/ StartRetried \/ RecordInitialInput \/ TakeSteering \/ RecordSteering
  \/ RecordToolResult \/ TakeSteeringOrComplete \/ TaskReturns
  \/ PromptDeclined \/ TaskThrows
SettleStep ==
  \/ TaskSettled \/ StartFailed \/ StartFailureSaved
  \/ AppendTerminal \/ TerminalSaved \/ TerminalFlushed
EscalationStep == EscalationFires \/ EscalationEnds

-----------------------------------------------------------------------------
\* The scripts that the execution so far may be following.
Followed ==
  {script \in Scripts :
     /\ {c \in Commands : reply[c] # "unsent"} \subseteq script.commands
     /\ crashes <= script.crashes}

\* The process dies; the file keeps what a flush promised, and perhaps more.
\* A new Session is built from it, and callers without an answer may retry.
Crash ==
  /\ \E script \in Followed : crashes < script.crashes
  /\ crashes' = crashes + 1
  /\ \E n \in synced .. Len(log) :
       /\ log' = SubSeq(log, 1, n)
       /\ disk' = n
       /\ UNCHANGED synced
       /\ Constructed(log')
  /\ reply' = [c \in Commands |-> IF reply[c] = "sent" THEN "unsent" ELSE reply[c]]

LoopStep ==
  \/ \E c \in Commands :
       \/ DispatchInput(c) \/ DispatchResume(c) \/ DispatchInterrupt(c)
       \/ DispatchFailAgent(c) \/ DispatchAgentMessage(c)
       \/ DispatchForkBarrier(c) \/ DispatchShutdownIfIdle(c)
       \/ DispatchShutdown(c)
  \/ FailureSaved \/ StoredRead \/ ForkTurnSettled \/ ForkFlushed \/ ForkDone
  \/ LoopSettled \/ LoopEnds

CallerStep ==
  \E c \in Commands :
    /\ \E script \in Followed : c \in script.commands
    /\ (SendCommand(c) \/ Shutdown(c) \/ ShutdownIfIdle(c))

Next ==
  \/ CallerStep \/ IdleShutdownSettles \/ LoopStep \/ MutationStep
  \/ TaskStep \/ SettleStep \/ EscalationStep \/ Crash

Spec == Init /\ [][Next]_vars

\* The event loop runs what is ready: the loop, the mutations, the steps of
\* a settled task and the escalation.  A task is only assumed to stop once
\* it is aborted: the model and the tools honour the signal or the
\* escalation, while a Turn that nobody interrupts may run for ever.
Fairness ==
  /\ WF_vars(LoopStep) /\ WF_vars(IdleShutdownSettles)
  /\ WF_vars(MutationStep) /\ WF_vars(SettleStep) /\ WF_vars(EscalationEnds)
  /\ WF_vars(~Idle /\ turn.aborted /\ TaskStep)
FairSpec == Spec /\ Fairness
-----------------------------------------------------------------------------
\* Properties.

\* From its turn_started on, the records of a Turn are contiguous but for
\* agent messages and statuses, and turn_completed is the last one, whatever
\* the task still writes while it is being stopped (#finishTurn waits for the
\* mutations admitted before it, #requireExecution refuses later ones).
\* Before it there are at most the terminals of attempts that never began.
TurnsAreBracketed ==
  \A s, k \in DOMAIN log :
    log[s].type = "turn_started" /\ log[k].turn = log[s].turn /\ k # s =>
      IF k < s THEN log[k].type = "turn_completed" \/ log[k].id = Interruption
      ELSE /\ log[k].type # "turn_started"
           /\ \A j \in s .. k - 1 : /\ log[j].turn \in {log[s].turn, "none"}
                                    /\ log[j].type # "turn_completed"

\* A Turn that completes has consumed the steering it accepted: the input of
\* a sender who was answered "steered" is not left in #activeTurn.steering.
SteeringConsumed ==
  ~Idle /\ turn.outcome = "completed" =>
    turn.steering = <<>> /\ turn.taken = <<>>

\* An agent's input is executed at most once, as a Turn of its own or as
\* recorded steering, across retries, crashes and reconstruction.
Executions(id) ==
  {i \in DOMAIN log : \/ log[i] = TurnStarted(id)
                      \/ log[i].type = "response_item" /\ log[i].id = id
                         /\ log[i].turn # id}
ExecutedOnce == \A id \in AgentInputs : Cardinality(Executions(id)) <= 1

\* An agent message is in the rollout at most once, whatever saves fail and
\* however often its sender retries, also after a crash.
MessageOnce ==
  \A i, j \in DOMAIN log :
    log[i].type = "agent_message" /\ log[i] = log[j] => i = j

\* A sender who is told that its message was received finds it behind the
\* persistence barrier, and so after any crash.
AcknowledgedMessageSaved ==
  \A c \in Commands : c.type = "agent_message" /\ reply[c] = "done" =>
    \E i \in 1 .. synced : log[i] = AgentMessage(c.id)

\* Between Turns the status that listeners see is the one a Session rebuilt
\* from the rollout would have, unless a save has failed.
StatusSurvivesReload ==
  Idle /\ ~saveFailed /\ loop # "saving_failure" /\ ~LoopEnded =>
    agentStatus = AgentStatusOf(log)

\* Between Turns the model's history and the rollout agree on the order of
\* everything that goes through the mutation queue.
QueueOrdered(records) == RecordsOf(Conversation, {Interruption}, records)
HistoryFollowsRollout ==
  Idle /\ mutations = <<>> /\ ~saveFailed =>
    QueueOrdered(history) = QueueOrdered(ConversationOf(log))

\* A continuation follows the Turn it resumes: no other Turn has ended in
\* between, although the loop awaits a read before it starts.
ResumesLastTurn ==
  \A c \in Commands : c.type = "resume_turn" =>
    \A i \in DOMAIN log : log[i] = TurnStarted(c.id) =>
      LET before == SubSeq(log, 1, i - 1)
          end == LastOf({"turn_completed"}, before)
      IN end > 0 /\ before[end].turn = c.expected

\* While a fork barrier flushes and its caller reads the snapshot, nothing is
\* written and no Turn or mutation runs.
Quiescent == Idle /\ UNCHANGED <<turn, log, history>>
ForkSeesQuiescence ==
  [][(loop \in {"fork_flushing", "forking"}) => (Crash \/ Quiescent)]_vars

\* Once the loop has waited for the last Turn nothing writes any more, so the
\* services can be disposed of and the writer closed; a Turn whose resources
\* could not be released is the exception.
NothingAfterSettling ==
  [][(loop = "disposing" \/ LoopEnded) =>
       (Crash \/ turn.at = "stuck" \/ Quiescent)]_vars

\* Every command that was sent is answered, also when the Session shuts down
\* or the active Turn cannot be stopped cleanly.  A command is sent once, so
\* this is the same as: from time to time nobody waits.
AllAnswered == []<>(\A c \in Commands : reply[c] # "sent")

\* An interrupted Turn is released, or its Session reports that its resources
\* are still held.
InterruptSettles == (~Idle /\ turn.aborted) ~> (Idle \/ turn.at = "stuck")
=============================================================================
