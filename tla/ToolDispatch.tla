---------------------------- MODULE ToolDispatch -----------------------------
(***************************************************************************)
(* The tool calls of one turn (startCalls in src/src/runtime/turn-loop.ts; *)
(* executeToolCalls and executePreparedTool in tool-execution.ts), on top  *)
(* of the Session's ToolGate.                                              *)
(*                                                                         *)
(* While the model still streams, each output item that holds calls starts *)
(* a batch.  A batch prepares its calls (hooks, approval requirement),     *)
(* records that each one started, reserves their places in the gate and    *)
(* lets them run; it then commits the results one by one in call order and *)
(* waits for every call before it ends, with or without an error.  Two     *)
(* chains order the batches: a batch is prepared when the one before it    *)
(* holds its reservations (or has ended), and its results are committed    *)
(* when the one before it has ended.                                       *)
(*                                                                         *)
(* A turn whose signal is aborted starts nothing more, but drains what     *)
(* runs and records its results.  The turn ends when the stream and every  *)
(* batch have ended.                                                       *)
(*                                                                         *)
(* Calls are numbered in the order of the model.  What the tools do, the   *)
(* content of results, composed tools (which run their children behind a   *)
(* gate of their own) and the model loop around the batches are left out.  *)
(***************************************************************************)
EXTENDS ToolGate

CONSTANTS
  Preparations, \* what preparing a call may find
  Failures      \* "start", "result": what recording may fail at

ASSUME FailuresAssumption == Failures \subseteq {"start", "result"}

VARIABLES
  batches,      \* the batches started: a sequence of records
  prepared,     \* [Waiters -> {"none"} \union Preparations]
  task,         \* [Waiters -> Tasks]: executePreparedTool of each call
  log,          \* what the turn recorded: <<"started", c>> and <<"result", c>>
  streaming,    \* the model response has not ended
  over          \* the turn has settled

turnVars == <<batches, prepared, task, log, streaming, over>>
vars == <<gateVars, turnVars>>

Call == Waiters

(***************************************************************************)
(* open: may run; asks: needs a permission; blocked: refused by a hook;    *)
(* broken: preparing it failed.                                            *)
(***************************************************************************)
ASSUME PreparationsAssumption ==
  Preparations \subseteq {"open", "asks", "blocked", "broken"}

(***************************************************************************)
(* idle: not begun; asking: waits for the permission; readying: waits for  *)
(* the tool to be available; gated: waits for run() of its reservation;    *)
(* returned: the tool gave a result; refused: a result made up by the      *)
(* runtime (denied, blocked, failed); rejected: an error of the batch.     *)
(***************************************************************************)
Tasks == {"idle", "asking", "readying", "gated",
          "returned", "refused", "rejected"}

Settled(c) == task[c] \in {"returned", "refused", "rejected"}

(***************************************************************************)
(* The phases of a batch: queued behind the batch before it; recording     *)
(* that its calls start; reserving, then launching its calls; running;     *)
(* draining what still runs; done or failed.  `at` is the call it works    *)
(* on.                                                                     *)
(***************************************************************************)
Phases == {"queued", "recording", "reserving", "launching", "running",
           "draining", "done", "failed"}
Ended(b) == batches[b].phase \in {"done", "failed"}
CallsOf(b) == batches[b].first .. batches[b].last
BatchOf(c) == CHOOSE b \in DOMAIN batches : c \in CallsOf(b)
Dispatched == IF batches = <<>> THEN 0 ELSE batches[Len(batches)].last

stopped == aborted # {}

\* executeToolCalls reserves and launches its calls without giving up control.
Busy == \E b \in DOMAIN batches :
          \/ batches[b].phase = "launching"
          \/ batches[b].phase = "reserving" /\ batches[b].at > batches[b].first
Free == Quiet /\ ~Busy

DispatchInit ==
  /\ Init
  /\ batches = <<>>
  /\ prepared = [c \in Call |-> "none"]
  /\ task = [c \in Call |-> "idle"]
  /\ log = <<>>
  /\ streaming = TRUE
  /\ over = FALSE

At(b, phase) == b \in DOMAIN batches /\ batches[b].phase = phase
Enter(b, phase) ==
  batches' = [batches EXCEPT ![b].phase = phase, ![b].at = batches[b].first]
\* The batch turns to its next call, or after the last one to the next phase.
Advance(b, phase) ==
  IF batches[b].at = batches[b].last
  THEN Enter(b, phase)
  ELSE batches' = [batches EXCEPT ![b].at = @ + 1]
Settle(c, t) == task' = [task EXCEPT ![c] = t]

-----------------------------------------------------------------------------
\* startCalls: the next calls of the response form a batch.
StartCalls(last) ==
  /\ Free
  /\ streaming
  /\ last \in Call
  /\ Dispatched < last
  /\ batches' = Append(batches,
       [first |-> Dispatched + 1, last |-> last, at |-> Dispatched + 1,
        phase |-> "queued", failed |-> FALSE])
  /\ UNCHANGED <<gateVars, prepared, task, log, streaming, over>>

\* The response is complete, fails or is abandoned.
EndStream ==
  /\ Free
  /\ streaming
  /\ streaming' = FALSE
  /\ UNCHANGED <<gateVars, batches, prepared, task, log, over>>

\* Mutant: a batch that fails before it reserves never lets the next one start.
Scheduled_OnlyReserved(b) ==
  b > 1 => batches[b - 1].phase \in {"running", "draining", "done"}

(***************************************************************************)
(* previousSchedule: the batch before this one holds its reservations, or  *)
(* has ended without.                                                      *)
(***************************************************************************)
Scheduled(b) ==
  b > 1 => batches[b - 1].phase \in {"running", "draining", "done", "failed"}

\* The calls of a batch are prepared, each on its own.
Prepare(b) ==
  /\ Free
  /\ At(b, "queued")
  /\ Scheduled(b)
  /\ \E found \in [CallsOf(b) -> Preparations] :
       prepared' = [c \in Call |->
         IF c \in CallsOf(b) THEN found[c] ELSE prepared[c]]
  /\ Enter(b, "recording")
  /\ UNCHANGED <<gateVars, task, log, streaming, over>>

(***************************************************************************)
(* recordToolStarted of the next call.  It refuses an aborted turn before  *)
(* and after the append, so that the record may be written and the batch   *)
(* fail all the same; nothing has been reserved by then.                   *)
(***************************************************************************)
RecordStarted(b) ==
  /\ Free
  /\ At(b, "recording")
  /\ \/ /\ ~stopped
        /\ log' = Append(log, <<"started", batches[b].at>>)
        /\ Advance(b, "reserving")
     \/ /\ stopped
        /\ log' = Append(log, <<"started", batches[b].at>>)
        /\ Enter(b, "failed")
     \/ /\ stopped \/ "start" \in Failures
        /\ Enter(b, "failed")
        /\ UNCHANGED log
  /\ UNCHANGED <<gateVars, prepared, task, streaming, over>>

\* The calls reserve their places, in call order.
ReserveNext(b) ==
  /\ At(b, "reserving")
  /\ Busy => batches[b].at > batches[b].first
  /\ Reserve(batches[b].at)
  /\ Advance(b, "launching")
  /\ UNCHANGED <<prepared, task, log, streaming, over>>

\* Mutant: a call that does not run keeps its reservation.
GiveBack_Forgotten(c) == UNCHANGED gateVars

\* reservation.cancel(): nothing happens if an abort has cancelled it.
GiveBack(c) ==
  \/ Cancel(c)
  \/ state[c] = "cancelled" /\ UNCHANGED gateVars

\* What executePreparedTool makes of an error: an aborted turn rejects.
Failed == IF stopped THEN "rejected" ELSE "refused"

(***************************************************************************)
(* The synchronous beginning of executePreparedTool: a call that will not  *)
(* run gives its place back, the others start to wait.                     *)
(***************************************************************************)
LaunchNext(b) ==
  /\ At(b, "launching")
  /\ Quiet
  /\ LET c == batches[b].at IN
       \/ prepared[c] = "broken" /\ GiveBack(c) /\ Settle(c, Failed)
       \/ prepared[c] = "blocked" /\ GiveBack(c) /\ Settle(c, "refused")
       \/ prepared[c] = "asks" /\ Settle(c, "asking") /\ UNCHANGED gateVars
       \/ prepared[c] = "open" /\ Settle(c, "readying") /\ UNCHANGED gateVars
  /\ Advance(b, "running")
  /\ UNCHANGED <<prepared, log, streaming, over>>

-----------------------------------------------------------------------------
\* The permission is granted.
Allow(c) ==
  /\ Free
  /\ task[c] = "asking"
  /\ Settle(c, "readying")
  /\ UNCHANGED <<gateVars, batches, prepared, log, streaming, over>>

\* It is denied, times out or is given up by the abort; or asking fails.
Deny(c) ==
  /\ Free
  /\ task[c] = "asking"
  /\ GiveBack(c)
  /\ task' \in {[task EXCEPT ![c] = "refused"], [task EXCEPT ![c] = Failed]}
  /\ UNCHANGED <<batches, prepared, log, streaming, over>>

\* The tool is available: the reservation is run.
RunCall(c) ==
  /\ Free
  /\ task[c] = "readying"
  /\ Run(c)
  /\ Settle(c, "gated")
  /\ UNCHANGED <<batches, prepared, log, streaming, over>>

\* The tool does not become available, or the wait is aborted.
NotReady(c) ==
  /\ Free
  /\ task[c] = "readying"
  /\ GiveBack(c)
  /\ Settle(c, Failed)
  /\ UNCHANGED <<batches, prepared, log, streaming, over>>

\* run() rejects because an abort has cancelled the waiter.
RunRejected(c) ==
  /\ Free
  /\ task[c] = "gated"
  /\ state[c] = "cancelled"
  /\ Settle(c, "rejected")
  /\ UNCHANGED <<gateVars, batches, prepared, log, streaming, over>>

BeginCall(c) == Free /\ Begin(c) /\ UNCHANGED turnVars

\* The tool returns, fails, or reports an abort or a failed clean-up.
EndCall(c) ==
  /\ Free
  /\ End(c)
  /\ \E t \in {"returned", Failed, "rejected"} : Settle(c, t)
  /\ UNCHANGED <<batches, prepared, log, streaming, over>>

ReleaseCall(c) == Free /\ Release(c) /\ UNCHANGED turnVars

-----------------------------------------------------------------------------
\* previousResults: the batch before this one has ended.  Mutant: it is not
\* awaited.
PreviousDrained_Skipped(b) == TRUE
PreviousDrained(b) == b > 1 => Ended(b - 1)

\* A rejected call fails its batch, which goes on to the next call.  Mutant:
\* the error is thrown at once.
PassOver_Throw(b) ==
  batches' = [batches EXCEPT ![b].failed = TRUE, ![b].phase = "draining"]
PassOver(b) ==
  IF batches[b].at = batches[b].last
  THEN batches' = [batches EXCEPT ![b].failed = TRUE, ![b].phase = "draining"]
  ELSE batches' = [batches EXCEPT ![b].failed = TRUE, ![b].at = @ + 1]

(***************************************************************************)
(* The next result of a batch.  A rejected call fails the batch and is     *)
(* passed over.  A result waits for the batch before this one to end and   *)
(* is recorded; if that fails, the batch only drains.                      *)
(***************************************************************************)
Commit(b) ==
  /\ Free
  /\ At(b, "running")
  /\ LET c == batches[b].at IN
       \/ /\ task[c] = "rejected"
          /\ PassOver(b)
          /\ UNCHANGED log
       \/ /\ task[c] \in {"returned", "refused"}
          /\ PreviousDrained(b)
          /\ \/ /\ log' = Append(log, <<"result", c>>)
                /\ Advance(b, "draining")
             \/ /\ "result" \in Failures
                /\ batches' = [batches EXCEPT ![b].failed = TRUE,
                                              ![b].phase = "draining"]
                /\ UNCHANGED log
  /\ UNCHANGED <<gateVars, prepared, task, streaming, over>>

\* Every call of the batch has settled: the batch ends.
BatchEnds(b) ==
  /\ Free
  /\ At(b, "draining")
  /\ \A c \in CallsOf(b) : Settled(c)
  /\ Enter(b, IF batches[b].failed THEN "failed" ELSE "done")
  /\ UNCHANGED <<gateVars, prepared, task, log, streaming, over>>

\* The turn has waited for every batch.
TurnEnds ==
  /\ Free
  /\ ~streaming
  /\ ~over
  /\ \A b \in DOMAIN batches : Ended(b)
  /\ over' = TRUE
  /\ UNCHANGED <<gateVars, batches, prepared, task, log, streaming>>

\* The turn is interrupted.
Stop == Free /\ ~over /\ \E s \in Signals : Abort(s) /\ UNCHANGED turnVars

\* The loops inside the gate.
GateLoop == (Admit \/ \E c \in Call : OnAbort(c)) /\ UNCHANGED turnVars

CallStep(c) ==
  \/ Allow(c) \/ Deny(c) \/ RunCall(c) \/ NotReady(c) \/ RunRejected(c)
  \/ BeginCall(c) \/ EndCall(c) \/ ReleaseCall(c)

BatchStep(b) ==
  \/ Prepare(b) \/ RecordStarted(b) \/ ReserveNext(b) \/ LaunchNext(b)
  \/ Commit(b) \/ BatchEnds(b)

DispatchNext ==
  \/ \E c \in Call : StartCalls(c) \/ CallStep(c)
  \/ \E b \in DOMAIN batches : BatchStep(b)
  \/ EndStream \/ TurnEnds \/ Stop \/ GateLoop

DispatchSpec == DispatchInit /\ [][DispatchNext]_vars

(***************************************************************************)
(* The microtasks and promise chains run.  Only when the turn is stopped   *)
(* is it certain that a permission, a readiness or a tool comes to an end: *)
(* each of them watches the signal or ends by itself, but nothing bounds a *)
(* tool of a turn that goes on.                                            *)
(***************************************************************************)
TurnFairness ==
  /\ WF_vars(GateLoop)
  /\ WF_vars(TurnEnds)
  /\ \A b \in Call : WF_vars(BatchStep(b))
  /\ \A c \in Call :
       /\ WF_vars(RunRejected(c) \/ BeginCall(c) \/ ReleaseCall(c))
       /\ WF_vars(stopped /\ CallStep(c))

FairDispatchSpec == DispatchSpec /\ TurnFairness

-----------------------------------------------------------------------------
Logged(kind) == {c \in Call : \E i \in DOMAIN log : log[i] = <<kind, c>>}

(***************************************************************************)
(* Results are recorded in the order of the calls and each at most once,   *)
(* although the calls run and settle in any order and in parallel.  Only a *)
(* failed batch breaks the chain: the batch behind it no longer waits for  *)
(* the ones before it.                                                     *)
(***************************************************************************)
ResultsInCallOrder ==
  /\ \A i, j \in DOMAIN log : i < j => log[i] # log[j]
  /\ \A i, j \in DOMAIN log :
       i < j /\ log[i][1] = "result" /\ log[j][1] = "result"
             /\ log[j][2] < log[i][2] =>
         \E b \in DOMAIN batches :
           /\ BatchOf(log[j][2]) < b /\ b < BatchOf(log[i][2])
           /\ batches[b].phase = "failed"

(***************************************************************************)
(* When the turn settles, none of its tools runs or waits for the gate,    *)
(* however the batches failed: the gate, shared with the turns to come, is *)
(* empty but for results about to release it.                              *)
(***************************************************************************)
NothingOutlivesTurn ==
  over => /\ queue = <<>>
          /\ \A c \in Call : state[c] \notin {"admitted", "running"}

(***************************************************************************)
(* The result a tool returned is recorded before the turn settles, even    *)
(* when the turn was aborted or another call or batch failed (unless       *)
(* recording results fails).                                               *)
(***************************************************************************)
EffectsRecorded ==
  over => \A c \in Call : task[c] = "returned" => c \in Logged("result")

\* An interrupted turn whose stream has ended settles.
InterruptedTurnSettles == (stopped /\ ~streaming) ~> over

(***************************************************************************)
(* "Cancellation stops new work" (src/src/core/session.ts:1464): no tool   *)
(* is admitted under an aborted signal.  The code does admit one: the      *)
(* abort listener of the first waiter drains the queue, and the waiter     *)
(* behind it is admitted before its own listener is called.                *)
(***************************************************************************)
CancellationStopsNewWork ==
  [][\A c \in Call : state[c] # "admitted" /\ state'[c] = "admitted" =>
                       signal[c] \notin aborted]_vars

=============================================================================
