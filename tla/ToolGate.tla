------------------------------ MODULE ToolGate -------------------------------
(***************************************************************************)
(* The gate every tool execution of a Session passes through               *)
(* (src/src/runtime/tool-execution-gate.ts): a queue of reservations, a    *)
(* count of active parallel tools and a flag for an active exclusive one.  *)
(*                                                                         *)
(* A reservation takes its place in the queue before the call is ready to  *)
(* run (it may still wait for a permission), so a slow head holds back     *)
(* everything behind it until it runs, is cancelled or is aborted.         *)
(*                                                                         *)
(* JavaScript runs a function to its end before anything else happens.     *)
(* Two functions here do several things in one go and are split into       *)
(* steps that nothing else may interrupt (Quiet is a guard of every other  *)
(* action):                                                                *)
(*   - drain() admits waiters from the head of the queue for as long as    *)
(*     the head may be admitted: `draining` says it has not returned.  The *)
(*     code admits one exclusive waiter or a run of ready parallel ones;   *)
(*     since an admitted exclusive waiter stops everything and an admitted *)
(*     parallel one stops an exclusive head, that is the same as admitting *)
(*     the head again and again;                                           *)
(*   - aborting a signal calls the abort listener of each of its waiting   *)
(*     reservations, in the order they were registered: `listeners` holds  *)
(*     those not yet called.  A listener that is removed while the others  *)
(*     are called (its waiter was just admitted) is not called.            *)
(*                                                                         *)
(* Waiters are numbered in the order they reserve (some may never do).     *)
(* The `cancelled` flag and the queue agree (a cancelled waiter leaves the *)
(* queue at once), so the code's loops over cancelled heads never find one *)
(* and are left out.                                                       *)
(***************************************************************************)
EXTENDS Integers, Sequences, FiniteSets, SequencesExt

CONSTANTS
  N,            \* number of reservations made
  Signals       \* abort signals the reservations are made under

ASSUME NAssumption == N \in Nat

Waiters == 1..N

VARIABLES
  mode,             \* [Waiters -> {"parallel", "exclusive"}]
  signal,           \* [Waiters -> Signals]
  state,            \* [Waiters -> States], see below
  queue,            \* the reservations not admitted nor cancelled, in order
  activeReaders,    \* parallel tools admitted and not released
  activeWriter,     \* an exclusive tool is admitted and not released
  draining,         \* drain() is running and can admit the head
  aborted,          \* the signals that were aborted
  listeners         \* waiters whose abort listener is still to be called

rigid == <<mode, signal>>
counters == <<activeReaders, activeWriter>>
gateVars == <<mode, signal, state, queue, activeReaders, activeWriter,
              draining, aborted, listeners>>

(***************************************************************************)
(* none: not reserved; waiting: reserved; ready: run() was called;         *)
(* admitted: holds the gate, its operation is scheduled as a microtask;    *)
(* running: the operation runs; settled: the operation has a result and    *)
(* the gate is about to be released; released; cancelled.                  *)
(***************************************************************************)
States == {"none", "waiting", "ready", "admitted", "running", "settled",
           "released", "cancelled"}
InQueue == {c \in Waiters : state[c] \in {"waiting", "ready"}}
Holding == {c \in Waiters : state[c] \in {"admitted", "running", "settled"}}

\* The waiter is spliced out of the queue.
LeaveQueue(c) == \E i \in DOMAIN queue :
                   queue[i] = c /\ queue' = RemoveAt(queue, i)

-----------------------------------------------------------------------------
\* Mutant: an exclusive head does not wait for the active parallel tools.
CanAdmit_IgnoreReaders ==
  /\ ~activeWriter
  /\ queue # <<>>
  /\ state[Head(queue)] = "ready"

\* The head of the queue may be admitted: the test drain() makes.
CanAdmit ==
  /\ ~activeWriter
  /\ queue # <<>>
  /\ state[Head(queue)] = "ready"
  /\ mode[Head(queue)] = "exclusive" => activeReaders = 0

\* The last thing of an action that calls drain().
Drain == draining' = CanAdmit'

Quiet == ~draining /\ listeners = {}

Init ==
  /\ mode \in [Waiters -> {"parallel", "exclusive"}]
  /\ signal \in [Waiters -> Signals]
  /\ state = [c \in Waiters |-> "none"]
  /\ queue = <<>>
  /\ activeReaders = 0
  /\ activeWriter = FALSE
  /\ draining = FALSE
  /\ aborted = {}
  /\ listeners = {}

\* Mutant: a new reservation takes the head of the queue.
Reserve_AtHead(c) ==
  /\ Quiet
  /\ state[c] = "none"
  /\ state' = [state EXCEPT ![c] = "waiting"]
  /\ queue' = <<c>> \o queue
  /\ UNCHANGED <<rigid, counters, draining, aborted, listeners>>

(***************************************************************************)
(* reserve(): a reservation made under an aborted signal is cancelled from *)
(* the start and never enters the queue.                                   *)
(***************************************************************************)
Reserve(c) ==
  /\ Quiet
  /\ state[c] = "none"
  /\ \/ /\ signal[c] \in aborted
        /\ state' = [state EXCEPT ![c] = "cancelled"]
        /\ UNCHANGED queue
     \/ /\ signal[c] \notin aborted
        /\ state' = [state EXCEPT ![c] = "waiting"]
        /\ queue' = Append(queue, c)
  /\ UNCHANGED <<rigid, counters, draining, aborted, listeners>>

\* run() of a reservation that was not cancelled.  On a cancelled one it only
\* rejects.
Run(c) ==
  /\ Quiet
  /\ state[c] = "waiting"
  /\ state' = [state EXCEPT ![c] = "ready"]
  /\ UNCHANGED <<rigid, queue, counters, aborted, listeners>>
  /\ Drain

\* admit(), called by drain(): the waiter leaves the queue with its listener.
Admit ==
  /\ draining
  /\ LET c == Head(queue) IN
       /\ state' = [state EXCEPT ![c] = "admitted"]
       /\ listeners' = listeners \ {c}
       /\ IF mode[c] = "parallel"
          THEN activeReaders' = activeReaders + 1 /\ UNCHANGED activeWriter
          ELSE activeWriter' = TRUE /\ UNCHANGED activeReaders
  /\ queue' = Tail(queue)
  /\ UNCHANGED <<rigid, aborted>>
  /\ Drain

\* cancel() of a waiter that is neither active nor cancelled.
Cancel(c) ==
  /\ Quiet
  /\ c \in InQueue
  /\ state' = [state EXCEPT ![c] = "cancelled"]
  /\ LeaveQueue(c)
  /\ UNCHANGED <<rigid, counters, aborted, listeners>>
  /\ Drain

\* A signal is aborted: its listeners are about to be called.
Abort(s) ==
  /\ Quiet
  /\ s \notin aborted
  /\ aborted' = aborted \union {s}
  /\ listeners' = {c \in InQueue : signal[c] = s}
  /\ UNCHANGED <<rigid, state, queue, counters, draining>>

\* Mutant: an aborted waiter leaves the queue without draining it.
OnAbort_NoDrain(c) ==
  /\ ~draining
  /\ c \in listeners
  /\ \A d \in listeners : c <= d
  /\ state' = [state EXCEPT ![c] = "cancelled"]
  /\ LeaveQueue(c)
  /\ listeners' = listeners \ {c}
  /\ UNCHANGED <<rigid, counters, draining, aborted>>

\* onAbort of one waiter: it leaves the queue, and drain() runs, before the
\* listener of the next waiter is called.
OnAbort(c) ==
  /\ ~draining
  /\ c \in listeners
  /\ \A d \in listeners : c <= d
  /\ state' = [state EXCEPT ![c] = "cancelled"]
  /\ LeaveQueue(c)
  /\ listeners' = listeners \ {c}
  /\ UNCHANGED <<rigid, counters, aborted>>
  /\ Drain

\* The microtask that calls the operation of an admitted waiter.
Begin(c) ==
  /\ Quiet
  /\ state[c] = "admitted"
  /\ state' = [state EXCEPT ![c] = "running"]
  /\ UNCHANGED <<rigid, queue, counters, draining, aborted, listeners>>

\* The operation resolves or rejects.
End(c) ==
  /\ Quiet
  /\ state[c] = "running"
  /\ state' = [state EXCEPT ![c] = "settled"]
  /\ UNCHANGED <<rigid, queue, counters, draining, aborted, listeners>>

\* Mutant: the queue is not drained.
Release_NoDrain(c) ==
  /\ Quiet
  /\ state[c] = "settled"
  /\ state' = [state EXCEPT ![c] = "released"]
  /\ IF mode[c] = "parallel"
     THEN activeReaders' = activeReaders - 1 /\ UNCHANGED activeWriter
     ELSE activeWriter' = FALSE /\ UNCHANGED activeReaders
  /\ UNCHANGED <<rigid, queue, draining, aborted, listeners>>

\* release(), in the finally of the operation's promise.
Release(c) ==
  /\ Quiet
  /\ state[c] = "settled"
  /\ state' = [state EXCEPT ![c] = "released"]
  /\ IF mode[c] = "parallel"
     THEN activeReaders' = activeReaders - 1 /\ UNCHANGED activeWriter
     ELSE activeWriter' = FALSE /\ UNCHANGED activeReaders
  /\ UNCHANGED <<rigid, queue, aborted, listeners>>
  /\ Drain

\* Waiters are numbered in the order they reserve.
ReserveNumber(c) ==
  /\ \A d \in Waiters : c < d => state[d] = "none"
  /\ Reserve(c)

Next ==
  \/ Admit
  \/ \E c \in Waiters :
       \/ ReserveNumber(c) \/ Run(c) \/ Cancel(c) \/ OnAbort(c)
       \/ Begin(c) \/ End(c) \/ Release(c)
  \/ \E s \in Signals : Abort(s)

Spec == Init /\ [][Next]_gateVars

(***************************************************************************)
(* The users of the gate see every reservation through: each one is run or *)
(* cancelled (a ready one need not be cancelled), an operation ends, and   *)
(* the microtasks and the loops of the gate are carried out; ToolDispatch  *)
(* shows that executePreparedTool cancels what it does not run.            *)
(***************************************************************************)
Fairness ==
  /\ WF_gateVars(Admit)
  /\ \A c \in Waiters :
       /\ WF_gateVars(state[c] = "waiting" /\ (Run(c) \/ Cancel(c)))
       /\ WF_gateVars(OnAbort(c))
       /\ WF_gateVars(Begin(c))
       /\ WF_gateVars(End(c))
       /\ WF_gateVars(Release(c))

FairSpec == Spec /\ Fairness

-----------------------------------------------------------------------------
\* Every variable has its type.
TypeOK ==
  /\ mode \in [Waiters -> {"parallel", "exclusive"}]
  /\ signal \in [Waiters -> Signals]
  /\ state \in [Waiters -> States]
  /\ queue \in Seq(Waiters)
  /\ activeReaders \in Nat
  /\ activeWriter \in BOOLEAN
  /\ draining \in BOOLEAN
  /\ aborted \subseteq Signals
  /\ listeners \subseteq Waiters

(***************************************************************************)
(* drain() is called wherever a waiter may have become admissible: once    *)
(* the code has returned, the head of the queue is not one that should be  *)
(* running.  A run(), cancel(), abort or release that forgets to drain     *)
(* would leave it there for ever.                                          *)
(***************************************************************************)
NoLostWakeup == Quiet => ~CanAdmit

(***************************************************************************)
(* An exclusive tool holds the gate alone, from the moment it is admitted  *)
(* to the moment its result releases the gate.                             *)
(***************************************************************************)
ExclusiveAlone ==
  \A c, d \in Holding : c # d => {mode[c], mode[d]} = {"parallel"}

(***************************************************************************)
(* Every call that is ready to run is admitted or cancelled in the end:    *)
(* cancelled and aborted reservations before it do not block it, and       *)
(* parallel calls that keep coming do not starve an exclusive one.         *)
(***************************************************************************)
EveryReadyCallServed ==
  \A c \in Waiters : state[c] = "ready" ~> state[c] \in {"running", "cancelled"}

\* What has the gate, what is past it and what is still to start.
OrderPhase == [c \in Waiters |->
  CASE c \in Holding -> "running"
    [] state[c] = "released" -> "done"
    [] state[c] = "cancelled" -> "dropped"
    [] OTHER -> "idle"]

Order == INSTANCE ToolOrder WITH phase <- OrderPhase

(***************************************************************************)
(* The gate implements the order promised to the model: an exclusive call  *)
(* runs alone and no call overtakes an earlier call it conflicts with,     *)
(* whatever is cancelled or aborted around them.                           *)
(***************************************************************************)
ImplementsOrder == Order!Spec

=============================================================================
