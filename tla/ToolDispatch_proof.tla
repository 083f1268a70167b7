-------------------------- MODULE ToolDispatch_proof -------------------------
(***************************************************************************)
(* Theorems about ToolDispatch, for any number of calls, any division into *)
(* batches, any preparations, signals and failures.                        *)
(*                                                                         *)
(* The batches of a Turn use the gate as its specification asks, so that   *)
(* everything proved of the gate holds in a Turn.  The invariant joins     *)
(* that of the gate with: BatchInv and ScheduleInv, the shape and progress *)
(* of the batches; PhaseInv and TaskInv, what the phase of a batch says of *)
(* its calls and the state of a call at the gate; LogInv, CommitInv and    *)
(* AheadInv, which records there are, which there must be, and when a      *)
(* batch may be ahead of an earlier one.                                   *)
(***************************************************************************)
EXTENDS ToolDispatch, ToolGate_proof

Batch == [first : Call, last : Call, at : Call, phase : Phases,
          failed : BOOLEAN]
Record == {"started", "result"} \X Call
Batches == DOMAIN batches

TurnTypes ==
  /\ batches \in Seq(Batch)
  /\ prepared \in [Call -> Preparations \union {"none"}]
  /\ task \in [Call -> Tasks]
  /\ log \in Seq(Record)
  /\ streaming \in BOOLEAN /\ over \in BOOLEAN

\* The batches divide the calls in order; until its calls run, nothing has
\* failed in a batch, and nothing ever in one that is done.
BatchInv ==
  \A b \in Batches :
    /\ batches[b].first <= batches[b].at /\ batches[b].at <= batches[b].last
    /\ \A a \in Batches : a < b => batches[a].last < batches[b].first
    /\ batches[b].phase \notin {"running", "draining", "failed"} =>
         ~batches[b].failed

\* A batch is prepared when every earlier one has its reservations.
Reserved == {"running", "draining", "done", "failed"}
ScheduleInv ==
  \A a, b \in Batches :
    a < b /\ batches[b].phase # "queued" => batches[a].phase \in Reserved

\* Only calls of batches do anything.  A call with a result has left the gate
\* or is about to; one that was run waits for the gate.
Untouched(c) == task[c] = "idle" /\ state[c] = "none"
TaskOfCall(c) ==
  /\ Settled(c) => state[c] \in {"settled", "released", "cancelled"}
  /\ state[c] \in {"ready", "admitted", "running"} => task[c] = "gated"
TaskInv ==
  \A c \in Call :
    TaskOfCall(c) /\ (Untouched(c) \/ \E b \in Batches : c \in CallsOf(b))

PhaseOfCall(b, c) ==
  /\ batches[b].phase \in {"queued", "recording"} => Untouched(c)
  /\ batches[b].phase = "reserving" =>
       task[c] = "idle" /\ (batches[b].at <= c => state[c] = "none")
  /\ batches[b].phase = "launching" =>
       (task[c] = "idle" <=> batches[b].at <= c)
  /\ batches[b].phase \in {"running", "draining"} => task[c] # "idle"
  /\ batches[b].phase = "running" /\ c < batches[b].at => Settled(c)
  /\ batches[b].phase = "done" => Settled(c)
  /\ batches[b].phase = "failed" => Settled(c) \/ Untouched(c)
PhaseInv == \A b \in Batches : \A c \in CallsOf(b) : PhaseOfCall(b, c)

\* A record is of a call of a batch that has come that far.
MayBeLogged(b, kind, c) ==
  /\ batches[b].phase # "queued"
  /\ batches[b].phase = "recording" => c < batches[b].at
  /\ kind = "result" => /\ batches[b].phase \in Reserved
                        /\ batches[b].phase = "running" => c < batches[b].at
LogInv ==
  /\ \A i, j \in DOMAIN log : i < j => log[i] # log[j]
  /\ \A i \in DOMAIN log : \E b \in Batches : log[i][2] \in CallsOf(b)
  /\ \A i \in DOMAIN log : \A b \in Batches :
       log[i][2] \in CallsOf(b) => MayBeLogged(b, log[i][1], log[i][2])

\* The results a batch has gone past are recorded, but for calls rejected and
\* for what a failed append or a batch that never began leaves out.
PastCall(b, c) ==
  \/ batches[b].phase = "running" /\ c < batches[b].at
  \/ batches[b].phase \in {"draining", "done", "failed"}
CommitInv ==
  \A b \in Batches : \A c \in CallsOf(b) : PastCall(b, c) =>
    \/ c \in Logged("result")
    \/ batches[b].failed /\ (task[c] = "rejected" \/ "result" \in Failures)
    \/ batches[b].phase = "failed" /\ task[c] = "idle"

\* A batch that has recorded a result is ahead of one that has not ended only
\* because one between them failed.
FailedBetween(a, d) ==
  \E b \in Batches : a < b /\ b < d /\ batches[b].phase = "failed"
AheadInv ==
  \A i \in DOMAIN log : \A a, d \in Batches :
    log[i][1] = "result" /\ log[i][2] \in CallsOf(d) /\ a < d /\ ~Ended(a) =>
      FailedBetween(a, d)
OrderInv ==
  \A i, j \in DOMAIN log : \A a, d \in Batches :
    i < j /\ log[i][1] = "result" /\ log[j][1] = "result"
          /\ log[j][2] < log[i][2]
          /\ log[j][2] \in CallsOf(a) /\ log[i][2] \in CallsOf(d) =>
      FailedBetween(a, d)

OverInv == over => ~streaming /\ \A b \in Batches : Ended(b)

TurnInv ==
  /\ TurnTypes /\ BatchInv /\ ScheduleInv /\ TaskInv /\ PhaseInv /\ LogInv
  /\ CommitInv /\ AheadInv /\ OrderInv /\ OverInv
DispatchInv == GateInv /\ TurnInv

-----------------------------------------------------------------------------
(* Facts about sequences, batches and records.                             *)

LEMMA BatchesAndLog ==
  ASSUME TurnTypes
  PROVE  /\ Len(batches) \in Nat /\ Batches = 1 .. Len(batches)
         /\ \A b \in Batches : /\ b \in Nat \ {0} /\ batches[b] \in Batch
                               /\ batches[b].first \in Nat
                               /\ batches[b].last \in Nat
                               /\ batches[b].at \in Nat
         /\ Len(log) \in Nat /\ DOMAIN log = 1 .. Len(log)
         /\ \A i \in DOMAIN log : log[i] \in Record
         /\ Call \subseteq Nat
<1>1. Len(batches) \in Nat /\ Batches = 1 .. Len(batches)
  BY LenProperties DEF TurnTypes, Batches
<1>2. \A b \in 1 .. Len(batches) : batches[b] \in Batch
  BY ElementOfSeq DEF TurnTypes
<1>3. Len(log) \in Nat /\ DOMAIN log = 1 .. Len(log)
  BY LenProperties DEF TurnTypes
<1>4. \A i \in 1 .. Len(log) : log[i] \in Record
  BY ElementOfSeq DEF TurnTypes
<1>5. Call \subseteq Nat
  BY NAssumption DEF Call, Waiters, NAssumption
<1>6. ASSUME NEW b \in Batches
      PROVE  /\ b \in Nat \ {0} /\ batches[b] \in Batch
             /\ batches[b].first \in Nat /\ batches[b].last \in Nat
             /\ batches[b].at \in Nat
  <2>1. b \in Nat \ {0} /\ batches[b] \in Batch
    BY <1>1, <1>2
  <2> QED
    BY <1>5, <2>1 DEF Batch
<1> QED
  BY <1>1, <1>3, <1>4, <1>5, <1>6

\* Two batches have no call in common, and an earlier batch has earlier ones.
LEMMA CallsApart ==
  ASSUME TurnTypes, BatchInv, NEW a \in Batches, NEW b \in Batches,
         NEW c \in CallsOf(a), NEW d \in CallsOf(b)
  PROVE  /\ a < b => c < d
         /\ c = d => a = b
         /\ c \in Call
<1>1. /\ a \in Nat /\ b \in Nat /\ batches[a] \in Batch /\ batches[b] \in Batch
      /\ Call \subseteq Nat
  BY BatchesAndLog
<1>2. /\ a < b => batches[a].last < batches[b].first
      /\ b < a => batches[b].last < batches[a].first
  BY DEF BatchInv
<1>3. c \in Call
  BY <1>1, NAssumption DEF CallsOf, Batch, Call, Waiters, NAssumption
<1> QED
  BY <1>1, <1>2, <1>3 DEF CallsOf, Batch

\* One batch turns to another call or phase; nothing else changes in any.
Turned(b, phase, at, failed) ==
  /\ batches' \in Seq(Batch)
  /\ Batches' = Batches
  /\ \A a \in Batches : /\ batches'[a].first = batches[a].first
                        /\ batches'[a].last = batches[a].last
                        /\ a # b => batches'[a] = batches[a]
  /\ batches'[b].phase = phase
  /\ batches'[b].at = at
  /\ batches'[b].failed = failed

LEMMA BatchReplaced ==
  ASSUME TurnTypes, NEW b \in Batches, NEW phase \in Phases, NEW at \in Call,
         NEW failed \in BOOLEAN,
         batches' = [batches EXCEPT ![b] =
                       [first |-> batches[b].first, last |-> batches[b].last,
                        at |-> at, phase |-> phase, failed |-> failed]]
  PROVE  Turned(b, phase, at, failed)
<1> DEFINE r == [first |-> batches[b].first, last |-> batches[b].last,
                 at |-> at, phase |-> phase, failed |-> failed]
<1>1. batches[b] \in Batch /\ Batches = 1 .. Len(batches)
  BY BatchesAndLog
<1>2. r \in Batch
  BY <1>1 DEF Batch
<1>3. /\ batches' \in Seq(Batch) /\ Len(batches') = Len(batches)
      /\ \A a \in 1 .. Len(batches) :
           batches'[a] = IF a = b THEN r ELSE batches[a]
  <2> HIDE DEF r
  <2>1. batches' = [batches EXCEPT ![b] = r]
    BY DEF r
  <2> QED
    BY <1>1, <1>2, <2>1, ExceptSeq DEF TurnTypes
<1>4. Batches' = Batches
  BY <1>1, <1>3, LenProperties DEF Batches
<1> QED
  BY <1>1, <1>3, <1>4 DEF Turned

LEMMA EnterTurns ==
  ASSUME TurnTypes, NEW b \in Batches, NEW phase \in Phases, Enter(b, phase)
  PROVE  Turned(b, phase, batches[b].first, batches[b].failed)
<1>1. batches[b] \in Batch
  BY BatchesAndLog
<1>2. batches' = [batches EXCEPT ![b] =
                       [first |-> batches[b].first, last |-> batches[b].last,
                        at |-> batches[b].first, phase |-> phase,
                        failed |-> batches[b].failed]]
  <2> DEFINE r == [first |-> batches[b].first, last |-> batches[b].last,
                   at |-> batches[b].at, phase |-> phase,
                   failed |-> batches[b].failed]
             s == [r EXCEPT !.at = batches[b].first]
             m == [batches EXCEPT ![b] = r]
  <2>1. m = [batches EXCEPT ![b].phase = phase]
    BY <1>1 DEF Batch
  <2>2. batches' = [m EXCEPT ![b].at = batches[b].first]
    BY <2>1 DEF Enter
  <2>3. m[b] = r
    BY DEF Batches
  <2>4. batches' = [m EXCEPT ![b] = s]
    BY <2>2, <2>3
  <2>5. s = [first |-> batches[b].first, last |-> batches[b].last,
             at |-> batches[b].first, phase |-> phase,
             failed |-> batches[b].failed]
    OBVIOUS
  <2>6. ASSUME NEW q, batches' = [m EXCEPT ![b] = q]
        PROVE  batches' = [batches EXCEPT ![b] = q]
    <3> HIDE DEF r
    <3> QED
      BY <2>6
  <2> HIDE DEF m, s
  <2> QED
    BY <2>4, <2>5, <2>6
<1> QED
  BY <1>1, <1>2, BatchReplaced DEF Batch

LEMMA AdvanceTurns ==
  ASSUME TurnTypes, BatchInv, NEW b \in Batches, NEW phase \in Phases,
         Advance(b, phase)
  PROVE  \/ /\ batches[b].at = batches[b].last
            /\ Turned(b, phase, batches[b].first, batches[b].failed)
         \/ /\ batches[b].at < batches[b].last
            /\ Turned(b, batches[b].phase, batches[b].at + 1, batches[b].failed)
<1>1. batches[b] \in Batch /\ batches[b].at <= batches[b].last
  BY BatchesAndLog DEF BatchInv
<1>2. CASE batches[b].at = batches[b].last
  BY <1>2, EnterTurns DEF Advance
<1>3. CASE batches[b].at # batches[b].last
  <2>1. batches[b].at < batches[b].last /\ batches[b].at + 1 \in Call
    BY <1>1, <1>3, NAssumption DEF Batch, Call, Waiters, NAssumption
  <2>2. batches' = [batches EXCEPT ![b] =
                       [first |-> batches[b].first, last |-> batches[b].last,
                        at |-> batches[b].at + 1, phase |-> batches[b].phase,
                        failed |-> batches[b].failed]]
    BY <1>1, <1>3 DEF Advance, Batch
  <2> QED
    BY <1>1, <2>1, <2>2, BatchReplaced DEF Batch
<1> QED
  BY <1>2, <1>3

LEMMA PassOverTurns ==
  ASSUME TurnTypes, BatchInv, NEW b \in Batches, PassOver(b)
  PROVE  \/ /\ batches[b].at = batches[b].last
            /\ Turned(b, "draining", batches[b].at, TRUE)
         \/ /\ batches[b].at < batches[b].last
            /\ Turned(b, batches[b].phase, batches[b].at + 1, TRUE)
<1>1. batches[b] \in Batch /\ batches[b].at <= batches[b].last
  BY BatchesAndLog DEF BatchInv
<1>2. CASE batches[b].at = batches[b].last
  <2>1. batches' = [batches EXCEPT ![b] =
                       [first |-> batches[b].first, last |-> batches[b].last,
                        at |-> batches[b].at, phase |-> "draining",
                        failed |-> TRUE]]
    BY <1>1, <1>2 DEF PassOver, Batch
  <2> QED
    BY <1>1, <1>2, <2>1, BatchReplaced DEF Batch, Phases
<1>3. CASE batches[b].at # batches[b].last
  <2>1. batches[b].at < batches[b].last /\ batches[b].at + 1 \in Call
    BY <1>1, <1>3, NAssumption DEF Batch, Call, Waiters, NAssumption
  <2>2. batches' = [batches EXCEPT ![b] =
                       [first |-> batches[b].first, last |-> batches[b].last,
                        at |-> batches[b].at + 1, phase |-> batches[b].phase,
                        failed |-> TRUE]]
    BY <1>1, <1>3 DEF PassOver, Batch
  <2> QED
    BY <1>1, <2>1, <2>2, BatchReplaced DEF Batch
<1> QED
  BY <1>2, <1>3

\* One record more.
LEMMA LogGrows ==
  ASSUME TurnTypes, NEW r \in Record, log' = Append(log, r)
  PROVE  /\ log' \in Seq(Record) /\ Len(log') = Len(log) + 1
         /\ DOMAIN log' = 1 .. Len(log) + 1
         /\ \A i \in DOMAIN log : log'[i] = log[i]
         /\ log'[Len(log) + 1] = r
<1>1. /\ log' \in Seq(Record) /\ Len(log') = Len(log) + 1
      /\ \A i \in 1 .. Len(log) : log'[i] = log[i]
      /\ log'[Len(log) + 1] = r
  BY AppendProperties DEF TurnTypes
<1> QED
  BY <1>1, LenProperties DEF TurnTypes

-----------------------------------------------------------------------------
(* What keeps the parts of the invariant.                                  *)

\* A call goes on while its batch stays where it is.
Moves(c) ==
  /\ task'[c] = "idle" <=> task[c] = "idle"
  /\ state'[c] = "none" <=> state[c] = "none"
  /\ Settled(c) => task'[c] = task[c]
  /\ TaskOfCall(c)'

LEMMA CallsMove ==
  ASSUME TurnInv, task' \in [Call -> Tasks],
         UNCHANGED <<batches, prepared, log, streaming, over>>,
         \A c \in Call : Moves(c)
  PROVE  TurnInv'
<1>1. \A b \in Batches : \A c \in CallsOf(b) : c \in Call
  BY CallsApart DEF TurnInv
<1>2. Batches' = Batches /\ \A b \in Batches : CallsOf(b)' = CallsOf(b)
  BY DEF Batches, CallsOf
<1>3. TurnTypes' /\ BatchInv' /\ ScheduleInv' /\ OverInv'
  BY <1>2 DEF TurnInv, TurnTypes, BatchInv, ScheduleInv, OverInv, Ended
<1>4. TaskInv'
  BY <1>2 DEF TurnInv, TaskInv, Moves, Untouched
<1>5. PhaseInv'
  <2>1. ASSUME NEW b \in Batches, NEW c \in CallsOf(b) PROVE PhaseOfCall(b, c)'
    <3>1. PhaseOfCall(b, c) /\ Moves(c)
      BY <1>1, <2>1 DEF TurnInv, PhaseInv
    <3> QED
      BY <3>1 DEF PhaseOfCall, Moves, Untouched, Settled
  <2> QED
    BY <1>2, <2>1 DEF PhaseInv
<1>6. LogInv'
  BY <1>2 DEF TurnInv, LogInv, MayBeLogged
<1>7. CommitInv'
  <2>1. Logged("result")' = Logged("result")
    BY DEF Logged
  <2>2. ASSUME NEW b \in Batches, NEW c \in CallsOf(b), PastCall(b, c)'
        PROVE  \/ c \in Logged("result")'
               \/ batches'[b].failed /\ (task'[c] = "rejected" \/ "result" \in Failures)
               \/ batches'[b].phase = "failed" /\ task'[c] = "idle"
    <3>1. PastCall(b, c)
      BY <2>2 DEF PastCall
    <3>2. Moves(c)
      BY <1>1, <2>2
    <3> QED
      BY <2>1, <3>1, <3>2 DEF TurnInv, CommitInv, Moves, Settled
  <2> QED
    BY <1>2, <2>2 DEF CommitInv
<1>8. AheadInv' /\ OrderInv'
  <2>1. \A a, d : FailedBetween(a, d)' <=> FailedBetween(a, d)
    BY <1>2 DEF FailedBetween
  <2>2. \A a \in Batches : Ended(a)' <=> Ended(a)
    BY DEF Ended
  <2> QED
    BY <1>2, <2>1, <2>2 DEF TurnInv, AheadInv, OrderInv
<1> QED
  BY <1>3, <1>4, <1>5, <1>6, <1>7, <1>8 DEF TurnInv

\* One batch moves, and perhaps the calls of it: what must hold of it then.
LEMMA BatchMoves ==
  ASSUME TurnInv, NEW b \in Batches, ~Ended(b),
         NEW phase \in Phases, NEW at \in Call, NEW failed \in BOOLEAN,
         Turned(b, phase, at, failed),
         batches[b].first <= at, at <= batches[b].last,
         phase \notin {"running", "draining", "failed"} => ~failed,
         phase \in Reserved \/ batches[b].phase \notin Reserved,
         batches[b].phase # "queued" \/ Scheduled(b),
         \A c \in Call \ CallsOf(b) : task'[c] = task[c] /\ state'[c] = state[c],
         \A c \in CallsOf(b) : PhaseOfCall(b, c)' /\ TaskOfCall(c)',
         UNCHANGED <<streaming, over>>
  PROVE  /\ BatchInv' /\ ScheduleInv' /\ TaskInv' /\ PhaseInv' /\ OverInv'
<1>1. /\ Batches' = Batches
      /\ \A a \in Batches : /\ batches'[a].first = batches[a].first
                            /\ batches'[a].last = batches[a].last
                            /\ a # b => batches'[a] = batches[a]
      /\ batches'[b].phase = phase /\ batches'[b].at = at
      /\ batches'[b].failed = failed
  BY DEF Turned
<1>2. \A a \in Batches : CallsOf(a)' = CallsOf(a)
  BY <1>1 DEF CallsOf
<1>3. \A a \in Batches : \A c \in CallsOf(a) : c \in Call /\ (c \in CallsOf(b) => a = b)
  BY CallsApart DEF TurnInv
<1>4. BatchInv'
  BY <1>1 DEF TurnInv, BatchInv
<1>5. ScheduleInv'
  <2>1. ASSUME NEW a \in Batches, NEW d \in Batches, a < d,
               batches'[d].phase # "queued"
        PROVE  batches'[a].phase \in Reserved
    <3>1. batches[a].phase \in Reserved => batches'[a].phase \in Reserved
      BY <1>1
    <3>2. CASE batches[d].phase # "queued"
      BY <2>1, <3>1, <3>2 DEF TurnInv, ScheduleInv
    <3>3. CASE batches[d].phase = "queued"
      <4>1. d = b /\ Scheduled(b)
        BY <1>1, <2>1, <3>3
      <4>2. /\ a \in Nat \ {0} /\ b \in Nat \ {0} /\ b - 1 \in Batches
            /\ a < b - 1 \/ a = b - 1
        BY <2>1, <4>1, BatchesAndLog DEF TurnInv
      <4>3. batches[b - 1].phase \in Reserved
        BY <4>1, <4>2 DEF Scheduled, Reserved
      <4>4. batches[a].phase \in Reserved
        BY <4>2, <4>3 DEF TurnInv, ScheduleInv, Reserved
      <4> QED
        BY <3>1, <4>4
    <3> QED
      BY <3>2, <3>3
  <2> QED
    BY <1>1, <2>1 DEF ScheduleInv
<1>6. TaskInv'
  <2>1. ASSUME NEW c \in Call
        PROVE  /\ TaskOfCall(c)'
               /\ Untouched(c)' \/ \E a \in Batches : c \in CallsOf(a)
    <3>1. CASE c \in CallsOf(b)
      BY <3>1
    <3>2. CASE c \notin CallsOf(b)
      BY <2>1, <3>2 DEF TurnInv, TaskInv, TaskOfCall, Untouched, Settled
    <3> QED
      BY <3>1, <3>2
  <2> QED
    BY <1>1, <1>2, <2>1 DEF TaskInv
<1>7. PhaseInv'
  <2>1. ASSUME NEW a \in Batches, NEW c \in CallsOf(a), a # b
        PROVE  PhaseOfCall(a, c)'
    <3>1. task'[c] = task[c] /\ state'[c] = state[c] /\ batches'[a] = batches[a]
      BY <1>1, <1>3, <2>1
    <3>2. PhaseOfCall(a, c)
      BY DEF TurnInv, PhaseInv
    <3> QED
      BY <3>1, <3>2 DEF PhaseOfCall, Untouched, Settled
  <2> QED
    BY <1>1, <1>2, <2>1 DEF PhaseInv
<1>8. OverInv'
  BY DEF TurnInv, OverInv
<1> QED
  BY <1>4, <1>5, <1>6, <1>7, <1>8

\* The batch records nothing, or one thing of the call it is at.
Recorded(b, kind, c) ==
  /\ batches[b].at = c /\ log' = Append(log, <<kind, c>>)
  /\ MayBeLogged(b, kind, c)'
  /\ kind = "started" => batches[b].phase = "recording"
  /\ kind = "result" => batches[b].phase = "running" /\ PreviousDrained(b)
Records(b) ==
  UNCHANGED log \/ \E kind \in {"started", "result"}, c \in Call : Recorded(b, kind, c)

\* What is recorded keeps to the order of the batches.
LEMMA RecordsKept ==
  ASSUME TurnInv, NEW b \in Batches, ~Ended(b),
         NEW phase \in Phases, NEW at \in Call, NEW failed \in BOOLEAN,
         Turned(b, phase, at, failed), TurnTypes', Records(b),
         \A c \in Call \ CallsOf(b) : task'[c] = task[c],
         \A c \in CallsOf(b) : \A kind \in {"started", "result"} :
           MayBeLogged(b, kind, c) => MayBeLogged(b, kind, c)',
         \A c \in CallsOf(b) : PastCall(b, c)' =>
           \/ c \in Logged("result")'
           \/ failed /\ (task'[c] = "rejected" \/ "result" \in Failures)
           \/ phase = "failed" /\ task'[c] = "idle"
  PROVE  LogInv' /\ CommitInv' /\ AheadInv' /\ OrderInv'
<1>1. /\ Batches' = Batches
      /\ \A a \in Batches : /\ batches'[a].first = batches[a].first
                            /\ batches'[a].last = batches[a].last
                            /\ a # b => batches'[a] = batches[a]
      /\ batches'[b].phase = phase /\ batches'[b].at = at
      /\ batches'[b].failed = failed
  BY DEF Turned
<1>2. \A a \in Batches : CallsOf(a)' = CallsOf(a)
  BY <1>1 DEF CallsOf
<1>3. /\ \A a \in Batches : a \in Nat \ {0} /\ batches[a] \in Batch
      /\ \A a \in Batches : batches[a].at \in CallsOf(a)
      /\ Len(log) \in Nat /\ DOMAIN log = 1 .. Len(log)
      /\ \A i \in DOMAIN log : log[i] \in Record
      /\ Call \subseteq Nat
  <2>1. \A a \in Batches : batches[a].at \in CallsOf(a)
    BY BatchesAndLog DEF TurnInv, BatchInv, CallsOf, Batch
  <2> QED
    BY <2>1, BatchesAndLog DEF TurnInv
<1>4. \A a \in Batches : \A c \in CallsOf(a) :
        c \in Call /\ (c \in CallsOf(b) => a = b)
  BY CallsApart DEF TurnInv
<1>5. PICK kind \in {"started", "result"}, c0 \in Call :
        UNCHANGED log \/ Recorded(b, kind, c0)
  <2>1. batches[b].at \in Call /\ "started" \in {"started", "result"}
    BY <1>3 DEF Batch
  <2> QED
    BY <2>1 DEF Records
<1> DEFINE new == Recorded(b, kind, c0)
<1>6. new => /\ c0 \in CallsOf(b) /\ c0 \in Nat
             /\ \A a \in Batches : c0 \in CallsOf(a) => a = b
             /\ ~MayBeLogged(b, kind, c0)
             /\ MayBeLogged(b, kind, c0)'
             /\ kind = "result" => batches[b].phase = "running" /\ PreviousDrained(b)
  <2> SUFFICES ASSUME new PROVE /\ c0 \in CallsOf(b) /\ c0 \in Nat
             /\ \A a \in Batches : c0 \in CallsOf(a) => a = b
             /\ ~MayBeLogged(b, kind, c0)
    BY DEF Recorded
  <2>1. batches[b].at = c0
    BY DEF Recorded
  <2>2. c0 \in CallsOf(b)
    BY <1>3, <2>1
  <2>3. ~MayBeLogged(b, kind, c0)
    <3>1. ~(c0 < c0)
      BY <1>3, <1>5
    <3> QED
      BY <2>1, <3>1 DEF Recorded, MayBeLogged
  <2> QED
    BY <1>3, <1>4, <2>2, <2>3
<1>7. /\ \A i \in DOMAIN log : log'[i] = log[i] /\ i \in DOMAIN log'
      /\ \A i \in DOMAIN log' : i \in Nat /\
           \/ i \in DOMAIN log
           \/ i = Len(log) + 1 /\ new /\ log'[i] = <<kind, c0>>
  <2>1. CASE log' = log
    BY <1>3, <2>1
  <2>2. CASE new
    <3>1. <<kind, c0>> \in Record
      BY DEF Record
    <3>2. /\ DOMAIN log' = 1 .. Len(log) + 1
          /\ \A i \in DOMAIN log : log'[i] = log[i]
          /\ log'[Len(log) + 1] = <<kind, c0>>
      BY <2>2, <3>1, LogGrows DEF TurnInv, Recorded
    <3> HIDE DEF new
    <3> QED
      BY <1>3, <2>2, <3>2
  <2> QED
    BY <1>5, <2>1, <2>2
<1> HIDE DEF new
<1>8. \A i \in DOMAIN log : log[i] # <<kind, c0>> \/ ~new
  <2> SUFFICES ASSUME NEW i \in DOMAIN log, new, log[i] = <<kind, c0>>
               PROVE  FALSE
    OBVIOUS
  <2>1. log[i][1] = kind /\ log[i][2] = c0
    OBVIOUS
  <2>2. MayBeLogged(b, kind, c0)
    BY <1>6, <2>1 DEF TurnInv, LogInv
  <2> QED
    BY <1>6, <2>2
<1>9. \A i \in DOMAIN log : /\ log[i][2] \in Call /\ log[i][2] \in Nat
                            /\ log[i][1] \in {"started", "result"}
  BY <1>3 DEF Record
<1>10. LogInv'
  <2>1. ASSUME NEW i \in DOMAIN log', NEW j \in DOMAIN log', i < j
        PROVE  log'[i] # log'[j]
    BY <1>3, <1>7, <1>8, <2>1 DEF TurnInv, LogInv
  <2>2. ASSUME NEW i \in DOMAIN log'
        PROVE  \E a \in Batches : log'[i][2] \in CallsOf(a)
    BY <1>6, <1>7 DEF TurnInv, LogInv
  <2>3. ASSUME NEW i \in DOMAIN log', NEW a \in Batches, log'[i][2] \in CallsOf(a)
        PROVE  MayBeLogged(a, log[i][1], log[i][2])'
    <3>1. CASE i \in DOMAIN log
      <4>1. log'[i][1] = log[i][1] /\ log'[i][2] = log[i][2]
        BY <1>7, <3>1
      <4>2. MayBeLogged(a, log[i][1], log[i][2])
        BY <2>3, <3>1, <4>1 DEF TurnInv, LogInv
      <4>3. PICK k, c : k = log[i][1] /\ c = log[i][2]
        OBVIOUS
      <4>4. MayBeLogged(a, k, c)'
        <5>1. CASE a = b
          BY <1>9, <2>3, <3>1, <4>1, <4>2, <4>3, <5>1
        <5>2. CASE a # b
          BY <1>1, <4>2, <4>3, <5>2 DEF MayBeLogged
        <5> QED
          BY <5>1, <5>2
      <4> QED
        BY <4>1, <4>3, <4>4 DEF MayBeLogged
    <3>2. CASE new /\ log'[i] = <<kind, c0>>
      <4>1. log'[i][1] = kind /\ log'[i][2] = c0 /\ a = b
        BY <1>6, <2>3, <3>2
      <4> QED
        BY <1>6, <3>2, <4>1 DEF MayBeLogged
    <3> QED
      BY <1>7, <3>1, <3>2
  <2> QED
    <3>1. \A a \in Batches : \A c : c \in CallsOf(a)' <=> c \in CallsOf(a)
      BY <1>2
    <3>2. \A i \in DOMAIN log' : \E a \in Batches' : (log[i][2] \in CallsOf(a))'
      BY <1>1, <2>2 DEF CallsOf
    <3>3. \A i \in DOMAIN log' : \A a \in Batches' :
            (log[i][2] \in CallsOf(a))' => MayBeLogged(a, log[i][1], log[i][2])'
      BY <1>1, <2>3 DEF CallsOf
    <3> QED
      BY <2>1, <3>2, <3>3 DEF LogInv
<1>11. CommitInv'
  <2>1. Logged("result") \subseteq Logged("result")'
    BY <1>7 DEF Logged
  <2>2. ASSUME NEW a \in Batches, NEW c \in CallsOf(a), PastCall(a, c)', a # b
        PROVE  \/ c \in Logged("result")'
               \/ batches'[a].failed /\ (task'[c] = "rejected" \/ "result" \in Failures)
               \/ batches'[a].phase = "failed" /\ task'[c] = "idle"
    <3>1. batches'[a] = batches[a] /\ task'[c] = task[c]
      BY <1>1, <1>4, <2>2
    <3>2. PastCall(a, c)
      BY <2>2, <3>1 DEF PastCall
    <3> QED
      BY <2>1, <3>1, <3>2 DEF TurnInv, CommitInv
  <2> QED
    BY <1>1, <1>2, <2>2 DEF CommitInv
<1>12. /\ \A a, d \in Batches : FailedBetween(a, d) => FailedBetween(a, d)'
       /\ \A a \in Batches : ~Ended(a)' => ~Ended(a)
  BY <1>1 DEF FailedBetween, Ended
<1>13. ASSUME NEW a \in Batches, a < b, ~Ended(a), kind = "result", new
       PROVE  FailedBetween(a, b)
  <2>1. /\ a \in Nat /\ b \in Nat /\ b - 1 \in Batches
        /\ a < b - 1 \/ a = b - 1
    BY <1>3, <1>13, BatchesAndLog DEF TurnInv
  <2>2. Ended(b - 1)
    BY <1>3, <1>6, <1>13, <2>1 DEF PreviousDrained
  <2>3. a < b - 1
    BY <1>13, <2>1, <2>2
  <2>4. CASE batches[b - 1].phase = "failed"
    BY <2>1, <2>3, <2>4 DEF FailedBetween
  <2>5. CASE batches[b - 1].phase = "done"
    <3>1. PICK c : c \in CallsOf(b - 1)
      BY <1>3, <2>1
    <3>2. c \in Logged("result")
      BY <2>1, <2>5, <3>1 DEF TurnInv, CommitInv, BatchInv, PastCall
    <3>3. PICK i \in DOMAIN log : log[i] = <<"result", c>>
      BY <3>2 DEF Logged
    <3>4. FailedBetween(a, b - 1)
      BY <1>13, <2>1, <2>3, <3>1, <3>3 DEF TurnInv, AheadInv
    <3>5. PICK e \in Batches : a < e /\ e < b - 1 /\ batches[e].phase = "failed"
      BY <3>4 DEF FailedBetween
    <3>6. e \in Nat
      BY <1>3, BatchesAndLog
    <3>7. e < b
      BY <2>1, <3>5, <3>6
    <3> QED
      BY <3>5, <3>7 DEF FailedBetween
  <2> QED
    BY <2>2, <2>4, <2>5 DEF Ended
<1>14. AheadInv'
  <2>1. ASSUME NEW i \in DOMAIN log', NEW a \in Batches, NEW d \in Batches,
               log'[i][1] = "result", log'[i][2] \in CallsOf(d), a < d, ~Ended(a)'
        PROVE  FailedBetween(a, d)'
    <3>1. CASE i \in DOMAIN log
      BY <1>7, <1>12, <2>1, <3>1 DEF TurnInv, AheadInv
    <3>2. CASE new /\ log'[i] = <<kind, c0>>
      <4>1. kind = "result" /\ d = b
        BY <1>6, <2>1, <3>2
      <4> QED
        BY <1>12, <1>13, <2>1, <3>2, <4>1
    <3> QED
      BY <1>7, <3>1, <3>2
  <2> QED
    BY <1>1, <1>2, <2>1 DEF AheadInv
<1>15. OrderInv'
  <2>1. ASSUME NEW i \in DOMAIN log', NEW j \in DOMAIN log',
               NEW a \in Batches, NEW d \in Batches, i < j,
               log'[i][1] = "result", log'[j][1] = "result",
               log'[j][2] < log'[i][2],
               log'[j][2] \in CallsOf(a), log'[i][2] \in CallsOf(d)
        PROVE  FailedBetween(a, d)'
    <3>1. i \in DOMAIN log
      BY <1>3, <1>7, <2>1
    <3>2. CASE j \in DOMAIN log
      BY <1>7, <1>12, <2>1, <3>1, <3>2 DEF TurnInv, OrderInv
    <3>3. CASE new /\ log'[j] = <<kind, c0>>
      <4>1. kind = "result" /\ a = b /\ c0 \in CallsOf(b)
        BY <1>6, <2>1, <3>3
      <4>2. log[i][1] = "result" /\ log[i][2] \in CallsOf(d) /\ c0 < log[i][2]
        BY <1>7, <2>1, <3>1, <3>3
      <4>3. d # b
        <5>1. batches[b].phase = "running" /\ batches[b].at = c0
          BY <3>3, <4>1 DEF new, Recorded
        <5>2. MayBeLogged(d, log[i][1], log[i][2])
          BY <3>1, <4>2 DEF TurnInv, LogInv
        <5> QED
          BY <1>6, <1>9, <3>1, <3>3, <4>2, <5>1, <5>2 DEF MayBeLogged
      <4>4. b < d
        BY <1>3, <1>9, <3>1, <4>1, <4>2, <4>3, CallsApart DEF TurnInv
      <4> QED
        BY <1>12, <3>1, <4>1, <4>2, <4>4 DEF TurnInv, AheadInv
    <3> QED
      BY <1>7, <3>2, <3>3
  <2> QED
    BY <1>1, <1>2, <2>1 DEF OrderInv
<1> QED
  BY <1>10, <1>11, <1>14, <1>15

\* What a batch that moves must see to for each of its calls.
Carries(b, c) ==
  /\ PhaseOfCall(b, c)' /\ TaskOfCall(c)'
  /\ \A kind \in {"started", "result"} :
       MayBeLogged(b, kind, c) => MayBeLogged(b, kind, c)'
  /\ PastCall(b, c)' =>
       \/ c \in Logged("result")'
       \/ batches'[b].failed /\ (task'[c] = "rejected" \/ "result" \in Failures)
       \/ batches'[b].phase = "failed" /\ task'[c] = "idle"

LEMMA BatchTurns ==
  ASSUME TurnInv, NEW b \in Batches, ~Ended(b),
         NEW phase \in Phases, NEW at \in Call, NEW failed \in BOOLEAN,
         Turned(b, phase, at, failed), TurnTypes', Records(b),
         batches[b].first <= at, at <= batches[b].last,
         phase \notin {"running", "draining", "failed"} => ~failed,
         phase \in Reserved \/ batches[b].phase \notin Reserved,
         batches[b].phase # "queued" \/ Scheduled(b),
         \A c \in Call \ CallsOf(b) : task'[c] = task[c] /\ state'[c] = state[c],
         \A c \in CallsOf(b) : Carries(b, c),
         UNCHANGED <<streaming, over>>
  PROVE  TurnInv'
<1>1. \A c \in CallsOf(b) : PhaseOfCall(b, c)' /\ TaskOfCall(c)'
  BY DEF Carries
<1>2. BatchInv' /\ ScheduleInv' /\ TaskInv' /\ PhaseInv' /\ OverInv'
  BY <1>1, BatchMoves
<1>3. batches'[b].failed = failed /\ batches'[b].phase = phase
  BY DEF Turned
<1>4. \A c \in CallsOf(b) : \A kind \in {"started", "result"} :
        MayBeLogged(b, kind, c) => MayBeLogged(b, kind, c)'
  BY DEF Carries
<1>5. \A c \in CallsOf(b) : PastCall(b, c)' =>
        \/ c \in Logged("result")'
        \/ failed /\ (task'[c] = "rejected" \/ "result" \in Failures)
        \/ phase = "failed" /\ task'[c] = "idle"
  BY <1>3 DEF Carries
<1>6. \A c \in Call \ CallsOf(b) : task'[c] = task[c]
  OBVIOUS
<1>7. LogInv' /\ CommitInv' /\ AheadInv' /\ OrderInv'
  BY <1>4, <1>5, <1>6, RecordsKept
<1> QED
  BY <1>2, <1>7 DEF TurnInv

\* One call moves, and its batch does not.
LEMMA CallMoves ==
  ASSUME DispatchInv, NEW c \in Call, NEW v \in States, NEW t \in Tasks,
         state' = [state EXCEPT ![c] = v], task' = [task EXCEPT ![c] = t],
         v = "none" <=> state[c] = "none", t = "idle" <=> task[c] = "idle",
         Settled(c) => t = task[c],
         t \in {"returned", "refused", "rejected"} =>
           v \in {"settled", "released", "cancelled"},
         v \in {"ready", "admitted", "running"} => t = "gated",
         UNCHANGED <<batches, prepared, log, streaming, over>>
  PROVE  TurnInv'
<1>1. state \in [Call -> States] /\ task \in [Call -> Tasks]
  BY DEF DispatchInv, GateInv, TypeOK, TurnInv, TurnTypes, Call
<1>2. task' \in [Call -> Tasks]
  BY <1>1
<1>3. ASSUME NEW d \in Call PROVE Moves(d)
  <2>1. TaskOfCall(d)
    BY DEF DispatchInv, TurnInv, TaskInv
  <2>2. CASE d = c
    <3>1. state'[d] = v /\ task'[d] = t
      BY <1>1, <2>2
    <3> QED
      BY <2>2, <3>1 DEF Moves, TaskOfCall, Settled
  <2>3. CASE d # c
    <3>1. state'[d] = state[d] /\ task'[d] = task[d]
      BY <1>1, <2>3
    <3> QED
      BY <2>1, <3>1 DEF Moves, TaskOfCall, Settled
  <2> QED
    BY <2>2, <2>3
<1> QED
  BY <1>2, <1>3, CallsMove DEF DispatchInv

-----------------------------------------------------------------------------
(* The steps.                                                              *)

LEMMA StateOfCall ==
  ASSUME DispatchInv, NEW c \in Call
  PROVE  /\ state[c] \in States /\ task[c] \in Tasks /\ TaskOfCall(c)
         /\ state = [state EXCEPT ![c] = state[c]]
         /\ task = [task EXCEPT ![c] = task[c]]
<1>1. state \in [Call -> States] /\ task \in [Call -> Tasks]
  BY DEF DispatchInv, GateInv, TypeOK, TurnInv, TurnTypes, Call
<1>2. TaskOfCall(c)
  BY DEF DispatchInv, TurnInv, TaskInv
<1> QED
  BY <1>1, <1>2

\* A place that is given back is cancelled.
LEMMA GivesBack ==
  ASSUME DispatchInv, NEW c \in Call, GiveBack(c)
  PROVE  state[c] # "none" /\ state' = [state EXCEPT ![c] = "cancelled"]
<1>1. CASE Cancel(c)
  BY <1>1 DEF Cancel, InQueue
<1>2. CASE state[c] = "cancelled" /\ UNCHANGED gateVars
  BY <1>2, StateOfCall DEF gateVars
<1> QED
  BY <1>1, <1>2 DEF GiveBack

\* The loops of the gate and the abort of a signal.
LEMMA GateLoopKeeps ==
  ASSUME DispatchInv, GateLoop \/ Stop
  PROVE  TurnInv'
<1>1. CASE Admit /\ UNCHANGED turnVars
  <2> DEFINE h == Head(queue)
  <2>1. CanAdmit
    BY <1>1 DEF DispatchInv, GateInv, DrainInv, Admit
  <2>2. h \in Call /\ state[h] = "ready"
    BY <2>1, HeadOfQueue DEF DispatchInv, GateInv, CanAdmit, Call
  <2>3. state' = [state EXCEPT ![h] = "admitted"]
    BY <1>1 DEF Admit
  <2>4. task[h] = "gated"
    BY <2>2, StateOfCall DEF TaskOfCall
  <2> HIDE DEF h
  <2>5. task' = [task EXCEPT ![h] = "gated"]
    BY <1>1, <2>2, <2>4, StateOfCall DEF turnVars
  <2>6. UNCHANGED <<batches, prepared, log, streaming, over>>
    BY <1>1 DEF turnVars
  <2> QED
    BY <2>2, <2>3, <2>4, <2>5, <2>6, CallMoves DEF States, Tasks, Settled
<1>2. ASSUME NEW c \in Call, OnAbort(c), UNCHANGED turnVars PROVE TurnInv'
  <2>1. c \in InQueue
    <3>1. PICK i \in DOMAIN queue : queue[i] = c
      BY <1>2 DEF OnAbort, LeaveQueue
    <3>2. DOMAIN queue = 1 .. Len(queue)
      BY LenProperties DEF DispatchInv, GateInv, TypeOK
    <3> QED
      BY <3>1, <3>2 DEF DispatchInv, GateInv, QueueInv
  <2>2. state' = [state EXCEPT ![c] = "cancelled"]
    BY <1>2 DEF OnAbort
  <2>3. UNCHANGED <<batches, prepared, log, streaming, over>>
    BY <1>2 DEF turnVars
  <2>4. task' = [task EXCEPT ![c] = task[c]]
    BY <1>2, StateOfCall DEF turnVars
  <2>5. task[c] \in Tasks /\ state[c] # "none"
    BY <2>1, StateOfCall DEF InQueue
  <2> QED
    BY <2>2, <2>3, <2>4, <2>5, CallMoves DEF States
<1>3. CASE Stop
  <2>1. UNCHANGED <<state, task, batches, prepared, log, streaming, over>>
    BY <1>3 DEF Stop, Abort, turnVars
  <2>2. task' \in [Call -> Tasks]
    BY <2>1 DEF DispatchInv, TurnInv, TurnTypes
  <2>3. ASSUME NEW c \in Call PROVE Moves(c)
    BY <2>1, StateOfCall DEF Moves, TaskOfCall, Settled
  <2> QED
    BY <2>1, <2>2, <2>3, CallsMove DEF DispatchInv
<1> QED
  BY <1>1, <1>2, <1>3 DEF GateLoop

LEMMA CallStepKeeps ==
  ASSUME DispatchInv, NEW c \in Call, CallStep(c)
  PROVE  TurnInv'
<1> DEFINE same == UNCHANGED <<batches, prepared, log, streaming, over>>
<1> USE StateOfCall
<1>1. CASE Allow(c)
  <2>1. /\ same /\ task[c] = "asking" /\ task' = [task EXCEPT ![c] = "readying"]
        /\ state' = [state EXCEPT ![c] = state[c]]
    BY <1>1 DEF Allow, Settle, gateVars
  <2> QED
    BY <2>1, CallMoves DEF TaskOfCall, Tasks, Settled
<1>2. CASE Deny(c) \/ NotReady(c)
  <2>1. PICK t \in {"refused", "rejected"} :
          /\ same /\ task[c] \in {"asking", "readying"} /\ GiveBack(c)
          /\ task' = [task EXCEPT ![c] = t]
    BY <1>2 DEF Deny, NotReady, Settle, Failed
  <2> QED
    BY <2>1, GivesBack, CallMoves DEF Tasks, States, Settled
<1>3. CASE RunCall(c)
  <2>1. /\ same /\ task[c] = "readying" /\ task' = [task EXCEPT ![c] = "gated"]
        /\ state[c] = "waiting" /\ state' = [state EXCEPT ![c] = "ready"]
    BY <1>3 DEF RunCall, Settle, Run
  <2> QED
    BY <2>1, CallMoves DEF Tasks, States, Settled
<1>4. CASE RunRejected(c)
  <2>1. /\ same /\ task[c] = "gated" /\ task' = [task EXCEPT ![c] = "rejected"]
        /\ state[c] = "cancelled" /\ state' = [state EXCEPT ![c] = state[c]]
    BY <1>4 DEF RunRejected, Settle, gateVars
  <2> QED
    BY <2>1, CallMoves DEF Tasks, States, Settled
<1>5. CASE BeginCall(c)
  <2>1. /\ same /\ task' = [task EXCEPT ![c] = task[c]]
        /\ state[c] = "admitted" /\ state' = [state EXCEPT ![c] = "running"]
    BY <1>5 DEF BeginCall, Begin, turnVars
  <2> QED
    BY <2>1, CallMoves DEF TaskOfCall, Tasks, States, Settled
<1>6. CASE EndCall(c)
  <2>1. PICK t \in {"returned", "refused", "rejected"} :
          /\ same /\ task' = [task EXCEPT ![c] = t]
          /\ state[c] = "running" /\ state' = [state EXCEPT ![c] = "settled"]
    BY <1>6 DEF EndCall, End, Settle, Failed
  <2> QED
    BY <2>1, CallMoves DEF TaskOfCall, Tasks, States, Settled
<1>7. CASE ReleaseCall(c)
  <2>1. /\ same /\ task' = [task EXCEPT ![c] = task[c]]
        /\ state[c] = "settled" /\ state' = [state EXCEPT ![c] = "released"]
    BY <1>7 DEF ReleaseCall, Release, turnVars
  <2> QED
    BY <2>1, CallMoves DEF TaskOfCall, Tasks, States, Settled
<1> QED
  BY <1>1, <1>2, <1>3, <1>4, <1>5, <1>6, <1>7 DEF CallStep

LEMMA BatchHere ==
  ASSUME DispatchInv, NEW b, NEW phase, At(b, phase)
  PROVE  /\ b \in Batches /\ batches[b].phase = phase /\ TurnInv
         /\ batches[b] \in Batch /\ batches[b].at \in CallsOf(b)
         /\ batches[b].first <= batches[b].at /\ batches[b].at <= batches[b].last
         /\ batches[b].first <= batches[b].last
         /\ \A c \in CallsOf(b) :
              /\ c \in Call /\ c \in Nat /\ batches[b].first <= c
              /\ c <= batches[b].last /\ PhaseOfCall(b, c) /\ TaskOfCall(c)
              /\ PastCall(b, c) =>
                   \/ c \in Logged("result")
                   \/ batches[b].failed /\ (task[c] = "rejected" \/ "result" \in Failures)
                   \/ batches[b].phase = "failed" /\ task[c] = "idle"
         /\ phase \notin {"running", "draining", "failed"} => ~batches[b].failed
         /\ Call \subseteq Nat
<1>1. b \in Batches /\ batches[b].phase = phase /\ TurnInv
  BY DEF At, Batches, DispatchInv
<1>2. /\ batches[b] \in Batch /\ batches[b].first \in Nat
      /\ batches[b].last \in Nat /\ batches[b].at \in Nat /\ Call \subseteq Nat
  BY <1>1, BatchesAndLog DEF TurnInv
<1>3. /\ batches[b].first <= batches[b].at /\ batches[b].at <= batches[b].last
      /\ phase \notin {"running", "draining", "failed"} => ~batches[b].failed
  BY <1>1 DEF TurnInv, BatchInv
<1>4. batches[b].at \in CallsOf(b) /\ batches[b].first <= batches[b].last
  BY <1>2, <1>3 DEF CallsOf
<1>5. ASSUME NEW c \in CallsOf(b)
      PROVE  /\ c \in Call /\ c \in Nat /\ batches[b].first <= c
             /\ c <= batches[b].last
  <2>1. c \in Call
    BY <1>1, CallsApart DEF TurnInv
  <2> QED
    BY <1>2, <2>1 DEF CallsOf
<1>6. \A c \in CallsOf(b) : PhaseOfCall(b, c) /\ TaskOfCall(c)
  BY <1>1, <1>5 DEF TurnInv, PhaseInv, TaskInv
<1>7. \A c \in CallsOf(b) : PastCall(b, c) =>
        \/ c \in Logged("result")
        \/ batches[b].failed /\ (task[c] = "rejected" \/ "result" \in Failures)
        \/ batches[b].phase = "failed" /\ task[c] = "idle"
  BY <1>1 DEF TurnInv, CommitInv
<1> QED
  BY <1>1, <1>2, <1>3, <1>4, <1>5, <1>6, <1>7

\* The types that a step of a batch leaves alone.
LEMMA TypesKept ==
  ASSUME TurnTypes, NEW b, NEW phase, NEW at, NEW failed,
         Turned(b, phase, at, failed),
         prepared' \in [Call -> Preparations \union {"none"}],
         task' \in [Call -> Tasks], log' \in Seq(Record),
         UNCHANGED <<streaming, over>>
  PROVE  TurnTypes'
BY DEF TurnTypes, Turned

LEMMA PrepareKeeps ==
  ASSUME DispatchInv, NEW b, Prepare(b)
  PROVE  TurnInv'
<1>1. /\ At(b, "queued") /\ Scheduled(b) /\ Enter(b, "recording")
      /\ UNCHANGED <<state, task, log, streaming, over>>
  BY DEF Prepare, gateVars
<1> DEFINE k == batches[b].first
<1>2. /\ b \in Batches /\ ~Ended(b) /\ TurnInv /\ k \in Call /\ k \in Nat
      /\ batches[b].failed = FALSE
      /\ k <= batches[b].last /\ k <= k /\ batches[b].phase = "queued"
  BY <1>1, BatchHere DEF Ended, Batch
<1>3. Turned(b, "recording", k, FALSE)
  BY <1>1, <1>2, EnterTurns DEF TurnInv, Phases
<1>4. TurnTypes'
  <2>1. prepared' \in [Call -> Preparations \union {"none"}]
    BY DEF Prepare, DispatchInv, TurnInv, TurnTypes
  <2> QED
    BY <1>1, <1>2, <1>3, <2>1, TypesKept DEF TurnInv, TurnTypes
<1>5. ASSUME NEW c \in CallsOf(b) PROVE Carries(b, c)
  <2>1. /\ batches'[b].phase = "recording" /\ batches[b].phase = "queued"
        /\ PhaseOfCall(b, c) /\ TaskOfCall(c)
    BY <1>1, <1>3, <1>5, BatchHere DEF Turned
  <2>2. PhaseOfCall(b, c)' /\ TaskOfCall(c)'
    BY <1>1, <2>1 DEF PhaseOfCall, TaskOfCall, Untouched, Settled
  <2> QED
    BY <2>1, <2>2 DEF Carries, MayBeLogged, PastCall
<1>6. Records(b)
  BY <1>1 DEF Records
<1>7. \A c \in Call \ CallsOf(b) : task'[c] = task[c] /\ state'[c] = state[c]
  BY <1>1
<1>8. UNCHANGED <<streaming, over>>
  BY <1>1
<1> QED
  BY <1>1, <1>2, <1>3, <1>4, <1>5, <1>6, <1>7, <1>8, BatchTurns DEF Phases, Reserved

LEMMA RecordStartedKeeps ==
  ASSUME DispatchInv, NEW b, RecordStarted(b)
  PROVE  TurnInv'
<1>1. /\ At(b, "recording") /\ UNCHANGED <<state, prepared, task, streaming, over>>
  BY DEF RecordStarted, gateVars
<1> DEFINE k == batches[b].at
           starts == log' = Append(log, <<"started", k>>)
<1>2. /\ b \in Batches /\ ~Ended(b) /\ TurnInv /\ batches[b].failed = FALSE
      /\ batches[b].first \in Call /\ batches[b].first <= batches[b].last
      /\ k \in Call /\ k \in Nat /\ k <= batches[b].last /\ batches[b].first <= k
      /\ batches[b].phase = "recording" /\ batches[b].last \in Call
      /\ batches[b].last \in Nat /\ batches[b].first \in Nat
  BY <1>1, BatchHere DEF Ended, Batch
<1>3. PICK phase \in {"recording", "reserving", "failed"}, at \in Call :
        /\ Turned(b, phase, at, FALSE)
        /\ batches[b].first <= at /\ at <= batches[b].last
        /\ starts \/ (UNCHANGED log /\ phase = "failed")
        /\ phase = "recording" => at = k + 1
  <2>1. CASE starts /\ Advance(b, "reserving")
    <3>1. \/ Turned(b, "reserving", batches[b].first, FALSE)
          \/ k < batches[b].last /\ Turned(b, "recording", k + 1, FALSE)
      BY <1>2, <2>1, AdvanceTurns DEF TurnInv, Phases
    <3>2. k < batches[b].last => k + 1 \in Call /\ k + 1 <= batches[b].last
                                 /\ batches[b].first <= k + 1
      BY <1>2, NAssumption DEF Call, Waiters, NAssumption
    <3>3. batches[b].first <= batches[b].first
      BY <1>2
    <3> HIDE DEF starts
    <3>4. CASE Turned(b, "reserving", batches[b].first, FALSE)
      BY <1>2, <2>1, <3>3, <3>4, Zenon
    <3>5. CASE k < batches[b].last /\ Turned(b, "recording", k + 1, FALSE)
      BY <1>2, <2>1, <3>2, <3>5, Zenon
    <3> QED
      BY <3>1, <3>4, <3>5
  <2>2. CASE (starts \/ UNCHANGED log) /\ Enter(b, "failed")
    <3>1. Turned(b, "failed", batches[b].first, FALSE)
      BY <1>2, <2>2, EnterTurns DEF TurnInv, Phases
    <3>2. batches[b].first <= batches[b].first
      BY <1>2
    <3> HIDE DEF starts
    <3> QED
      BY <1>2, <2>2, <3>1, <3>2, Zenon
  <2> QED
    BY <2>1, <2>2 DEF RecordStarted
<1>4. TurnTypes'
  <2>1. <<"started", k>> \in Record
    BY <1>2 DEF Record
  <2>2. log' \in Seq(Record)
    BY <1>2, <1>3, <2>1, LogGrows DEF TurnInv, TurnTypes
  <2> QED
    BY <1>1, <1>2, <1>3, <2>2, TypesKept DEF TurnInv, TurnTypes
<1>5. /\ batches'[b].phase = phase /\ batches'[b].at = at
      /\ batches'[b].failed = FALSE
  BY <1>3 DEF Turned
<1>6. ASSUME NEW c \in CallsOf(b) PROVE Carries(b, c)
  <2>1. PhaseOfCall(b, c) /\ TaskOfCall(c) /\ c \in Nat
    BY <1>1, <1>6, BatchHere
  <2>2. PhaseOfCall(b, c)' /\ TaskOfCall(c)'
    BY <1>1, <1>2, <1>3, <1>5, <2>1 DEF PhaseOfCall, TaskOfCall, Untouched, Settled
  <2>3. task[c] = "idle"
    BY <1>2, <2>1 DEF PhaseOfCall, Untouched
  <2>4. \A kind \in {"started", "result"} :
          MayBeLogged(b, kind, c) => MayBeLogged(b, kind, c)'
    BY <1>2, <1>3, <1>5, <2>1 DEF MayBeLogged, Reserved
  <2> QED
    BY <1>1, <1>3, <1>5, <2>2, <2>3, <2>4 DEF Carries, PastCall
<1>7. Records(b)
  <2>1. CASE starts
    <3>1. PICK c \in Call : c = k
      BY <1>2
    <3>2. MayBeLogged(b, "started", c)'
      BY <1>2, <1>3, <1>5, <3>1 DEF MayBeLogged
    <3>3. Recorded(b, "started", c)
      BY <1>2, <2>1, <3>1, <3>2 DEF Recorded
    <3> QED
      BY <3>3 DEF Records
  <2> QED
    BY <1>3, <2>1 DEF Records
<1> HIDE DEF k, starts
<1> QED
  BY <1>1, <1>2, <1>3, <1>4, <1>6, <1>7, BatchTurns DEF Phases, Reserved

LEMMA ReserveNextKeeps ==
  ASSUME DispatchInv, NEW b, ReserveNext(b)
  PROVE  TurnInv'
<1> DEFINE k == batches[b].at
<1>1. /\ At(b, "reserving") /\ Reserve(k) /\ Advance(b, "launching")
      /\ UNCHANGED <<prepared, task, log, streaming, over>>
  BY DEF ReserveNext
<1>2. /\ b \in Batches /\ ~Ended(b) /\ TurnInv /\ batches[b].failed = FALSE
      /\ batches[b].first \in Call /\ batches[b].first <= batches[b].last
      /\ k \in Call /\ k \in Nat /\ k <= batches[b].last /\ batches[b].first <= k
      /\ batches[b].phase = "reserving" /\ batches[b].last \in Nat
      /\ batches[b].first \in Nat /\ k \in CallsOf(b) /\ batches[b].last \in Call
  BY <1>1, BatchHere DEF Ended, Batch
<1>3. PICK v \in {"waiting", "cancelled"} : state' = [state EXCEPT ![k] = v]
  BY <1>1 DEF Reserve
<1>4. PICK phase \in {"reserving", "launching"}, at \in Call :
        /\ Turned(b, phase, at, FALSE)
        /\ batches[b].first <= at /\ at <= batches[b].last
        /\ phase = "reserving" => at = k + 1
        /\ phase = "launching" => at = batches[b].first
  <2>1. \/ Turned(b, "launching", batches[b].first, FALSE)
        \/ k < batches[b].last /\ Turned(b, "reserving", k + 1, FALSE)
    BY <1>1, <1>2, AdvanceTurns DEF TurnInv, Phases
  <2>2. k < batches[b].last => k + 1 \in Call /\ k + 1 <= batches[b].last
                               /\ batches[b].first <= k + 1
    BY <1>2, NAssumption DEF Call, Waiters, NAssumption
  <2>3. batches[b].first <= batches[b].first
    BY <1>2
  <2> QED
    BY <1>2, <2>1, <2>2, <2>3, Zenon
<1>5. TurnTypes'
  BY <1>1, <1>2, <1>4, TypesKept DEF TurnInv, TurnTypes
<1>6. /\ batches'[b].phase = phase /\ batches'[b].at = at
      /\ batches'[b].failed = FALSE
  BY <1>4 DEF Turned
<1>7. state \in [Call -> States]
  BY DEF DispatchInv, GateInv, TypeOK, Call
<1>8. ASSUME NEW c \in CallsOf(b) PROVE Carries(b, c)
  <2>1. /\ PhaseOfCall(b, c) /\ TaskOfCall(c) /\ c \in Nat /\ c \in Call
        /\ batches[b].first <= c
    BY <1>1, <1>8, BatchHere
  <2>2. task[c] = "idle" /\ task'[c] = "idle"
    BY <1>1, <1>2, <2>1 DEF PhaseOfCall
  <2>3. k + 1 <= c => state'[c] = "none"
    BY <1>2, <1>3, <1>7, <2>1 DEF PhaseOfCall
  <2>4. PhaseOfCall(b, c)'
    BY <1>4, <1>6, <2>1, <2>2, <2>3 DEF PhaseOfCall
  <2>5. TaskOfCall(c)'
    BY <1>3, <1>7, <2>1, <2>2 DEF TaskOfCall, Settled
  <2> QED
    BY <1>2, <1>4, <1>6, <2>4, <2>5 DEF Carries, MayBeLogged, PastCall, Reserved
<1>9. Records(b)
  BY <1>1 DEF Records
<1>10. \A c \in Call \ CallsOf(b) : task'[c] = task[c] /\ state'[c] = state[c]
  BY <1>1, <1>2, <1>3, <1>7
<1>11. UNCHANGED <<streaming, over>>
  BY <1>1
<1> QED
  BY <1>1, <1>2, <1>4, <1>5, <1>8, <1>9, <1>10, <1>11, BatchTurns DEF Phases, Reserved

LEMMA LaunchNextKeeps ==
  ASSUME DispatchInv, NEW b, LaunchNext(b)
  PROVE  TurnInv'
<1> DEFINE k == batches[b].at
<1>1. /\ At(b, "launching") /\ Advance(b, "running")
      /\ UNCHANGED <<prepared, log, streaming, over>>
  BY DEF LaunchNext
<1>2. /\ b \in Batches /\ ~Ended(b) /\ TurnInv /\ batches[b].failed = FALSE
      /\ batches[b].first \in Call /\ batches[b].first <= batches[b].last
      /\ k \in Call /\ k \in Nat /\ k <= batches[b].last /\ batches[b].first <= k
      /\ batches[b].phase = "launching" /\ batches[b].last \in Nat
      /\ batches[b].first \in Nat /\ k \in CallsOf(b) /\ batches[b].last \in Call
  BY <1>1, BatchHere DEF Ended, Batch
<1>3. PICK t \in Tasks \ {"idle"} :
        /\ task' = [task EXCEPT ![k] = t]
        /\ \/ GiveBack(k) /\ t \in {"refused", "rejected"}
           \/ UNCHANGED gateVars /\ t \in {"asking", "readying"}
  BY DEF LaunchNext, Settle, Failed, Tasks
<1>4. PICK phase \in {"launching", "running"}, at \in Call :
        /\ Turned(b, phase, at, FALSE)
        /\ batches[b].first <= at /\ at <= batches[b].last
        /\ phase = "launching" => at = k + 1
        /\ phase = "running" => at = batches[b].first /\ k = batches[b].last
  <2>1. \/ k = batches[b].last /\ Turned(b, "running", batches[b].first, FALSE)
        \/ k < batches[b].last /\ Turned(b, "launching", k + 1, FALSE)
    BY <1>1, <1>2, AdvanceTurns DEF TurnInv, Phases
  <2>2. k < batches[b].last => k + 1 \in Call /\ k + 1 <= batches[b].last
                               /\ batches[b].first <= k + 1
    BY <1>2, NAssumption DEF Call, Waiters, NAssumption
  <2>3. batches[b].first <= batches[b].first
    BY <1>2
  <2> QED
    BY <1>2, <2>1, <2>2, <2>3, Zenon
<1>5. state \in [Call -> States] /\ task \in [Call -> Tasks]
  BY DEF DispatchInv, GateInv, TypeOK, Call, TurnInv, TurnTypes
<1>6. TurnTypes'
  <2>1. task' \in [Call -> Tasks]
    BY <1>3, <1>5
  <2> QED
    BY <1>1, <1>2, <1>4, <2>1, TypesKept DEF TurnInv, TurnTypes
<1>7. /\ batches'[b].phase = phase /\ batches'[b].at = at
      /\ batches'[b].failed = FALSE
  BY <1>4 DEF Turned
<1>8. /\ \A c \in Call : c # k => state'[c] = state[c] /\ task'[c] = task[c]
      /\ task'[k] = t
      /\ t \in {"asking", "readying"} => state'[k] = state[k]
      /\ t \in {"refused", "rejected"} => state'[k] = "cancelled"
  <2>1. \/ state' = [state EXCEPT ![k] = "cancelled"] /\ t \in {"refused", "rejected"}
        \/ state' = state /\ t \in {"asking", "readying"}
    BY <1>2, <1>3, GivesBack DEF gateVars
  <2> QED
    BY <1>2, <1>3, <1>5, <2>1
<1>9. ASSUME NEW c \in CallsOf(b) PROVE Carries(b, c)
  <2>1. /\ PhaseOfCall(b, c) /\ TaskOfCall(c) /\ c \in Nat /\ c \in Call
        /\ batches[b].first <= c /\ c <= batches[b].last
    BY <1>1, <1>9, BatchHere
  <2>2. task[c] = "idle" <=> k <= c
    BY <1>2, <2>1 DEF PhaseOfCall
  <2>3. task'[c] = "idle" <=> k + 1 <= c
    BY <1>2, <1>3, <1>8, <2>1, <2>2
  <2>4. PhaseOfCall(b, c)'
    BY <1>2, <1>4, <1>7, <2>1, <2>3 DEF PhaseOfCall
  <2>5. TaskOfCall(c)'
    BY <1>2, <1>3, <1>8, <2>1, <2>2 DEF TaskOfCall, Settled, Tasks
  <2>6. ~PastCall(b, c)'
    BY <1>2, <1>4, <1>7, <2>1 DEF PastCall
  <2> QED
    BY <1>2, <1>4, <1>7, <2>4, <2>5, <2>6 DEF Carries, MayBeLogged, Reserved
<1>10. Records(b)
  BY <1>1 DEF Records
<1>11. \A c \in Call \ CallsOf(b) : task'[c] = task[c] /\ state'[c] = state[c]
  BY <1>2, <1>8
<1>12. UNCHANGED <<streaming, over>>
  BY <1>1
<1> QED
  BY <1>1, <1>2, <1>4, <1>6, <1>9, <1>10, <1>11, <1>12, BatchTurns
     DEF Phases, Reserved

LEMMA CommitKeeps ==
  ASSUME DispatchInv, NEW b, Commit(b)
  PROVE  TurnInv'
<1> DEFINE k == batches[b].at
<1>1. /\ At(b, "running") /\ UNCHANGED <<state, prepared, task, streaming, over>>
  BY DEF Commit, gateVars
<1>2. /\ b \in Batches /\ ~Ended(b) /\ TurnInv /\ batches[b].failed \in BOOLEAN
      /\ batches[b].first \in Call /\ batches[b].first <= batches[b].last
      /\ k \in Call /\ k \in Nat /\ k <= batches[b].last /\ batches[b].first <= k
      /\ batches[b].phase = "running" /\ batches[b].last \in Nat
      /\ batches[b].first \in Nat /\ k \in CallsOf(b) /\ batches[b].last \in Call
  BY <1>1, BatchHere DEF Ended, Batch
<1> DEFINE f0 == batches[b].failed
           records == /\ log' = Append(log, <<"result", k>>) /\ PreviousDrained(b)
                      /\ task[k] \in {"returned", "refused"}
<1>3. PICK phase \in {"running", "draining"}, at \in Call, failed \in BOOLEAN :
        /\ Turned(b, phase, at, failed)
        /\ batches[b].first <= at /\ at <= batches[b].last
        /\ phase = "running" => at = k + 1
        /\ f0 => failed
        /\ \/ /\ UNCHANGED log /\ task[k] = "rejected" /\ failed
              /\ phase = "draining" => k = batches[b].last
           \/ /\ records /\ (phase = "draining" => k = batches[b].last)
           \/ /\ UNCHANGED log /\ task[k] \in {"returned", "refused"}
              /\ failed /\ "result" \in Failures /\ phase = "draining"
  <2>1. k < batches[b].last => k + 1 \in Call /\ k + 1 <= batches[b].last
                               /\ batches[b].first <= k + 1
    BY <1>2, NAssumption DEF Call, Waiters, NAssumption
  <2>2. batches[b].first <= batches[b].first /\ TRUE \in BOOLEAN
    BY <1>2
  <2>3. CASE task[k] = "rejected" /\ PassOver(b) /\ UNCHANGED log
    <3>1. \/ k = batches[b].last /\ Turned(b, "draining", k, TRUE)
          \/ k < batches[b].last /\ Turned(b, "running", k + 1, TRUE)
      BY <1>2, <2>3, PassOverTurns DEF TurnInv
    <3> HIDE DEF records
    <3> QED
      BY <1>2, <2>1, <2>2, <2>3, <3>1, Zenon
  <2>4. CASE records /\ Advance(b, "draining")
    <3>1. \/ k = batches[b].last /\ Turned(b, "draining", batches[b].first, f0)
          \/ k < batches[b].last /\ Turned(b, "running", k + 1, f0)
      BY <1>2, <2>4, AdvanceTurns DEF TurnInv, Phases
    <3> HIDE DEF records
    <3> QED
      BY <1>2, <2>1, <2>2, <2>4, <3>1, Zenon
  <2>5. CASE /\ task[k] \in {"returned", "refused"} /\ "result" \in Failures
             /\ batches' = [batches EXCEPT ![b].failed = TRUE,
                                           ![b].phase = "draining"]
             /\ UNCHANGED log
    <3>1. batches[b] \in Batch
      BY <1>1, BatchHere
    <3>2. batches' = [batches EXCEPT ![b] =
                       [first |-> batches[b].first, last |-> batches[b].last,
                        at |-> k, phase |-> "draining", failed |-> TRUE]]
      <4>0. PICK y \in BOOLEAN : y = TRUE
        OBVIOUS
      <4> DEFINE r == [first |-> batches[b].first, last |-> batches[b].last,
                       at |-> k, phase |-> batches[b].phase, failed |-> y]
                 m == [batches EXCEPT ![b] = r]
      <4>1. m = [batches EXCEPT ![b].failed = TRUE]
        BY <3>1, <4>0 DEF Batch
      <4>2. batches' = [m EXCEPT ![b].phase = "draining"]
        BY <2>5, <4>1
      <4>3. m[b] = r
        BY <1>2 DEF Batches
      <4>4. batches' = [m EXCEPT ![b] = [r EXCEPT !.phase = "draining"]]
        BY <4>2, <4>3
      <4>5. [r EXCEPT !.phase = "draining"] =
              [first |-> batches[b].first, last |-> batches[b].last,
               at |-> k, phase |-> "draining", failed |-> y]
        OBVIOUS
      <4>6. ASSUME NEW q, batches' = [m EXCEPT ![b] = q]
            PROVE  batches' = [batches EXCEPT ![b] = q]
        <5> HIDE DEF r
        <5> QED
          BY <4>6
      <4> HIDE DEF m, r
      <4>7. batches' = [batches EXCEPT ![b] =
                         [first |-> batches[b].first, last |-> batches[b].last,
                          at |-> k, phase |-> "draining", failed |-> y]]
        BY <4>4, <4>5, <4>6
      <4> QED
        BY <4>0, <4>7
    <3>3. Turned(b, "draining", k, TRUE)
      BY <1>2, <3>2, BatchReplaced DEF TurnInv, Phases
    <3> HIDE DEF records
    <3>4. "draining" \in {"running", "draining"} /\ "draining" # "running"
      OBVIOUS
    <3> QED
      BY <1>2, <2>2, <2>5, <3>3, <3>4, Zenon
  <2> QED
    BY <2>3, <2>4, <2>5 DEF Commit
<1>4. TurnTypes'
  <2>1. <<"result", k>> \in Record
    BY <1>2 DEF Record
  <2>2. log' \in Seq(Record)
    BY <1>2, <1>3, <2>1, LogGrows DEF TurnInv, TurnTypes
  <2> QED
    BY <1>1, <1>2, <1>3, <2>2, TypesKept DEF TurnInv, TurnTypes
<1>5. /\ batches'[b].phase = phase /\ batches'[b].at = at
      /\ batches'[b].failed = failed
  BY <1>3 DEF Turned
<1>6. Logged("result") \subseteq Logged("result")' /\ (records => k \in Logged("result")')
  <2>1. CASE records
    <3>1. <<"result", k>> \in Record
      BY <1>2 DEF Record
    <3>2. /\ DOMAIN log' = 1 .. Len(log) + 1 /\ DOMAIN log = 1 .. Len(log)
          /\ \A i \in DOMAIN log : log'[i] = log[i]
          /\ log'[Len(log) + 1] = <<"result", k>> /\ Len(log) \in Nat
      BY <1>2, <2>1, <3>1, LogGrows, BatchesAndLog DEF TurnInv
    <3>3. \A i \in DOMAIN log : i \in DOMAIN log' /\ log'[i] = log[i]
      BY <3>2
    <3>4. Len(log) + 1 \in DOMAIN log'
      BY <3>2
    <3> HIDE DEF k
    <3>5. k \in Logged("result")'
      BY <1>2, <3>2, <3>4 DEF Logged
    <3> QED
      BY <3>3, <3>5 DEF Logged
  <2> QED
    BY <1>3, <2>1 DEF Logged
<1>7. ASSUME NEW c \in CallsOf(b) PROVE Carries(b, c)
  <2>1. /\ PhaseOfCall(b, c) /\ TaskOfCall(c) /\ c \in Nat /\ c \in Call
        /\ batches[b].first <= c /\ c <= batches[b].last
        /\ c < k => \/ c \in Logged("result")
                    \/ f0 /\ (task[c] = "rejected" \/ "result" \in Failures)
    BY <1>1, <1>2, <1>7, BatchHere DEF PastCall
  <2>2. task[c] # "idle" /\ (c < k => Settled(c))
    BY <1>2, <2>1 DEF PhaseOfCall
  <2>3. phase = "running" => Settled(k)
    BY <1>3 DEF Settled
  <2>4. phase = "running" /\ c < at => Settled(c)'
    BY <1>1, <1>2, <1>3, <2>1, <2>2, <2>3 DEF Settled
  <2>5. PhaseOfCall(b, c)' /\ TaskOfCall(c)'
    BY <1>1, <1>3, <1>5, <2>1, <2>2, <2>4 DEF PhaseOfCall, TaskOfCall, Settled
  <2>6. \A kind \in {"started", "result"} :
          MayBeLogged(b, kind, c) => MayBeLogged(b, kind, c)'
    BY <1>2, <1>3, <1>5, <2>1 DEF MayBeLogged, Reserved
  <2>7. ASSUME PastCall(b, c)'
        PROVE  \/ c \in Logged("result")'
               \/ failed /\ (task'[c] = "rejected" \/ "result" \in Failures)
    <3>1. CASE c < k
      BY <1>1, <1>3, <1>6, <2>1, <3>1
    <3>2. CASE c = k
      BY <1>1, <1>3, <1>6, <3>2
    <3>3. CASE k < c
      BY <1>2, <1>3, <1>5, <2>1, <2>7, <3>3 DEF PastCall
    <3> QED
      BY <1>2, <2>1, <3>1, <3>2, <3>3
  <2> QED
    BY <1>5, <2>5, <2>6, <2>7 DEF Carries
<1>8. Records(b)
  <2>1. CASE records
    <3>1. PICK c \in Call : c = k
      BY <1>2
    <3>2. MayBeLogged(b, "result", c)'
      BY <1>2, <1>3, <1>5, <3>1 DEF MayBeLogged, Reserved
    <3>3. Recorded(b, "result", c)
      BY <1>2, <2>1, <3>1, <3>2 DEF Recorded
    <3> QED
      BY <3>3 DEF Records
  <2> QED
    BY <1>3, <2>1 DEF Records
<1>9. \A c \in Call \ CallsOf(b) : task'[c] = task[c] /\ state'[c] = state[c]
  BY <1>1
<1>10. UNCHANGED <<streaming, over>>
  BY <1>1
<1> HIDE DEF k, f0, records
<1> QED
  BY <1>2, <1>3, <1>4, <1>7, <1>8, <1>9, <1>10, BatchTurns DEF Phases, Reserved

LEMMA BatchEndsKeeps ==
  ASSUME DispatchInv, NEW b, BatchEnds(b)
  PROVE  TurnInv'
<1> DEFINE k == batches[b].first
           f == batches[b].failed
<1>1. /\ At(b, "draining") /\ \A c \in CallsOf(b) : Settled(c)
      /\ UNCHANGED <<state, prepared, task, log, streaming, over>>
  BY DEF BatchEnds, gateVars
<1>2. /\ b \in Batches /\ ~Ended(b) /\ TurnInv /\ f \in BOOLEAN /\ k \in Call
      /\ k <= batches[b].last /\ k <= k /\ batches[b].phase = "draining"
  BY <1>1, BatchHere DEF Ended, Batch
<1>3. PICK phase \in {"failed", "done"} :
        Turned(b, phase, k, f) /\ (phase = "done" => ~f)
  <2>1. CASE f /\ Enter(b, "failed")
    BY <1>2, <2>1, EnterTurns DEF TurnInv, Phases
  <2>2. CASE ~f /\ Enter(b, "done")
    BY <1>2, <2>2, EnterTurns DEF TurnInv, Phases
  <2> QED
    BY <1>2, <2>1, <2>2 DEF BatchEnds
<1>4. TurnTypes'
  BY <1>1, <1>2, <1>3, TypesKept DEF TurnInv, TurnTypes
<1>5. batches'[b].phase = phase /\ batches'[b].at = k /\ batches'[b].failed = f
  BY <1>3 DEF Turned
<1>6. ASSUME NEW c \in CallsOf(b) PROVE Carries(b, c)
  <2>1. /\ TaskOfCall(c) /\ Settled(c)
        /\ \/ c \in Logged("result")
           \/ f /\ (task[c] = "rejected" \/ "result" \in Failures)
    BY <1>1, <1>2, <1>6, BatchHere DEF PastCall
  <2>2. PhaseOfCall(b, c)' /\ TaskOfCall(c)'
    BY <1>1, <1>3, <1>5, <2>1 DEF PhaseOfCall, TaskOfCall, Settled
  <2>3. Logged("result")' = Logged("result")
    BY <1>1 DEF Logged
  <2> QED
    BY <1>1, <1>2, <1>3, <1>5, <2>1, <2>2, <2>3
       DEF Carries, MayBeLogged, PastCall, Reserved
<1>7. Records(b)
  BY <1>1 DEF Records
<1>8. \A c \in Call \ CallsOf(b) : task'[c] = task[c] /\ state'[c] = state[c]
  BY <1>1
<1>9. UNCHANGED <<streaming, over>>
  BY <1>1
<1> QED
  BY <1>1, <1>2, <1>3, <1>4, <1>6, <1>7, <1>8, <1>9, BatchTurns DEF Phases, Reserved

LEMMA StartCallsKeeps ==
  ASSUME DispatchInv, NEW last \in Call, StartCalls(last)
  PROVE  TurnInv'
<1>0. PICK n \in Nat : n = Len(batches)
  BY BatchesAndLog DEF DispatchInv, TurnInv
<1> DEFINE new == [first |-> Dispatched + 1, last |-> last,
                   at |-> Dispatched + 1, phase |-> "queued", failed |-> FALSE]
<1>1. /\ TurnInv /\ TurnTypes /\ streaming /\ Dispatched < last
      /\ batches' = Append(batches, new)
      /\ UNCHANGED <<state, prepared, task, log, streaming, over>>
  BY DEF StartCalls, DispatchInv, TurnInv, gateVars
<1>2. /\ n \in Nat /\ Batches = 1 .. n
      /\ \A b \in Batches : /\ b \in Nat \ {0} /\ batches[b] \in Batch
                            /\ batches[b].first \in Nat
                            /\ batches[b].last \in Nat
      /\ Call \subseteq Nat
  BY <1>0, <1>1, BatchesAndLog
<1>3. /\ Dispatched \in Nat
      /\ \A a \in Batches : batches[a].last <= Dispatched
  <2>1. CASE n = 0
    <3>1. batches = <<>>
      BY <1>0, <1>1, <2>1, EmptySeq DEF TurnTypes
    <3>2. \A a \in Batches : FALSE
      BY <1>2, <2>1
    <3> QED
      BY <3>1, <3>2 DEF Dispatched
  <2>2. CASE n # 0
    <3>1. batches # <<>> /\ n \in Batches
      BY <1>0, <1>1, <1>2, <2>2, EmptySeq DEF TurnTypes
    <3>2. Dispatched = batches[n].last
      BY <1>0, <3>1 DEF Dispatched
    <3>3. \A a \in Batches : a < n => batches[a].last < batches[n].first
                                      /\ batches[n].first <= batches[n].last
      BY SMTT(30), <1>1, <1>2, <3>1, BatchesAndLog DEF TurnInv, BatchInv
    <3> QED
      BY <1>2, <3>1, <3>2, <3>3
  <2> QED
    BY <2>1, <2>2
<1>4. Dispatched + 1 \in Call /\ Dispatched + 1 <= last /\ new \in Batch
  <2>1. Dispatched + 1 \in Call /\ Dispatched + 1 <= last
    BY <1>1, <1>3, NAssumption DEF Call, Waiters, NAssumption
  <2> QED
    BY <2>1 DEF Batch, Phases
<1>5. /\ batches' \in Seq(Batch) /\ Len(batches') = n + 1
      /\ Batches' = 1 .. n + 1
      /\ \A a \in Batches : batches'[a] = batches[a] /\ a \in Batches'
      /\ batches'[n + 1] = new
      /\ \A a \in Batches' : a \in Nat /\ (a \in Batches \/ a = n + 1)
  <2> HIDE DEF new
  <2>1. /\ batches' \in Seq(Batch) /\ Len(batches') = n + 1
        /\ \A a \in 1 .. n : batches'[a] = batches[a]
        /\ batches'[n + 1] = new
    BY <1>0, <1>1, <1>4, AppendProperties DEF TurnTypes
  <2>2. Batches' = 1 .. n + 1
    BY <2>1, LenProperties DEF Batches
  <2> QED
    BY <1>2, <2>1, <2>2
<1>6. /\ \A a \in Batches : CallsOf(a)' = CallsOf(a) /\ (Ended(a)' <=> Ended(a))
      /\ CallsOf(n + 1)' = Dispatched + 1 .. last
      /\ batches'[n + 1].phase = "queued"
  BY <1>5 DEF CallsOf, Ended
<1>7. \A c \in CallsOf(n + 1)' : /\ c \in Call /\ c \in Nat
                                 /\ \A a \in Batches : c \notin CallsOf(a)
  <2> SUFFICES ASSUME NEW c \in Dispatched + 1 .. last
               PROVE  c \in Call /\ c \in Nat /\ \A a \in Batches : c \notin CallsOf(a)
    BY <1>6
  <2>1. c \in Call /\ c \in Nat
    BY <1>3, <1>4, NAssumption DEF Call, Waiters, NAssumption
  <2>2. \A a \in Batches : ~(c <= batches[a].last)
    BY <1>2, <1>3
  <2> QED
    BY <2>1, <2>2 DEF CallsOf
<1> HIDE DEF new
<1>8. TurnTypes'
  BY <1>1, <1>5 DEF TurnTypes
<1>9. BatchInv'
  <2>1. ASSUME NEW b \in Batches', NEW a \in Batches', a < b
        PROVE  batches'[a].last < batches'[b].first
    <3>1. a \in Batches
      BY <1>2, <1>5, <2>1
    <3>2. CASE b \in Batches
      BY <1>1, <1>5, <2>1, <3>1, <3>2 DEF TurnInv, BatchInv
    <3>3. CASE b = n + 1
      <4>1. batches'[b].first = Dispatched + 1
        BY <1>5, <3>3 DEF new
      <4> QED
        BY <1>2, <1>3, <1>5, <3>1, <4>1
    <3> QED
      BY <1>5, <3>2, <3>3
  <2>2. ASSUME NEW b \in Batches'
        PROVE  /\ batches'[b].first <= batches'[b].at
               /\ batches'[b].at <= batches'[b].last
               /\ batches'[b].phase \notin {"running", "draining", "failed"} =>
                    ~batches'[b].failed
    <3>1. CASE b \in Batches
      BY <1>1, <1>5, <3>1 DEF TurnInv, BatchInv
    <3>2. CASE b = n + 1
      BY <1>3, <1>4, <1>5, <3>2 DEF new
    <3> QED
      BY <1>5, <3>1, <3>2
  <2> QED
    BY <2>1, <2>2 DEF BatchInv
<1>10. ScheduleInv'
  <2> SUFFICES ASSUME NEW a \in Batches', NEW b \in Batches', a < b,
                      batches'[b].phase # "queued"
               PROVE  batches'[a].phase \in Reserved
    BY DEF ScheduleInv
  <2>1. b \in Batches
    BY <1>5, <1>6
  <2>2. a \in Batches
    BY <1>2, <1>5, <2>1
  <2> QED
    BY <1>1, <1>5, <2>1, <2>2 DEF TurnInv, ScheduleInv
<1>11. TaskInv'
  <2> SUFFICES ASSUME NEW c \in Call
               PROVE  /\ TaskOfCall(c)'
                      /\ Untouched(c)' \/ \E b \in Batches' : c \in CallsOf(b)'
    BY DEF TaskInv
  <2>1. TaskOfCall(c) /\ (Untouched(c) \/ \E b \in Batches : c \in CallsOf(b))
    BY <1>1 DEF TurnInv, TaskInv
  <2> QED
    BY <1>1, <1>5, <1>6, <2>1 DEF TaskOfCall, Untouched, Settled
<1>12. PhaseInv'
  <2> SUFFICES ASSUME NEW b \in Batches', NEW c \in CallsOf(b)'
               PROVE  PhaseOfCall(b, c)'
    BY DEF PhaseInv
  <2>1. CASE b \in Batches
    BY <1>1, <1>5, <1>6, <2>1
       DEF TurnInv, PhaseInv, PhaseOfCall, Settled, Untouched
  <2>2. CASE b = n + 1
    BY <1>1, <1>6, <1>7, <2>2
       DEF TurnInv, TaskInv, PhaseOfCall, Settled, Untouched
  <2> QED
    BY <1>5, <2>1, <2>2
<1>13. LogInv'
  <2>1. ASSUME NEW i \in DOMAIN log, NEW b \in Batches', log[i][2] \in CallsOf(b)'
        PROVE  b \in Batches /\ batches'[b] = batches[b]
               /\ log[i][2] \in CallsOf(b)
    <3>1. PICK a \in Batches : log[i][2] \in CallsOf(a)
      BY <1>1 DEF TurnInv, LogInv
    <3>2. b # n + 1
      BY <1>7, <2>1, <3>1
    <3> QED
      BY <1>5, <1>6, <2>1, <3>2
  <2>2. ASSUME NEW i \in DOMAIN log, NEW b \in Batches', log[i][2] \in CallsOf(b)'
        PROVE  MayBeLogged(b, log[i][1], log[i][2])'
    BY <1>1, <2>1, <2>2 DEF TurnInv, LogInv, MayBeLogged
  <2>3. \A i \in DOMAIN log : \E b \in Batches' : log[i][2] \in CallsOf(b)'
    BY <1>1, <1>5, <1>6 DEF TurnInv, LogInv
  <2> QED
    BY <1>1, <2>2, <2>3 DEF TurnInv, LogInv
<1>14. CommitInv'
  <2> SUFFICES ASSUME NEW b \in Batches', NEW c \in CallsOf(b)', PastCall(b, c)'
               PROVE  \/ c \in Logged("result")'
                      \/ /\ batches'[b].failed
                         /\ task'[c] = "rejected" \/ "result" \in Failures
                      \/ batches'[b].phase = "failed" /\ task'[c] = "idle"
    BY DEF CommitInv
  <2>1. b \in Batches
    BY <1>5, <1>6 DEF PastCall
  <2>2. batches'[b] = batches[b] /\ c \in CallsOf(b) /\ PastCall(b, c)
    BY <1>5, <1>6, <2>1 DEF PastCall
  <2> QED
    BY <1>1, <2>1, <2>2 DEF TurnInv, CommitInv, Logged
<1>15. \A a, d \in Batches : FailedBetween(a, d) => FailedBetween(a, d)'
  BY <1>5 DEF FailedBetween
<1>16. \A i \in DOMAIN log : \A b \in Batches' :
         log[i][2] \in CallsOf(b)' => b \in Batches /\ log[i][2] \in CallsOf(b)
  <2> SUFFICES ASSUME NEW i \in DOMAIN log, NEW b \in Batches',
                      log[i][2] \in CallsOf(b)'
               PROVE  b \in Batches /\ log[i][2] \in CallsOf(b)
    OBVIOUS
  <2>1. PICK a \in Batches : log[i][2] \in CallsOf(a)
    BY <1>1 DEF TurnInv, LogInv
  <2> QED
    BY <1>5, <1>6, <1>7, <2>1
<1>17. AheadInv'
  <2> SUFFICES ASSUME NEW i \in DOMAIN log, NEW a \in Batches', NEW d \in Batches',
                      log[i][1] = "result", log[i][2] \in CallsOf(d)', a < d,
                      ~Ended(a)'
               PROVE  FailedBetween(a, d)'
    BY <1>1 DEF AheadInv
  <2>1. d \in Batches /\ log[i][2] \in CallsOf(d) /\ a \in Batches
    BY <1>2, <1>5, <1>16
  <2> QED
    BY <1>1, <1>6, <1>15, <2>1 DEF TurnInv, AheadInv
<1>18. OrderInv'
  <2> SUFFICES ASSUME NEW i \in DOMAIN log, NEW j \in DOMAIN log,
                      NEW a \in Batches', NEW d \in Batches', i < j,
                      log[i][1] = "result", log[j][1] = "result",
                      log[j][2] < log[i][2],
                      log[j][2] \in CallsOf(a)', log[i][2] \in CallsOf(d)'
               PROVE  FailedBetween(a, d)'
    BY <1>1 DEF OrderInv
  <2> QED
    BY <1>1, <1>15, <1>16 DEF TurnInv, OrderInv
<1>19. OverInv'
  BY <1>1 DEF TurnInv, OverInv
<1> QED
  BY <1>8, <1>9, <1>10, <1>11, <1>12, <1>13, <1>14, <1>17, <1>18, <1>19
     DEF TurnInv

\* The end of the stream and of the Turn.
LEMMA EndingKeeps ==
  ASSUME DispatchInv, EndStream \/ TurnEnds
  PROVE  TurnInv'
<1>1. /\ TurnInv /\ UNCHANGED <<state, batches, prepared, task, log>>
      /\ streaming' \in BOOLEAN /\ over' \in BOOLEAN
      /\ over' => ~streaming' /\ \A b \in Batches : Ended(b)
  <2>1. /\ TurnInv /\ streaming \in BOOLEAN /\ over \in BOOLEAN
        /\ over => \A b \in Batches : Ended(b)
    BY DEF DispatchInv, TurnInv, TurnTypes, OverInv
  <2>2. CASE EndStream
    BY <2>1, <2>2 DEF EndStream, gateVars
  <2>3. CASE TurnEnds
    BY <2>1, <2>3 DEF TurnEnds, gateVars, Batches
  <2> QED
    BY <2>2, <2>3
<1>2. /\ TurnTypes' /\ BatchInv' /\ ScheduleInv' /\ OverInv'
  BY <1>1 DEF TurnInv, TurnTypes, BatchInv, ScheduleInv, OverInv, Ended, Batches
<1>3. TaskInv' /\ PhaseInv'
  BY <1>1 DEF TurnInv, TaskInv, PhaseInv, PhaseOfCall, TaskOfCall, Untouched,
     Settled, Batches, CallsOf
<1>4. LogInv' /\ CommitInv'
  BY <1>1 DEF TurnInv, LogInv, MayBeLogged, CommitInv, PastCall, Logged, Batches,
     CallsOf
<1>5. AheadInv' /\ OrderInv'
  BY <1>1 DEF TurnInv, AheadInv, OrderInv, FailedBetween, Ended, Batches, CallsOf
<1> QED
  BY <1>2, <1>3, <1>4, <1>5 DEF TurnInv

LEMMA StutterKeeps ==
  ASSUME DispatchInv, UNCHANGED vars
  PROVE  TurnInv'
<1>1. UNCHANGED <<state, task, batches, prepared, log, streaming, over>>
  BY DEF vars, gateVars, turnVars
<1>2. task' \in [Call -> Tasks]
  BY <1>1 DEF DispatchInv, TurnInv, TurnTypes
<1>3. ASSUME NEW c \in Call PROVE Moves(c)
  BY <1>1, StateOfCall DEF Moves, TaskOfCall, Settled
<1> QED
  BY <1>1, <1>2, <1>3, CallsMove DEF DispatchInv

LEMMA TurnStep ==
  ASSUME DispatchInv, [DispatchNext]_vars
  PROVE  TurnInv'
<1>1. CASE UNCHANGED vars
  BY <1>1, StutterKeeps
<1>2. ASSUME NEW c \in Call, StartCalls(c) \/ CallStep(c) PROVE TurnInv'
  BY <1>2, StartCallsKeeps, CallStepKeeps
<1>3. ASSUME NEW b \in DOMAIN batches, BatchStep(b) PROVE TurnInv'
  BY <1>3, PrepareKeeps, RecordStartedKeeps, ReserveNextKeeps, LaunchNextKeeps,
     CommitKeeps, BatchEndsKeeps DEF BatchStep
<1>4. CASE EndStream \/ TurnEnds
  BY <1>4, EndingKeeps
<1>5. CASE Stop \/ GateLoop
  BY <1>5, GateLoopKeeps
<1> QED
  BY <1>1, <1>2, <1>3, <1>4, <1>5 DEF DispatchNext

-----------------------------------------------------------------------------
(* The batches of a Turn use the gate as it asks to be used.               *)

\* Nothing behind a call that reserves has reserved yet.
LEMMA ReservesInOrder ==
  ASSUME DispatchInv, NEW b, At(b, "reserving"),
         NEW d \in Call, batches[b].at < d
  PROVE  state[d] = "none"
<1> DEFINE k == batches[b].at
<1>1. /\ TurnInv /\ TurnTypes /\ BatchInv /\ b \in Batches
      /\ batches[b].phase = "reserving" /\ k \in CallsOf(b)
  BY BatchHere DEF TurnInv
<1>2. CASE Untouched(d)
  BY <1>2 DEF Untouched
<1>3. ASSUME NEW a \in Batches, d \in CallsOf(a) PROVE state[d] = "none"
  <2>1. a \in Nat /\ b \in Nat /\ k \in Nat /\ d \in Nat
    <3>1. k \in Call
      BY <1>1, CallsApart
    <3> QED
      BY <1>1, <3>1, BatchesAndLog
  <2>2. ~(a < b)
    BY <1>1, <1>3, <2>1, CallsApart
  <2>3. CASE a = b
    <3>1. PhaseOfCall(b, d)
      BY <1>1, <1>3, <2>3 DEF TurnInv, PhaseInv
    <3> QED
      BY <1>1, <2>1, <3>1 DEF PhaseOfCall
  <2>4. CASE b < a
    <3>1. batches[a].phase = "queued"
      BY <1>1, <1>3, <2>4 DEF TurnInv, ScheduleInv, Reserved
    <3>2. PhaseOfCall(a, d)
      BY <1>1, <1>3 DEF TurnInv, PhaseInv
    <3> QED
      BY <3>1, <3>2 DEF PhaseOfCall, Untouched
  <2> QED
    BY <2>1, <2>2, <2>3, <2>4
<1> QED
  BY <1>1, <1>2, <1>3 DEF TurnInv, TaskInv

LEMMA GateStep ==
  ASSUME DispatchInv, [DispatchNext]_vars
  PROVE  [Next]_gateVars
<1>1. CASE UNCHANGED vars
  BY <1>1 DEF vars
<1>2. ASSUME NEW c \in Call, StartCalls(c) PROVE [Next]_gateVars
  BY <1>2 DEF StartCalls
<1>3. ASSUME NEW c \in Call, CallStep(c) PROVE [Next]_gateVars
  <2>1. \/ UNCHANGED gateVars \/ Cancel(c) \/ Run(c) \/ Begin(c) \/ End(c)
        \/ Release(c)
    BY <1>3 DEF CallStep, Allow, Deny, RunCall, NotReady, RunRejected, BeginCall,
       EndCall, ReleaseCall, GiveBack
  <2> QED
    BY <2>1 DEF Next, Call
<1>4. ASSUME NEW b \in DOMAIN batches, BatchStep(b) PROVE [Next]_gateVars
  <2>1. CASE Prepare(b) \/ RecordStarted(b) \/ Commit(b) \/ BatchEnds(b)
    BY <2>1 DEF Prepare, RecordStarted, Commit, BatchEnds
  <2>2. CASE ReserveNext(b)
    <3>1. At(b, "reserving") /\ Reserve(batches[b].at)
      BY <2>2 DEF ReserveNext
    <3>2. batches[b].at \in Call
      BY <3>1, BatchHere
    <3>3. ReserveNumber(batches[b].at)
      BY <3>1, ReservesInOrder DEF ReserveNumber, Call
    <3> QED
      BY <3>2, <3>3 DEF Next, Call
  <2>3. CASE LaunchNext(b)
    <3>1. At(b, "launching") /\ (UNCHANGED gateVars \/ GiveBack(batches[b].at))
      BY <2>3 DEF LaunchNext
    <3>2. batches[b].at \in Call
      BY <3>1, BatchHere
    <3> QED
      BY <3>1, <3>2 DEF GiveBack, Next, Call
  <2> QED
    BY <1>4, <2>1, <2>2, <2>3 DEF BatchStep
<1>5. CASE EndStream \/ TurnEnds
  BY <1>5 DEF EndStream, TurnEnds
<1>6. CASE Stop \/ GateLoop
  BY <1>6 DEF Stop, GateLoop, Next, Call
<1> QED
  BY <1>1, <1>2, <1>3, <1>4, <1>5, <1>6 DEF DispatchNext

LEMMA DispatchStart == DispatchInit => DispatchInv
<1> SUFFICES ASSUME DispatchInit PROVE DispatchInv
  OBVIOUS
<1>1. GateInv
  BY InitInv DEF DispatchInit
<1>2. /\ batches = <<>> /\ log = <<>> /\ over = FALSE /\ streaming = TRUE
      /\ prepared = [c \in Call |-> "none"] /\ task = [c \in Call |-> "idle"]
      /\ state = [c \in Call |-> "none"]
  BY DEF DispatchInit, Init, Call
<1>3. TurnTypes
  BY <1>2, EmptySeq DEF TurnTypes, Tasks
<1>4. (\A b \in Batches : FALSE) /\ (\A i \in DOMAIN log : FALSE)
  BY <1>2, <1>3, BatchesAndLog, EmptySeq
<1>5. \A c \in Call : TaskOfCall(c) /\ Untouched(c)
  BY <1>2 DEF TaskOfCall, Untouched, Settled
<1> QED
  BY <1>1, <1>2, <1>3, <1>4, <1>5 DEF DispatchInv, TurnInv, BatchInv, ScheduleInv,
     TaskInv, PhaseInv, LogInv, CommitInv, AheadInv, OrderInv, OverInv

\* The invariant of a Turn and its gate.
THEOREM DispatchInvHolds == DispatchSpec => []DispatchInv
<1>1. DispatchInv /\ [DispatchNext]_vars => DispatchInv'
  BY GateStep, TurnStep, NextInv DEF DispatchInv
<1> QED
  BY <1>1, DispatchStart, PTL DEF DispatchSpec

\* A Turn uses the gate only as the specification of the gate allows: every
\* theorem about the gate holds in a Turn, and so its calls keep the order
\* promised to the model.
THEOREM GateServesTurn == DispatchSpec => Spec /\ ImplementsOrder
<1>1. DispatchInit => Init
  BY DEF DispatchInit
<1>2. DispatchInv /\ [DispatchNext]_vars => [Next]_gateVars
  BY GateStep
<1>3. DispatchSpec => Spec
  BY <1>1, <1>2, DispatchInvHolds, PTL DEF DispatchSpec, Spec
<1> QED
  BY <1>3, OrderImplemented

-----------------------------------------------------------------------------
(* The properties.                                                         *)

\* Results are recorded in the order of the calls, each once; only a failed
\* batch lets a later one go ahead of those before it.
THEOREM ResultsInCallOrderHolds == DispatchSpec => []ResultsInCallOrder
<1>1. DispatchInv => ResultsInCallOrder
  <2> SUFFICES ASSUME DispatchInv PROVE ResultsInCallOrder
    OBVIOUS
  <2>1. TurnInv /\ TurnTypes /\ BatchInv /\ LogInv
    BY DEF DispatchInv, TurnInv
  <2>2. ASSUME NEW b \in Batches, NEW c \in CallsOf(b) PROVE BatchOf(c) = b
    <3>1. \A a \in Batches : c \in CallsOf(a) => a = b
      BY <2>1, CallsApart
    <3> QED
      BY <2>2, <3>1 DEF BatchOf, Batches
  <2>3. ASSUME NEW i \in DOMAIN log, NEW j \in DOMAIN log, i < j,
               log[i][1] = "result", log[j][1] = "result",
               log[j][2] < log[i][2]
        PROVE  \E b \in DOMAIN batches :
                 /\ BatchOf(log[j][2]) < b /\ b < BatchOf(log[i][2])
                 /\ batches[b].phase = "failed"
    <3>1. PICK a \in Batches : log[j][2] \in CallsOf(a)
      BY <2>1 DEF LogInv
    <3>2. PICK d \in Batches : log[i][2] \in CallsOf(d)
      BY <2>1 DEF LogInv
    <3>3. FailedBetween(a, d)
      BY <2>1, <2>3, <3>1, <3>2 DEF TurnInv, OrderInv
    <3>4. BatchOf(log[j][2]) = a /\ BatchOf(log[i][2]) = d
      BY <2>2, <3>1, <3>2
    <3> QED
      BY <3>3, <3>4 DEF FailedBetween, Batches
  <2> QED
    BY <2>1, <2>3 DEF ResultsInCallOrder, LogInv
<1> QED
  BY <1>1, DispatchInvHolds, PTL

\* A call of a Turn that is over has never begun or has a result.
LEMMA OverSettled ==
  ASSUME DispatchInv, over, NEW c \in Call
  PROVE  \/ Untouched(c)
         \/ Settled(c) /\ \E b \in Batches : c \in CallsOf(b) /\ Ended(b)
<1>1. CASE ~Untouched(c)
  <2>1. PICK b \in Batches : c \in CallsOf(b)
    BY <1>1 DEF DispatchInv, TurnInv, TaskInv
  <2>2. Ended(b)
    BY <2>1 DEF DispatchInv, TurnInv, OverInv
  <2>3. PhaseOfCall(b, c)
    BY <2>1 DEF DispatchInv, TurnInv, PhaseInv
  <2> QED
    BY <1>1, <2>1, <2>2, <2>3 DEF PhaseOfCall, Ended
<1> QED
  BY <1>1

\* When the Turn settles nothing of it waits for the gate or runs in it.
THEOREM NothingOutlivesTurnHolds == DispatchSpec => []NothingOutlivesTurn
<1>1. DispatchInv => NothingOutlivesTurn
  <2> SUFFICES ASSUME DispatchInv, over
               PROVE  /\ queue = <<>>
                      /\ \A c \in Call : state[c] \notin {"admitted", "running"}
    BY DEF NothingOutlivesTurn
  <2>1. ASSUME NEW c \in Call
        PROVE  state[c] \in {"none", "settled", "released", "cancelled"}
    BY OverSettled, StateOfCall DEF Untouched, TaskOfCall
  <2>2. CASE queue # <<>>
    <3>1. Head(queue) \in Call /\ state[Head(queue)] \in {"waiting", "ready"}
      BY <2>2, HeadOfQueue DEF DispatchInv, GateInv, InQueue, Call
    <3> QED
      BY <2>1, <3>1
  <2> QED
    BY <2>1, <2>2
<1> QED
  BY <1>1, DispatchInvHolds, PTL

\* What a tool returned is recorded before the Turn settles, unless results
\* fail to be recorded.
THEOREM EffectsRecordedHolds ==
  ASSUME "result" \notin Failures
  PROVE  DispatchSpec => []EffectsRecorded
<1>1. DispatchInv => EffectsRecorded
  <2> SUFFICES ASSUME DispatchInv, over, NEW c \in Call, task[c] = "returned"
               PROVE  c \in Logged("result")
    BY DEF EffectsRecorded
  <2>1. PICK b \in Batches : c \in CallsOf(b) /\ Ended(b)
    BY OverSettled DEF Untouched
  <2>2. PastCall(b, c)
    BY <2>1 DEF PastCall, Ended
  <2> QED
    BY <2>1, <2>2 DEF DispatchInv, TurnInv, CommitInv
<1> QED
  BY <1>1, DispatchInvHolds, PTL
=============================================================================
