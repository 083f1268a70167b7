---------------------------- MODULE Session_proof ----------------------------
(***************************************************************************)
(* Theorems about Session, for any scripts and failures: the records of a  *)
(* Turn are bracketed by its start and its end, an agent message is in the *)
(* rollout once, an agent's input is executed once, a fork reads its       *)
(* snapshot undisturbed, nothing is written once the loop has waited for   *)
(* the last Turn, and a Turn that recorded its input has consumed its      *)
(* steering when it completes.  Unless a save has failed, the status       *)
(* between Turns is the one of the rollout, and the history follows it;    *)
(* as long as none fails, a continuation follows the Turn it resumes.  As  *)
(* long as the process does not crash, an acknowledged message is saved.   *)
(*                                                                         *)
(* What the invariant says: whose closures are on the mutation queue at    *)
(* each place of the Turn, what of the Turn is in the rollout by then, and *)
(* that the sets from which a Session knows what it has seen before cover  *)
(* what its rollout holds.  Theorems that need more have an invariant of   *)
(* their own beside it.                                                    *)
(***************************************************************************)
EXTENDS Session, SequenceTheorems, FiniteSetTheorems, WellFoundedInduction,
        TLAPS

-----------------------------------------------------------------------------
(* Types.                                                                  *)

\* Strings; the prover has to be told which literals are strings.
Outcomes == {"none", "completed", "failed", "interrupted"}
Names ==
  STRING \cup Outcomes
    \cup {Interruption, ToolResult, "agent failed", "Task capture failed.",
          "Turn persistence failed."}
Ids == STRING \ {"none"}
RecordTypes ==
  {"turn_started", "response_item", "turn_completed", "agent_message",
   "agent_status"}
RecordType == [type : RecordTypes, id : Names, turn : Names]
Sources == {"human", "agent", "runtime"}
Kinds ==
  {"turn_input", "compact", "resume_turn", "interrupt", "fail_agent",
   "agent_message", "fork_barrier", "shutdown", "shutdown_if_idle"}
InputType == [id : STRING, source : Sources]
MutationType ==
  [kind : {"input", "steering", "tool", "message"}, id : Names, turn : Names,
   stage : {"queued", "appending", "resaving", "refused", "flushing"}]

\* The places of a Turn while its task runs, and while it is being finished.
TaskPlaces ==
  {"preparing", "starting", "inspecting", "restarting", "running",
   "completing", "stopped"}
FinishPlaces ==
  {"failing", "failed", "draining", "terminating", "flushing", "stuck"}
TurnType ==
  [id : Ids, source : Sources, type : Kinds, at : TaskPlaces \cup FinishPlaces,
   accepting : BOOLEAN, finishing : BOOLEAN, aborted : BOOLEAN,
   pendingStart : BOOLEAN, inputRecorded : BOOLEAN, steering : Seq(InputType),
   taken : Seq(InputType), seen : SUBSET STRING, tool : BOOLEAN, ahead : Nat,
   outcome : Outcomes, cleanupFailed : BOOLEAN,
   escalation : {"none", "armed", "aborting", "ended"}]

TypeInv ==
  /\ log \in Seq(RecordType)
  /\ mutations \in Seq(MutationType)
  /\ turn \in TurnType \cup {NoTurn}
  /\ loop = "reading" => current \in Commands

-----------------------------------------------------------------------------
(* The rollout.                                                            *)

Unowned == {"agent_message", "agent_status"}
Terminal(r) == r.type = "turn_completed" \/ r.id = Interruption
StartOf(l, s, t) == l[s].type = "turn_started" /\ l[s].turn = t
Begun(l, t) == \E s \in DOMAIN l : StartOf(l, s, t)

\* The rollout l is one whose messages are among known and whose Turns are
\* among started: a message is there once, a start once and with its own id,
\* only what belongs to no Turn has no Turn, only the end of a Turn that never
\* began is without a start before it, and from its start on the records of a
\* Turn have nothing of other Turns between them, and its end last.
RecordOK(l, k, known, started) ==
  /\ l[k].turn = "none" <=> l[k].type \in Unowned
  /\ l[k].type = "agent_message" =>
       /\ l[k].id \in known
       /\ \A i \in DOMAIN l :
            l[i].type = "agent_message" /\ l[i].id = l[k].id => i = k
  /\ l[k].type = "turn_started" =>
       /\ l[k].id = l[k].turn /\ l[k].turn \in started
       /\ \A s \in DOMAIN l : StartOf(l, s, l[k].turn) => s = k
  /\ l[k].type = "response_item" /\ ~ Terminal(l[k]) =>
       \E s \in 1 .. k - 1 : StartOf(l, s, l[k].turn)
  /\ l[k].turn # "none" =>
       \A s \in 1 .. k - 1 : StartOf(l, s, l[k].turn) =>
         \A j \in s .. k - 1 : /\ l[j].turn \in {l[k].turn, "none"}
                               /\ l[j].type # "turn_completed"
LogOK(l, known, started) ==
  \A k \in DOMAIN l : RecordOK(l, k, known, started)

\* Since its start nothing but records of the Turn t is in the rollout, and
\* its end only if the Turn is where it has appended it.
Active(l, t, at) ==
  \A s, j \in DOMAIN l : StartOf(l, s, t) /\ s < j =>
    /\ l[j].turn \in {t, "none"}
    /\ l[j].type = "turn_completed" => at \in {"terminating", "flushing"}

-----------------------------------------------------------------------------
(* The inductive invariant.                                                *)

\* The loop waits for the one message it has queued; every other closure is
\* of the active Turn and, once the Turn is being finished, among those it
\* waits for.
QueueInv ==
  /\ \A i \in DOMAIN mutations :
       IF mutations[i].kind = "message"
       THEN /\ loop = "recording_message"
            /\ \A j \in DOMAIN mutations :
                 mutations[j].kind = "message" => j = i
            /\ mutations[i].stage = "flushing" => mutations[i].id \in accepted
       ELSE /\ ~ Idle /\ mutations[i].turn = turn.id
            /\ turn.finishing => i <= turn.ahead
  /\ ~ Idle =>
       /\ turn.finishing <=> turn.at \in FinishPlaces
       /\ turn.at \in {"failed", "terminating", "flushing"} => turn.ahead = 0

\* What the loop has waited for.
LoopInv ==
  /\ loop \in {"fork_flushing", "forking"} => Idle
  /\ loop \in {"disposing", "done", "failed"} => Idle \/ turn.at = "stuck"

\* The Session knows the messages and the Turns that its rollout holds.
LogInv == LogOK(log, received \cup accepted, submitted)

\* What of the active Turn is in the rollout.
TurnInv ==
  ~ Idle =>
    /\ turn.id \in submitted
    /\ turn.at = "preparing" => ~ Begun(log, turn.id)
    /\ turn.at \in {"starting", "restarting", "running", "completing"} =>
         Begun(log, turn.id)
    /\ turn.type = "turn_input" /\ turn.inputRecorded => Begun(log, turn.id)
    /\ \A i \in DOMAIN mutations :
         mutations[i].kind # "message" => Begun(log, turn.id)
    /\ Active(log, turn.id, turn.at)

IInv == TypeInv /\ QueueInv /\ LoopInv /\ LogInv /\ TurnInv

-----------------------------------------------------------------------------
(* Records that are appended.                                              *)

\* The records of a rollout that is one longer.
LEMMA Longer ==
  ASSUME NEW R, NEW l \in Seq(R), NEW r \in R
  PROVE  /\ l \o <<r>> \in Seq(R)
         /\ Len(l) \in Nat /\ DOMAIN l = 1 .. Len(l)
         /\ DOMAIN (l \o <<r>>) = 1 .. Len(l) + 1
         /\ \A i \in 1 .. Len(l) : (l \o <<r>>)[i] = l[i]
         /\ (l \o <<r>>)[Len(l) + 1] = r
<1>1. /\ <<r>> \in Seq(R) /\ Len(<<r>>) = 1 /\ <<r>>[1] = r
  OBVIOUS
<1>2. Len(l) \in Nat /\ DOMAIN l = 1 .. Len(l)
  BY LenProperties
<1>3. /\ l \o <<r>> \in Seq(R) /\ Len(l \o <<r>>) = Len(l) + 1
      /\ \A i \in 1 .. Len(l) + 1 :
           (l \o <<r>>)[i] = IF i <= Len(l) THEN l[i] ELSE <<r>>[i - Len(l)]
  BY <1>1, ConcatProperties
<1>4. DOMAIN (l \o <<r>>) = 1 .. Len(l) + 1
  BY <1>3, LenProperties
<1> QED
  BY <1>1, <1>2, <1>3, <1>4

\* What a Turn may append next.
Fits(l, r, known, started) ==
  /\ r.turn = "none" <=> r.type \in Unowned
  /\ r.type = "agent_message" =>
       /\ r.id \in known
       /\ \A i \in DOMAIN l : ~ (l[i].type = "agent_message" /\ l[i].id = r.id)
  /\ r.type = "turn_started" =>
       r.id = r.turn /\ r.turn \in started /\ ~ Begun(l, r.turn)
  /\ r.type = "response_item" /\ ~ Terminal(r) => Begun(l, r.turn)
  /\ r.turn # "none" => Active(l, r.turn, "running")

LEMMA RecordAppended ==
  ASSUME NEW l \in Seq(RecordType), NEW r \in RecordType,
         NEW known, NEW started, NEW before, NEW began,
         LogOK(l, before, began), before \subseteq known, began \subseteq started,
         Fits(l, r, known, started)
  PROVE  /\ l \o <<r>> \in Seq(RecordType)
         /\ LogOK(l \o <<r>>, known, started)
<1> DEFINE n == Len(l)
           m == l \o <<r>>
<1>1. /\ m \in Seq(RecordType) /\ n \in Nat /\ DOMAIN l = 1 .. n
      /\ DOMAIN m = 1 .. n + 1
      /\ \A i \in 1 .. n : m[i] = l[i]
      /\ m[n + 1] = r
  BY Longer
<1> HIDE DEF n, m
<1>2. ASSUME NEW k \in 1 .. n PROVE RecordOK(m, k, known, started)
  <2>1. RecordOK(l, k, before, began) /\ m[k] = l[k]
    BY <1>1 DEF LogOK
  <2>2. l[k].type = "agent_message" =>
          \A i \in DOMAIN m :
            m[i].type = "agent_message" /\ m[i].id = l[k].id => i = k
    BY <1>1, <2>1 DEF RecordOK, Fits
  <2>3. l[k].type = "turn_started" =>
          \A s \in DOMAIN m : StartOf(m, s, l[k].turn) => s = k
    BY <1>1, <2>1 DEF RecordOK, Fits, Begun, StartOf
  <2>4. \A s \in 1 .. k - 1 : s \in 1 .. n /\ m[s] = l[s]
    BY <1>1
  <2>5. l[k].type = "response_item" /\ ~ Terminal(l[k]) =>
          \E s \in 1 .. k - 1 : StartOf(m, s, l[k].turn)
    BY <2>1, <2>4 DEF RecordOK, StartOf
  <2>6. l[k].turn # "none" =>
          \A s \in 1 .. k - 1 : StartOf(m, s, l[k].turn) =>
            \A j \in s .. k - 1 : /\ m[j].turn \in {l[k].turn, "none"}
                                  /\ m[j].type # "turn_completed"
    BY <2>1, <2>4 DEF RecordOK, StartOf
  <2> QED
    BY <2>1, <2>2, <2>3, <2>5, <2>6 DEF RecordOK
<1>3. RecordOK(m, n + 1, known, started)
  <2>1. r.type = "agent_message" =>
          \A i \in DOMAIN m :
            m[i].type = "agent_message" /\ m[i].id = r.id => i = n + 1
    BY <1>1 DEF Fits
  <2>2. r.type = "turn_started" =>
          \A s \in DOMAIN m : StartOf(m, s, r.turn) => s = n + 1
    BY <1>1 DEF Fits, Begun, StartOf
  <2>3. r.type = "response_item" /\ ~ Terminal(r) =>
          \E s \in 1 .. n : StartOf(m, s, r.turn)
    BY <1>1 DEF Fits, Begun, StartOf
  <2>4. ASSUME r.turn # "none", NEW s \in 1 .. n, StartOf(m, s, r.turn),
               NEW j \in s .. n
        PROVE  m[j].turn \in {r.turn, "none"} /\ m[j].type # "turn_completed"
    <3>1. StartOf(l, s, r.turn) /\ j \in 1 .. n /\ m[j] = l[j] /\ m[s] = l[s]
      BY <1>1, <2>4 DEF StartOf
    <3>2. CASE j = s
      BY <3>1, <3>2 DEF StartOf
    <3>3. CASE s < j
      BY <3>1, <3>3, <1>1, <2>4 DEF Fits, Active
    <3> QED
      BY <3>2, <3>3, <3>1
  <2> QED
    BY <1>1, <2>1, <2>2, <2>3, <2>4 DEF RecordOK, Fits
<1> QED
  BY <1>1, <1>2, <1>3 DEF LogOK, m, n

\* The Turn that is active stays so.
LEMMA StaysActive ==
  ASSUME NEW l \in Seq(RecordType), NEW r \in RecordType, NEW t, NEW at, NEW to,
         Active(l, t, at),
         at \in {"terminating", "flushing"} => to \in {"terminating", "flushing"},
         \/ r.turn = "none" /\ r.type # "turn_completed"
         \/ /\ r.turn = t
            /\ r.type = "turn_completed" => to \in {"terminating", "flushing"}
         \/ ~ Begun(l, t)
  PROVE  Active(l \o <<r>>, t, to)
<1> DEFINE n == Len(l)
           m == l \o <<r>>
<1>1. /\ n \in Nat /\ DOMAIN l = 1 .. n /\ DOMAIN m = 1 .. n + 1
      /\ \A i \in 1 .. n : m[i] = l[i]
      /\ m[n + 1] = r
  BY Longer
<1> HIDE DEF n, m
<1> SUFFICES ASSUME NEW s \in DOMAIN m, NEW j \in DOMAIN m, StartOf(m, s, t), s < j
             PROVE  /\ m[j].turn \in {t, "none"}
                    /\ m[j].type = "turn_completed" =>
                         to \in {"terminating", "flushing"}
  BY DEF Active, m
<1>2. s \in 1 .. n /\ StartOf(l, s, t)
  BY <1>1 DEF StartOf
<1>3. CASE j \in 1 .. n
  BY <1>1, <1>2, <1>3 DEF Active
<1>4. CASE j = n + 1
  BY <1>1, <1>2, <1>4 DEF Begun
<1> QED
  BY <1>1, <1>3, <1>4

\* It matters only whether the Turn is where it has appended its end.
LEMMA ActiveAt ==
  ASSUME NEW l, NEW t, NEW at, NEW to, Active(l, t, at),
         at \in {"terminating", "flushing"} => to \in {"terminating", "flushing"}
  PROVE  Active(l, t, to)
BY DEF Active

\* Whether a Turn has begun.
LEMMA StaysBegun ==
  ASSUME NEW l \in Seq(RecordType), NEW r \in RecordType, NEW t
  PROVE  Begun(l \o <<r>>, t) <=> Begun(l, t) \/ (r.type = "turn_started" /\ r.turn = t)
BY Longer DEF Begun, StartOf

\* A rollout that is cut off, read by a new Session.
LEMMA LogCut ==
  ASSUME NEW l \in Seq(RecordType), NEW n \in Int, n <= Len(l), NEW known,
         NEW started, LogOK(l, known, started)
  PROVE  LET cut == SubSeq(l, 1, n) IN
           /\ cut \in Seq(RecordType)
           /\ LogOK(cut, ReceivedOf(cut), SubmittedOf(cut))
<1> DEFINE cut == SubSeq(l, 1, n)
           m == Len(cut)
<1>1. Len(l) \in Nat /\ DOMAIN l = 1 .. Len(l) /\ \A i \in 1 .. n : l[i] \in RecordType
  BY LenProperties, ElementOfSeq
<1>2. /\ cut \in Seq(RecordType)
      /\ m = IF 1 <= n THEN n - 1 + 1 ELSE 0
      /\ \A i \in 1 .. n - 1 + 1 : cut[i] = l[1 + i - 1]
  BY <1>1, SubSeqProperties
<1>3. m \in Nat /\ DOMAIN cut = 1 .. m
  BY <1>2, LenProperties
<1>4. m <= Len(l) /\ \A i \in 1 .. m : cut[i] = l[i] /\ cut[i] \in RecordType
  BY <1>1, <1>2, <1>3
<1> HIDE DEF cut, m
<1>5. ASSUME NEW k \in 1 .. m PROVE RecordOK(cut, k, ReceivedOf(cut), SubmittedOf(cut))
  <2>1. RecordOK(l, k, known, started) /\ cut[k] = l[k] /\ cut[k] \in Range(cut)
    BY <1>1, <1>3, <1>4 DEF LogOK, Range
  <2>2. cut[k].type = "agent_message" => cut[k].id \in ReceivedOf(cut)
    BY <2>1 DEF ReceivedOf
  <2>3. cut[k].type = "turn_started" =>
          cut[k].id = cut[k].turn /\ cut[k].turn \in SubmittedOf(cut)
    BY <2>1 DEF SubmittedOf, RecordOK
  <2>4. \A s \in 1 .. k - 1 : s \in 1 .. m /\ cut[s] = l[s]
    BY <1>3, <1>4
  <2>5. cut[k].turn # "none" =>
          \A s \in 1 .. k - 1 : StartOf(cut, s, cut[k].turn) =>
            \A j \in s .. k - 1 : /\ cut[j].turn \in {cut[k].turn, "none"}
                                  /\ cut[j].type # "turn_completed"
    BY <2>1, <2>4 DEF RecordOK, StartOf
  <2>6. cut[k].type = "response_item" /\ ~ Terminal(cut[k]) =>
          \E s \in 1 .. k - 1 : StartOf(cut, s, cut[k].turn)
    BY <2>1, <2>4 DEF RecordOK, StartOf
  <2>7. \A i \in DOMAIN cut : i \in DOMAIN l /\ cut[i] = l[i]
    BY <1>1, <1>3, <1>4
  <2>8. cut[k].type = "agent_message" =>
          \A i \in DOMAIN cut :
            cut[i].type = "agent_message" /\ cut[i].id = cut[k].id => i = k
    BY <2>1, <2>7 DEF RecordOK
  <2>9. cut[k].type = "turn_started" =>
          \A s \in DOMAIN cut : StartOf(cut, s, cut[k].turn) => s = k
    BY <2>1, <2>7 DEF RecordOK, StartOf
  <2> QED
    BY <2>1, <2>2, <2>3, <2>5, <2>6, <2>8, <2>9 DEF RecordOK
<1> QED
  BY <1>2, <1>3, <1>5 DEF LogOK, cut

-----------------------------------------------------------------------------
(* The steps of a task.                                                    *)

\* The record of the Turn is changed but not whose it is.
SameTurn ==
  /\ turn' \in TurnType
  /\ turn'.id = turn.id /\ turn'.type = turn.type

\* What is queued, if anything, is a closure of the Turn.
BegunPlaces == {"starting", "restarting", "running", "completing"}
QueuesOne ==
  \E m \in MutationType :
    /\ mutations' = mutations \o <<m>>
    /\ m.kind # "message" /\ m.turn = turn.id /\ m.stage = "queued"
    /\ \/ turn.at = "running"
       \/ turn.type = "turn_input" /\ turn.inputRecorded

\* Nothing is a Turn when no Turn is active.
LEMMA IdleTurn ==
  ASSUME TypeInv, turn.at \in TaskPlaces \cup FinishPlaces
  PROVE  ~ Idle /\ turn \in TurnType
BY DEF TypeInv, Idle, NoTurn, TaskPlaces, FinishPlaces

LEMMA TurnIsNotNoTurn == NoTurn \notin TurnType
BY DEF NoTurn, TurnType, Ids

\* The record u of a Turn says the same as t but for where its task is.
Moved(t, u, where) ==
  /\ u \in TurnType /\ u.id = t.id /\ u.type = t.type
  /\ u.finishing = t.finishing /\ u.ahead = t.ahead
  /\ u.inputRecorded = t.inputRecorded /\ u.at = where

LEMMA CleanupIsBoolean == CleanupFails \in BOOLEAN
BY SMT DEF CleanupFails

LEMMA StoppedFacts ==
  ASSUME NEW t \in TurnType, NEW outcome \in Outcomes
  PROVE  Moved(t, Stopped(t, outcome), "stopped")
<1> DEFINE o == IF t.aborted THEN "interrupted" ELSE outcome
           u == [t EXCEPT !.at = "stopped"]
<1>1. o \in Outcomes
  BY DEF Outcomes
<1>2. Stopped(t, outcome) = [u EXCEPT !.outcome = o]
  BY DEF Stopped
<1>3. Moved(t, u, "stopped")
  BY DEF Moved, TurnType, TaskPlaces, FinishPlaces
<1> HIDE DEF o, u
<1>4. Moved(t, [u EXCEPT !.outcome = o], "stopped")
  BY <1>1, <1>3 DEF Moved, TurnType
<1> QED
  BY <1>2, <1>4

LEMMA WhereFacts ==
  ASSUME NEW t \in TurnType, NEW where \in TaskPlaces \cup FinishPlaces,
         NEW pending \in BOOLEAN
  PROVE  /\ Moved(t, [t EXCEPT !.at = where], where)
         /\ Moved(t, [t EXCEPT !.at = where, !.pendingStart = pending], where)
         /\ Moved(t, [t EXCEPT !.at = where, !.accepting = FALSE], where)
BY DEF Moved, TurnType

LEMMA TaskMoves ==
  ASSUME TypeInv, TaskStep
  PROVE  /\ ~ Idle /\ turn \in TurnType /\ SameTurn
         /\ UNCHANGED <<loop, current, inputVars>>
         /\ turn'.finishing = turn.finishing /\ turn'.ahead = turn.ahead
         /\ turn'.inputRecorded = turn.inputRecorded
         /\ turn.at \in TaskPlaces /\ turn'.at \in TaskPlaces
         /\ turn'.at = "preparing" => turn.at = "preparing"
         /\ \/ /\ UNCHANGED <<log, mutations>>
               /\ turn'.at \in BegunPlaces =>
                    turn.at \in BegunPlaces \/ Recorded(TurnStarted(turn.id))
            \/ /\ log' = log \o <<TurnStarted(turn.id)>> /\ UNCHANGED mutations
               /\ turn'.at \in {"starting", "restarting"}
               /\ turn.at = "preparing" \/ ~ Recorded(TurnStarted(turn.id))
            \/ /\ UNCHANGED log /\ turn'.at = turn.at
               /\ QueuesOne
<1> USE DEF TaskFrame, SavesForTurn, QueuesForTurn, ChangesTurn, At, Goto,
            loopVars, inputVars, storeVars, AppendItems, SaveRejects,
            AppendResolves, FlushResolves, TaskPlaces, BegunPlaces
<1>1. ASSUME turn.at \in TaskPlaces
      PROVE  ~ Idle /\ turn \in TurnType /\ turn.id \in Names
  BY <1>1, IdleTurn DEF TurnType, Ids, Names
<1>2. CASE BeginExecution
  <2>1. turn \in TurnType /\ ~ Idle
    BY <1>1, <1>2 DEF BeginExecution
  <2>2. CASE /\ AppendItems(<<TurnStarted(turn.id)>>)
             /\ turn' = [turn EXCEPT !.at = "starting", !.pendingStart = TRUE]
    <3>1. Moved(turn, turn', "starting")
      BY <2>1, <2>2, WhereFacts
    <3> QED
      BY <1>2, <2>1, <2>2, <3>1 DEF BeginExecution, SameTurn, Moved
  <2>3. CASE /\ SaveRejects
             /\ turn' = [turn EXCEPT !.at = "inspecting", !.pendingStart = TRUE]
    <3>1. Moved(turn, turn', "inspecting")
      BY <2>1, <2>3, WhereFacts
    <3> QED
      BY <1>2, <2>1, <2>3, <3>1 DEF BeginExecution, SameTurn, Moved
  <2> QED
    BY <1>2, <2>2, <2>3 DEF BeginExecution
<1>3. CASE StartSaved
  <2>1. turn \in TurnType /\ ~ Idle
    BY <1>1, <1>3 DEF StartSaved
  <2>2. Moved(turn, turn', "running")
    BY <1>3, <2>1, WhereFacts DEF StartSaved
  <2> QED
    BY <1>3, <2>1, <2>2 DEF StartSaved, SameTurn, Moved
<1>4. CASE StartRejected
  <2>1. turn \in TurnType /\ ~ Idle
    BY <1>1, <1>4 DEF StartRejected
  <2>2. Moved(turn, turn', "inspecting")
    BY <1>4, <2>1, WhereFacts DEF StartRejected
  <2> QED
    BY <1>4, <2>1, <2>2 DEF StartRejected, SameTurn, Moved
<1>5. CASE StartInspected
  <2>1. turn \in TurnType /\ ~ Idle
    BY <1>1, <1>5 DEF StartInspected
  <2>2. CASE turn' = Stopped(turn, "failed") /\ UNCHANGED log
    <3>1. Moved(turn, turn', "stopped")
      BY <2>1, <2>2, StoppedFacts DEF Outcomes
    <3> QED
      BY <1>5, <2>1, <2>2, <3>1 DEF StartInspected, SameTurn, Moved
  <2>3. CASE /\ Recorded(TurnStarted(turn.id)) /\ UNCHANGED log
             /\ turn' = [turn EXCEPT !.at = "running", !.pendingStart = FALSE]
    <3>1. Moved(turn, turn', "running")
      BY <2>1, <2>3, WhereFacts
    <3> QED
      BY <1>5, <2>1, <2>3, <3>1 DEF StartInspected, SameTurn, Moved
  <2>4. CASE /\ ~ Recorded(TurnStarted(turn.id))
             /\ AppendItems(<<TurnStarted(turn.id)>>)
             /\ turn' = [turn EXCEPT !.at = "restarting"]
    <3>1. Moved(turn, turn', "restarting")
      BY <2>1, <2>4, WhereFacts
    <3> QED
      BY <1>5, <2>1, <2>4, <3>1 DEF StartInspected, SameTurn, Moved
  <2> QED
    BY <1>5, <2>2, <2>3, <2>4 DEF StartInspected
<1>6. CASE StartRetried
  <2>1. turn \in TurnType /\ ~ Idle
    BY <1>1, <1>6 DEF StartRetried
  <2>2. Moved(turn, turn', "stopped") \/ Moved(turn, turn', "running")
    BY <1>6, <2>1, WhereFacts, StoppedFacts DEF StartRetried, Outcomes
  <2> QED
    BY <1>6, <2>1, <2>2 DEF StartRetried, SameTurn, Moved
<1>7. CASE RecordInitialInput
  <2>1. turn \in TurnType /\ ~ Idle /\ turn.id \in Names
    BY <1>1, <1>7 DEF RecordInitialInput
  <2> DEFINE m == Mutation("input", turn.id)
  <2>2. m \in MutationType /\ m.kind # "message" /\ m.turn = turn.id /\ m.stage = "queued"
    BY <2>1 DEF Mutation, MutationType
  <2> HIDE DEF m
  <2>3. mutations' = mutations \o <<m>>
    BY <1>7 DEF RecordInitialInput, Enqueue, m
  <2> QED
    BY <1>7, <2>1, <2>2, <2>3 DEF RecordInitialInput, QueuesOne, SameTurn
<1>8. CASE TakeSteering
  <2>1. turn \in TurnType /\ ~ Idle
    BY <1>1, <1>8 DEF TakeSteering
  <2>2. turn.taken \o turn.steering \in Seq(InputType) /\ <<>> \in Seq(InputType)
    BY <2>1, ConcatProperties DEF TurnType
  <2>3. turn' = [turn EXCEPT !.taken = turn.taken \o turn.steering, !.steering = <<>>]
    BY <1>8, <2>1 DEF TakeSteering, TurnType
  <2>4. Moved(turn, turn', turn.at)
    BY <2>1, <2>2, <2>3 DEF TurnType, Moved
  <2> QED
    BY <1>8, <2>1, <2>4 DEF TakeSteering, Moved, SameTurn
<1>9. CASE RecordSteering
  <2>1. turn \in TurnType /\ ~ Idle /\ turn.id \in Names
    BY <1>1, <1>9 DEF RecordSteering
  <2>2. turn.taken \in Seq(InputType) /\ turn.taken # <<>>
    BY <1>9, <2>1 DEF TurnType, RecordSteering
  <2>0. Tail(turn.taken) \in Seq(InputType) /\ Head(turn.taken) \in InputType
    BY <2>2, HeadTailProperties
  <2>3. /\ Tail(turn.taken) \in Seq(InputType)
        /\ Head(turn.taken).id \in Names
    BY <2>0 DEF InputType, Names
  <2>4. turn' = [turn EXCEPT !.taken = Tail(turn.taken)]
    BY <1>9, <2>1 DEF RecordSteering, TurnType
  <2>5. Moved(turn, turn', turn.at)
    BY <2>1, <2>3, <2>4 DEF TurnType, Moved
  <2> DEFINE m == Mutation("steering", Head(turn.taken).id)
  <2>6. m \in MutationType /\ m.kind # "message" /\ m.turn = turn.id /\ m.stage = "queued"
    BY <2>1, <2>3 DEF Mutation, MutationType
  <2>7. mutations' = mutations \/ mutations' = Append(mutations, m)
    BY <1>9 DEF RecordSteering
  <2> HIDE DEF m
  <2>8. Append(mutations, m) = mutations \o <<m>>
    BY <2>6, AppendIsConcat DEF TypeInv
  <2> QED
    BY <1>9, <2>1, <2>5, <2>6, <2>7, <2>8 DEF RecordSteering, QueuesOne, Moved, SameTurn
<1>10. CASE RecordToolResult
  <2>1. turn \in TurnType /\ ~ Idle /\ turn.id \in Names
    BY <1>1, <1>10 DEF RecordToolResult
  <2>2. turn' = [turn EXCEPT !.tool = TRUE]
    BY <1>10 DEF RecordToolResult
  <2>3. Moved(turn, turn', turn.at)
    BY <2>1, <2>2 DEF TurnType, Moved
  <2> DEFINE m == Mutation("tool", ToolResult)
  <2>4. m \in MutationType /\ m.kind # "message" /\ m.turn = turn.id /\ m.stage = "queued"
    BY <2>1 DEF Mutation, MutationType, Names
  <2>5. mutations' = mutations \o <<m>>
    BY <1>10 DEF RecordToolResult, Enqueue
  <2> HIDE DEF m
  <2> QED
    BY <1>10, <2>1, <2>3, <2>4, <2>5 DEF RecordToolResult, QueuesOne, Moved, SameTurn
<1>11. CASE TakeSteeringOrComplete
  <2>1. turn \in TurnType /\ ~ Idle
    BY <1>1, <1>11 DEF TakeSteeringOrComplete
  <2>2. Moved(turn, turn', "completing")
    BY <1>11, <2>1, WhereFacts DEF TakeSteeringOrComplete
  <2> QED
    BY <1>11, <2>1, <2>2 DEF TakeSteeringOrComplete, SameTurn, Moved
<1>12. CASE TaskReturns
  <2>1. turn \in TurnType /\ ~ Idle
    BY <1>1, <1>12 DEF TaskReturns
  <2>2. Moved(turn, turn', "stopped")
    BY <1>12, <2>1, StoppedFacts DEF TaskReturns, Outcomes
  <2> QED
    BY <1>12, <2>1, <2>2 DEF TaskReturns, SameTurn, Moved
<1>13. CASE PromptDeclined
  <2>1. turn \in TurnType /\ ~ Idle
    BY <1>1, <1>13 DEF PromptDeclined
  <2>2. Moved(turn, turn', "stopped")
    BY <1>13, <2>1, StoppedFacts DEF PromptDeclined, Outcomes
  <2> QED
    BY <1>13, <2>1, <2>2 DEF PromptDeclined, SameTurn, Moved
<1>14. CASE TaskThrows
  <2>1. turn \in TurnType /\ ~ Idle
    BY <1>1, <1>14 DEF TaskThrows
  <2> DEFINE u == Stopped(turn, "failed")
  <2>2. PICK failed \in {FALSE, CleanupFails} :
          turn' = [u EXCEPT !.cleanupFailed = failed]
    BY <1>14 DEF TaskThrows
  <2>3. Moved(turn, u, "stopped")
    BY <2>1, StoppedFacts DEF Outcomes
  <2>0. failed \in BOOLEAN
    BY CleanupIsBoolean
  <2> HIDE DEF u
  <2>4. Moved(turn, turn', "stopped")
    BY <2>0, <2>2, <2>3 DEF TurnType, Moved
  <2> QED
    BY <1>14, <2>1, <2>4 DEF TaskThrows, SameTurn, Moved
<1> QED
  BY <1>2, <1>3, <1>4, <1>5, <1>6, <1>7, <1>8, <1>9, <1>10, <1>11, <1>12, <1>13,
     <1>14 DEF TaskStep

-----------------------------------------------------------------------------
(* What the shapes of steps preserve.                                      *)

\* The Turn's start is in the rollout.
LEMMA RecordedIsBegun ==
  ASSUME LogInv, NEW t
  PROVE  Recorded(TurnStarted(t)) => Begun(log, t)
BY DEF Recorded, Range, TurnStarted, Rec, Begun, StartOf

\* A closure of the Turn that is queued.
LEMMA QueueLonger ==
  ASSUME TypeInv, NEW m \in MutationType, mutations' = mutations \o <<m>>
  PROVE  /\ mutations' \in Seq(MutationType)
         /\ Len(mutations) \in Nat /\ DOMAIN mutations = 1 .. Len(mutations)
         /\ DOMAIN mutations' = 1 .. Len(mutations) + 1
         /\ \A i \in 1 .. Len(mutations) : mutations'[i] = mutations[i]
         /\ mutations'[Len(mutations) + 1] = m
BY Longer DEF TypeInv

\* A step of a task.
LEMMA TaskKeeps ==
  ASSUME IInv, TaskStep
  PROVE  IInv'
<1> USE DEF IInv
<1>1. /\ ~ Idle /\ turn \in TurnType /\ turn' \in TurnType
      /\ turn'.id = turn.id /\ turn'.type = turn.type
      /\ UNCHANGED <<loop, current, inputVars>>
      /\ turn'.finishing = turn.finishing /\ turn'.ahead = turn.ahead
      /\ turn'.inputRecorded = turn.inputRecorded
      /\ turn.at \in TaskPlaces /\ turn'.at \in TaskPlaces
      /\ turn'.at = "preparing" => turn.at = "preparing"
  BY TaskMoves DEF SameTurn
<1>2. ~ Idle' /\ turn.id \in Names /\ turn.id # "none"
  BY <1>1, TurnIsNotNoTurn DEF Idle, TurnType, Ids, Names
<1>3. LoopInv'
  BY <1>1 DEF LoopInv, TaskPlaces
<1>4. ~ turn.finishing
  BY <1>1 DEF QueueInv, TaskPlaces, FinishPlaces
<1>5. Active(log, turn.id, "running")
  BY <1>1, ActiveAt DEF TurnInv, TaskPlaces
<1>6. CASE /\ UNCHANGED <<log, mutations>>
           /\ turn'.at \in BegunPlaces =>
                turn.at \in BegunPlaces \/ Recorded(TurnStarted(turn.id))
  <2>1. TypeInv'
    BY <1>1, <1>6 DEF TypeInv
  <2>2. QueueInv'
    BY <1>1, <1>2, <1>4, <1>6 DEF QueueInv, TaskPlaces, FinishPlaces, inputVars
  <2>3. LogInv'
    BY <1>1, <1>6 DEF LogInv, inputVars
  <2>4. TurnInv'
    BY <1>1, <1>5, <1>6, RecordedIsBegun, ActiveAt
       DEF TurnInv, TaskPlaces, inputVars, BegunPlaces
  <2> QED
    BY <1>3, <2>1, <2>2, <2>3, <2>4
<1>7. CASE /\ log' = log \o <<TurnStarted(turn.id)>> /\ UNCHANGED mutations
           /\ turn'.at \in {"starting", "restarting"}
           /\ turn.at = "preparing" \/ ~ Recorded(TurnStarted(turn.id))
  <2> DEFINE r == TurnStarted(turn.id)
  <2>1. /\ r \in RecordType /\ r.type = "turn_started"
        /\ r.turn = turn.id /\ r.id = turn.id
    BY <1>2 DEF TurnStarted, Rec, RecordType, RecordTypes
  <2>2. ~ Begun(log, turn.id)
    <3>1. ASSUME NEW s \in DOMAIN log, StartOf(log, s, turn.id)
          PROVE  log[s] = r
      <4>1. log[s] \in RecordType
        BY LenProperties, ElementOfSeq DEF TypeInv
      <4>2. log[s].type = "turn_started" /\ log[s].turn = turn.id /\ log[s].id = turn.id
        BY <3>1 DEF StartOf, LogInv, LogOK, RecordOK
      <4> QED
        BY <4>1, <4>2 DEF TurnStarted, Rec, RecordType
    <3> QED
      BY <1>1, <1>7, <3>1 DEF TurnInv, Begun, Recorded, Range
  <2>3. Fits(log, r, received \cup accepted, submitted)
    BY <1>1, <1>2, <1>5, <2>1, <2>2 DEF Fits, TurnInv, Unowned
  <2> HIDE DEF r
  <2>4. /\ log \o <<r>> \in Seq(RecordType)
        /\ LogOK(log \o <<r>>, received \cup accepted, submitted)
    BY <2>1, <2>3, RecordAppended DEF LogInv, TypeInv
  <2>5. Active(log \o <<r>>, turn.id, "running")
    BY <1>5, <2>1, <2>2, StaysActive DEF TypeInv
  <2>6. Begun(log \o <<r>>, turn.id)
    BY <2>1, StaysBegun DEF TypeInv
  <2>7. log' = log \o <<r>>
    BY <1>7 DEF r
  <2>8. TypeInv'
    BY <1>1, <1>7, <2>4, <2>7 DEF TypeInv
  <2>9. QueueInv'
    BY <1>1, <1>2, <1>4, <1>7 DEF QueueInv, TaskPlaces, FinishPlaces, inputVars
  <2>10. LogInv'
    BY <1>1, <2>4, <2>7 DEF LogInv, inputVars
  <2>11. TurnInv'
    BY <1>1, <1>7, <2>5, <2>6, <2>7, ActiveAt DEF TurnInv, TaskPlaces, inputVars
  <2> QED
    BY <1>3, <2>8, <2>9, <2>10, <2>11
<1>8. CASE UNCHANGED log /\ turn'.at = turn.at /\ QueuesOne
  <2>1. PICK m \in MutationType :
          /\ mutations' = mutations \o <<m>>
          /\ m.kind # "message" /\ m.turn = turn.id
          /\ \/ turn.at = "running"
             \/ turn.type = "turn_input" /\ turn.inputRecorded
    BY <1>8 DEF QueuesOne
  <2>2. /\ mutations' \in Seq(MutationType)
        /\ Len(mutations) \in Nat /\ DOMAIN mutations = 1 .. Len(mutations)
        /\ DOMAIN mutations' = 1 .. Len(mutations) + 1
        /\ \A i \in 1 .. Len(mutations) : mutations'[i] = mutations[i]
        /\ mutations'[Len(mutations) + 1] = m
    BY <2>1, QueueLonger
  <2>3. TypeInv'
    BY <1>1, <1>8, <2>2 DEF TypeInv
  <2>4. QueueInv'
    BY <1>1, <1>2, <1>4, <1>8, <2>1, <2>2
       DEF QueueInv, TaskPlaces, FinishPlaces, inputVars
  <2>5. LogInv'
    BY <1>1, <1>8 DEF LogInv, inputVars
  <2>6. TurnInv'
    BY <1>1, <1>5, <1>8, <2>1, <2>2 DEF TurnInv, TaskPlaces, inputVars
  <2> QED
    BY <1>3, <2>3, <2>4, <2>5, <2>6
<1> QED
  BY <1>6, <1>7, <1>8, TaskMoves

\* A record of no Turn, and of the Turn that is ending.
LEMMA StatusRecord ==
  ASSUME NEW message \in Names
  PROVE  LET r == AgentError(message) IN
           r \in RecordType /\ r.type = "agent_status" /\ r.turn = "none"
BY DEF AgentError, Rec, RecordType, RecordTypes, Names, Outcomes

LEMMA StatusFits ==
  ASSUME NEW l, NEW message \in Names, NEW known, NEW started
  PROVE  Fits(l, AgentError(message), known, started)
BY StatusRecord DEF Fits, Unowned

\* A status that is appended leaves the rollout and the active Turn as they are.
LEMMA StatusAppended ==
  ASSUME IInv, NEW message \in Names, log' = log \o <<AgentError(message)>>
  PROVE  /\ log' \in Seq(RecordType)
         /\ LogOK(log', received \cup accepted, submitted)
         /\ \A t : Begun(log', t) <=> Begun(log, t)
         /\ \A t, at : Active(log, t, at) => Active(log', t, at)
<1> USE DEF IInv
<1> DEFINE r == AgentError(message)
<1>1. r \in RecordType /\ r.type = "agent_status" /\ r.turn = "none"
  BY StatusRecord
<1>2. Fits(log, r, received \cup accepted, submitted)
  BY StatusFits
<1> HIDE DEF r
<1>3. log' = log \o <<r>>
  BY DEF r
<1>4. /\ log' \in Seq(RecordType)
      /\ LogOK(log', received \cup accepted, submitted)
  BY <1>1, <1>2, <1>3, RecordAppended DEF LogInv, TypeInv
<1>5. ASSUME NEW t PROVE Begun(log', t) <=> Begun(log, t)
  BY <1>1, <1>3, StaysBegun DEF TypeInv
<1>6. ASSUME NEW t, NEW at, Active(log, t, at) PROVE Active(log', t, at)
  BY <1>1, <1>3, <1>6, StaysActive DEF TypeInv
<1> QED
  BY <1>4, <1>5, <1>6

\* The records with which a Turn ends.
LEMMA TerminalAppended ==
  ASSUME IInv, ~ Idle, turn.at = "draining", turn.ahead = 0,
         log' = log \o TerminalRecords
  PROVE  /\ log' \in Seq(RecordType)
         /\ LogOK(log', received \cup accepted, submitted)
         /\ Begun(log', turn.id) <=> Begun(log, turn.id)
         /\ Active(log', turn.id, "terminating")
<1> USE DEF IInv
<1> DEFINE c == TurnCompleted(turn.id, turn.outcome)
           i == ResponseItem(Interruption, turn.id)
           K == received \cup accepted
<1>1. turn \in TurnType /\ turn.id \in Names /\ turn.id # "none" /\ turn.outcome \in Names
  BY DEF TypeInv, Idle, TurnType, Ids, Names
<1>2. /\ c \in RecordType /\ c.type = "turn_completed" /\ c.turn = turn.id
      /\ i \in RecordType /\ i.type = "response_item" /\ i.turn = turn.id
      /\ i.id = Interruption
  BY <1>1 DEF TurnCompleted, ResponseItem, Rec, RecordType, RecordTypes, Names
<1>3. Active(log, turn.id, "running")
  BY ActiveAt DEF TurnInv
<1>4. log \in Seq(RecordType)
  BY DEF TypeInv
<1>5. log' = log \o <<c>> \/ log' = (log \o <<i>>) \o <<c>>
  <2>1. <<i>> \in Seq(RecordType) /\ <<c>> \in Seq(RecordType)
    BY <1>2
  <2>2. log \o (<<i>> \o <<c>>) = (log \o <<i>>) \o <<c>>
    BY <1>4, <2>1, ConcatAssociative
  <2>3. <<>> \o <<c>> = <<c>>
    BY <2>1, ConcatEmptySeq
  <2> QED
    BY <2>2, <2>3 DEF TerminalRecords
<1> HIDE DEF c, i, K
<1>6. ASSUME NEW l \in Seq(RecordType), LogOK(l, K, submitted),
             Active(l, turn.id, "running")
      PROVE  /\ l \o <<c>> \in Seq(RecordType)
             /\ LogOK(l \o <<c>>, K, submitted)
             /\ Begun(l \o <<c>>, turn.id) <=> Begun(l, turn.id)
             /\ Active(l \o <<c>>, turn.id, "terminating")
  <2>1. Fits(l, c, K, submitted)
    BY <1>1, <1>2, <1>6 DEF Fits, Unowned
  <2>2. l \o <<c>> \in Seq(RecordType) /\ LogOK(l \o <<c>>, K, submitted)
    BY <1>2, <1>6, <2>1, RecordAppended
  <2>3. Begun(l \o <<c>>, turn.id) <=> Begun(l, turn.id)
    BY <1>2, <1>6, StaysBegun
  <2>4. Active(l \o <<c>>, turn.id, "terminating")
    BY <1>2, <1>6, StaysActive
  <2> QED
    BY <2>2, <2>3, <2>4
<1>7. LogOK(log, K, submitted)
  BY DEF LogInv, K
<1>8. LET l == log \o <<i>> IN
        /\ l \in Seq(RecordType) /\ LogOK(l, K, submitted)
        /\ Begun(l, turn.id) <=> Begun(log, turn.id)
        /\ Active(l, turn.id, "running")
  <2>1. Fits(log, i, K, submitted)
    BY <1>1, <1>2, <1>3 DEF Fits, Unowned, Terminal
  <2>2. log \o <<i>> \in Seq(RecordType) /\ LogOK(log \o <<i>>, K, submitted)
    BY <1>2, <1>4, <1>7, <2>1, RecordAppended
  <2>3. Begun(log \o <<i>>, turn.id) <=> Begun(log, turn.id)
    BY <1>2, <1>4, StaysBegun
  <2>4. Active(log \o <<i>>, turn.id, "running")
    BY <1>2, <1>3, <1>4, StaysActive
  <2> QED
    BY <2>2, <2>3, <2>4
<1>9. CASE log' = log \o <<c>>
  BY ZenonT(40), <1>3, <1>4, <1>6, <1>7, <1>9 DEF K
<1>10. CASE log' = (log \o <<i>>) \o <<c>>
  <2> DEFINE l == log \o <<i>>
  <2>1. /\ l \in Seq(RecordType) /\ LogOK(l, K, submitted)
        /\ Begun(l, turn.id) <=> Begun(log, turn.id)
        /\ Active(l, turn.id, "running")
    BY <1>8
  <2>2. log' = l \o <<c>>
    BY <1>10
  <2> HIDE DEF l
  <2>3. /\ l \o <<c>> \in Seq(RecordType)
        /\ LogOK(l \o <<c>>, K, submitted)
        /\ Begun(l \o <<c>>, turn.id) <=> Begun(l, turn.id)
        /\ Active(l \o <<c>>, turn.id, "terminating")
    BY <1>6, <2>1
  <2> QED
    BY <2>1, <2>2, <2>3 DEF K
<1> QED
  BY <1>5, <1>9, <1>10

\* A Turn that is released has nothing left on the queue.
LEMMA Released ==
  ASSUME IInv, ~ Idle, turn' = NoTurn, turn.finishing, turn.ahead = 0,
         UNCHANGED <<log, mutations, loop, current, inputVars>>
  PROVE  IInv'
<1> USE DEF IInv
<1>1. Idle'
  BY DEF Idle
<1>2. turn \in TurnType /\ DOMAIN mutations = 1 .. Len(mutations)
  BY LenProperties DEF TypeInv, Idle
<1>3. \A i \in DOMAIN mutations : mutations[i].kind = "message"
  BY <1>2 DEF QueueInv
<1>4. TypeInv'
  BY DEF TypeInv
<1>5. QueueInv'
  BY <1>1, <1>3 DEF QueueInv, inputVars
<1>6. LoopInv' /\ TurnInv'
  BY <1>1 DEF LoopInv, TurnInv
<1>7. LogInv'
  BY DEF LogInv, inputVars
<1> QED
  BY <1>4, <1>5, <1>6, <1>7

\* A step that ends a Turn.
LEMMA SettleKeeps ==
  ASSUME IInv, SettleStep
  PROVE  IInv'
<1> USE DEF IInv, TaskFrame, SavesForTurn, At, Goto, loopVars, inputVars,
            storeVars, AppendItems, SaveRejects, AppendResolves,
            FlushResolves, ReleaseTurn
<1>1. ~ Idle /\ turn \in TurnType
  BY IdleTurn DEF SettleStep, TaskSettled, StartFailed, StartFailureSaved,
     AppendTerminal, TerminalSaved, TerminalFlushed, TaskPlaces, FinishPlaces
<1>2. turn.id # "none" /\ turn.id \in Names
  BY <1>1 DEF TurnType, Ids, Names
<1>3. Len(mutations) \in Nat /\ DOMAIN mutations = 1 .. Len(mutations)
  BY LenProperties DEF TypeInv
<1>4. CASE TaskSettled
  <2> DEFINE where == CASE turn.cleanupFailed -> "stuck"
                        [] turn.pendingStart -> "failing"
                        [] OTHER -> "draining"
             pending == turn.pendingStart /\ turn.cleanupFailed
             escalation == IF turn.escalation = "armed" THEN "ended"
                                                        ELSE turn.escalation
  <2>1. where \in {"stuck", "failing", "draining"}
    BY <1>1 DEF TurnType
  <2>2. pending \in BOOLEAN /\ escalation \in {"none", "armed", "aborting", "ended"}
    BY <1>1 DEF TurnType
  <2>3. turn' = [turn EXCEPT !.accepting = FALSE, !.finishing = TRUE,
                   !.pendingStart = pending, !.ahead = Len(mutations),
                   !.escalation = escalation, !.at = where]
    BY <1>1, <1>4 DEF TaskSettled, TurnType
  <2>4. UNCHANGED <<log, mutations, loop, current, inputVars>> /\ turn.at = "stopped"
    BY <1>4 DEF TaskSettled
  <2> HIDE DEF where, pending, escalation
  <2>5. /\ turn' \in TurnType /\ turn'.id = turn.id /\ turn'.type = turn.type
        /\ turn'.inputRecorded = turn.inputRecorded
        /\ turn'.ahead = Len(mutations) /\ turn'.finishing = TRUE
        /\ turn'.at \in {"stuck", "failing", "draining"}
    BY ZenonT(40), <1>1, <1>3, <2>1, <2>2, <2>3 DEF TurnType, FinishPlaces
  <2>6. ~ Idle'
    BY <2>5, TurnIsNotNoTurn DEF Idle
  <2>7. TypeInv'
    BY <2>4, <2>5 DEF TypeInv
  <2>8. QueueInv'
    BY <1>1, <1>3, <2>4, <2>5, <2>6 DEF QueueInv, FinishPlaces
  <2>9. LoopInv'
    BY <1>1, <2>4 DEF LoopInv
  <2>10. LogInv'
    BY <2>4 DEF LogInv
  <2>11. TurnInv'
    BY <1>1, <2>4, <2>5, ActiveAt DEF TurnInv
  <2> QED
    BY <2>7, <2>8, <2>9, <2>10, <2>11
<1>5. ASSUME NEW where \in {"failed", "terminating", "flushing"},
             turn' = [turn EXCEPT !.at = where], turn.ahead = 0,
             turn.at \in FinishPlaces \ {"stuck"},
             UNCHANGED <<mutations, loop, current, inputVars>>,
             log' \in Seq(RecordType),
             LogOK(log', received \cup accepted, submitted),
             Begun(log, turn.id) => Begun(log', turn.id),
             Active(log', turn.id, where)
      PROVE  IInv'
  <2>1. Moved(turn, turn', where)
    BY <1>1, <1>5, WhereFacts DEF FinishPlaces
  <2>2. ~ Idle'
    BY <2>1, TurnIsNotNoTurn DEF Idle, Moved
  <2>3. turn.finishing
    BY <1>1, <1>5 DEF QueueInv
  <2>4. TypeInv'
    BY <1>5, <2>1 DEF TypeInv, Moved
  <2>5. QueueInv'
    BY <1>1, <1>5, <2>1, <2>2, <2>3 DEF QueueInv, FinishPlaces, Moved
  <2>6. LoopInv'
    BY <1>1, <1>5 DEF LoopInv
  <2>7. LogInv'
    BY <1>5 DEF LogInv
  <2>8. TurnInv'
    BY <1>1, <1>5, <2>1 DEF TurnInv, Moved
  <2> QED
    BY <2>4, <2>5, <2>6, <2>7, <2>8
<1>6. CASE StartFailed
  <2>1. CASE UNCHANGED log /\ turn' = NoTurn
    BY <1>1, <1>6, <2>1, Released DEF StartFailed, QueueInv, FinishPlaces
  <2>2. CASE /\ log' = log \o <<AgentError("Turn persistence failed.")>>
             /\ turn' = [turn EXCEPT !.at = "failed"]
    <3>1. "Turn persistence failed." \in Names
      BY DEF Names
    <3>2. Active(log, turn.id, "failed")
      BY <1>1, <1>6, ActiveAt DEF TurnInv, StartFailed
    <3> QED
      BY <1>1, <1>5, <1>6, <2>2, <3>1, <3>2, StatusAppended DEF StartFailed, FinishPlaces
  <2> QED
    BY <1>6, <2>1, <2>2 DEF StartFailed
<1>7. CASE StartFailureSaved
  BY <1>1, <1>7, Released DEF StartFailureSaved, QueueInv, FinishPlaces
<1>8. CASE AppendTerminal
  <2>1. CASE log' = log
    <3>1. Active(log, turn.id, "terminating")
      BY <1>1, <1>8, ActiveAt DEF TurnInv, AppendTerminal
    <3> QED
      BY <1>1, <1>5, <1>8, <2>1, <3>1 DEF AppendTerminal, FinishPlaces, TypeInv, LogInv
  <2>2. CASE log' = log \o TerminalRecords
    BY <1>1, <1>5, <1>8, <2>2, TerminalAppended DEF AppendTerminal, FinishPlaces
  <2> QED
    BY <1>8, <2>1, <2>2 DEF AppendTerminal
<1>9. CASE TerminalSaved
  <2>1. turn.ahead = 0 /\ log' = log
    BY <1>1, <1>9 DEF QueueInv, TerminalSaved
  <2>2. Active(log, turn.id, "flushing")
    BY <1>1, <1>9, ActiveAt DEF TurnInv, TerminalSaved
  <2> QED
    BY <1>1, <1>5, <1>9, <2>1, <2>2 DEF TerminalSaved, FinishPlaces, TypeInv, LogInv
<1>10. CASE TerminalFlushed
  BY <1>1, <1>10, Released DEF TerminalFlushed, QueueInv, FinishPlaces
<1> QED
  BY <1>4, <1>6, <1>7, <1>8, <1>9, <1>10 DEF SettleStep

\* The escalation of a cancelled Turn.
LEMMA EscalationKeeps ==
  ASSUME IInv, EscalationStep
  PROVE  IInv'
<1> USE DEF IInv, ChangesTurn, QueuesForTurn, TaskFrame, loopVars, inputVars,
            storeVars
<1>1. ~ Idle /\ turn \in TurnType
  BY DEF EscalationStep, EscalationFires, EscalationEnds, TypeInv, Idle
<1>2. UNCHANGED <<log, mutations, loop, current, inputVars>>
  BY DEF EscalationStep, EscalationFires, EscalationEnds
<1>3. Moved(turn, turn', turn.at)
  <2>1. CASE EscalationFires
    BY <1>1, <2>1 DEF EscalationFires, TurnType, Moved
  <2>2. CASE EscalationEnds
    <3>1. PICK failed \in {FALSE, CleanupFails} :
            turn' = [turn EXCEPT !.escalation = "ended",
                                 !.cleanupFailed = @ \/ failed]
      BY <2>2 DEF EscalationEnds
    <3> DEFINE f == turn.cleanupFailed \/ failed
    <3>2. f \in BOOLEAN
      BY <1>1 DEF TurnType
    <3>3. turn' = [turn EXCEPT !.escalation = "ended", !.cleanupFailed = f]
      BY <1>1, <3>1 DEF TurnType
    <3> HIDE DEF f
    <3> QED
      BY <1>1, <3>2, <3>3 DEF TurnType, Moved
  <2> QED
    BY <2>1, <2>2 DEF EscalationStep
<1>4. ~ Idle'
  BY <1>3, TurnIsNotNoTurn DEF Idle, Moved
<1>5. TypeInv'
  BY <1>2, <1>3 DEF TypeInv, Moved
<1>6. QueueInv'
  BY <1>1, <1>2, <1>3, <1>4 DEF QueueInv, Moved
<1>7. LoopInv' /\ LogInv'
  BY <1>1, <1>2, <1>3 DEF LoopInv, LogInv, Moved
<1>8. TurnInv'
  BY <1>1, <1>2, <1>3 DEF TurnInv, Moved
<1> QED
  BY <1>5, <1>6, <1>7, <1>8

-----------------------------------------------------------------------------
(* The closures on the mutation queue.                                     *)

LEMMA LogGrows ==
  ASSUME NEW l, NEW known, NEW started, NEW more, NEW others,
         LogOK(l, known, started), known \subseteq more, started \subseteq others
  PROVE  LogOK(l, more, others)
BY DEF LogOK, RecordOK

\* The running closure.
LEMMA HeadFacts ==
  ASSUME TypeInv, mutations # <<>>
  PROVE  /\ Len(mutations) \in Nat /\ DOMAIN mutations = 1 .. Len(mutations)
         /\ 1 \in DOMAIN mutations /\ mutations[1] \in MutationType
<1>1. Len(mutations) \in Nat /\ DOMAIN mutations = 1 .. Len(mutations)
  BY LenProperties DEF TypeInv
<1>2. Len(mutations) \in Nat \ {0}
  BY EmptySeq DEF TypeInv
<1> QED
  BY <1>1, <1>2, ElementOfSeq DEF TypeInv

\* It goes on to its next stage.
Stages == {"queued", "appending", "resaving", "refused", "flushing"}
LEMMA StageFacts ==
  ASSUME TypeInv, mutations # <<>>, NEW stage \in Stages, Stage(stage)
  PROVE  /\ mutations' \in Seq(MutationType) /\ DOMAIN mutations' = DOMAIN mutations
         /\ mutations'[1].stage = stage
         /\ \A i \in DOMAIN mutations :
              /\ mutations'[i].kind = mutations[i].kind
              /\ mutations'[i].turn = mutations[i].turn
              /\ mutations'[i].id = mutations[i].id
              /\ i # 1 => mutations'[i] = mutations[i]
<1> DEFINE n == Len(mutations)
           m == [mutations[1] EXCEPT !.stage = stage]
<1>1. /\ n \in Nat /\ DOMAIN mutations = 1 .. n /\ 1 \in 1 .. n
      /\ mutations[1] \in MutationType
  BY HeadFacts
<1>2. /\ m \in MutationType /\ m.stage = stage /\ m.kind = mutations[1].kind
      /\ m.turn = mutations[1].turn /\ m.id = mutations[1].id
  BY <1>1 DEF MutationType, Stages
<1>3. mutations' = [mutations EXCEPT ![1] = m]
  BY DEF Stage
<1> HIDE DEF m, n
<1>4. mutations \in [1 .. n -> MutationType]
  BY LenProperties DEF TypeInv, n
<1>5. mutations' \in [1 .. n -> MutationType]
  BY <1>1, <1>2, <1>3, <1>4
<1>6. mutations' \in Seq(MutationType)
  BY <1>1, <1>5
<1> QED
  BY <1>1, <1>2, <1>3, <1>4, <1>6

\* It ends.
LEMMA EndFacts ==
  ASSUME TypeInv, mutations # <<>>, MutationEnds
  PROVE  /\ mutations' \in Seq(MutationType)
         /\ DOMAIN mutations' = 1 .. Len(mutations) - 1
         /\ \A i \in 1 .. Len(mutations) - 1 : mutations'[i] = mutations[i + 1]
         /\ Idle => UNCHANGED turn
         /\ ~ Idle =>
              /\ turn' \in TurnType
              /\ turn'.id = turn.id /\ turn'.type = turn.type
              /\ turn'.at = turn.at /\ turn'.finishing = turn.finishing
              /\ turn'.inputRecorded = turn.inputRecorded
              /\ turn'.ahead = IF turn.ahead > 0 THEN turn.ahead - 1 ELSE turn.ahead
<1>1. /\ mutations' \in Seq(MutationType) /\ Len(mutations') = Len(mutations) - 1
      /\ \A i \in 1 .. Len(mutations') : mutations'[i] = mutations[i + 1]
  BY HeadTailProperties DEF MutationEnds, TypeInv
<1>2. DOMAIN mutations' = 1 .. Len(mutations')
  BY <1>1, LenProperties
<1>3. ASSUME ~ Idle
      PROVE  /\ turn' \in TurnType
             /\ turn'.id = turn.id /\ turn'.type = turn.type
             /\ turn'.at = turn.at /\ turn'.finishing = turn.finishing
             /\ turn'.inputRecorded = turn.inputRecorded
             /\ turn'.ahead = IF turn.ahead > 0 THEN turn.ahead - 1 ELSE turn.ahead
  <2>1. turn \in TurnType /\ turn.ahead \in Nat
    BY <1>3 DEF TypeInv, Idle, TurnType
  <2>2. CASE turn.ahead > 0
    <3>1. turn' = [turn EXCEPT !.ahead = turn.ahead - 1]
      BY <1>3, <2>1, <2>2 DEF MutationEnds, TurnType
    <3>2. turn.ahead - 1 \in Nat
      BY <2>1, <2>2
    <3> QED
      BY <2>1, <2>2, <3>1, <3>2 DEF TurnType
  <2>3. CASE ~ turn.ahead > 0
    BY <2>1, <2>3 DEF MutationEnds
  <2> QED
    BY <2>2, <2>3
<1> QED
  BY <1>1, <1>2, <1>3 DEF MutationEnds

LEMMA EndKeeps ==
  ASSUME IInv, mutations # <<>>, MutationEnds, UNCHANGED log,
         submitted \subseteq submitted',
         received \cup accepted \subseteq received' \cup accepted',
         IF mutations[1].kind = "message" THEN loop' = "receive"
         ELSE UNCHANGED <<loop, current, accepted>>
  PROVE  IInv'
<1> USE DEF IInv
<1>1. /\ Len(mutations) \in Nat /\ DOMAIN mutations = 1 .. Len(mutations)
      /\ 1 \in DOMAIN mutations
  BY HeadFacts
<1>2. /\ mutations' \in Seq(MutationType)
      /\ DOMAIN mutations' = 1 .. Len(mutations) - 1
      /\ \A i \in 1 .. Len(mutations) - 1 : mutations'[i] = mutations[i + 1]
      /\ Idle => UNCHANGED turn
      /\ ~ Idle =>
           /\ turn' \in TurnType
           /\ turn'.id = turn.id /\ turn'.type = turn.type
           /\ turn'.at = turn.at /\ turn'.finishing = turn.finishing
           /\ turn'.inputRecorded = turn.inputRecorded
           /\ turn'.ahead = IF turn.ahead > 0 THEN turn.ahead - 1 ELSE turn.ahead
  BY EndFacts
<1>3. Idle <=> Idle'
  BY <1>2, TurnIsNotNoTurn DEF Idle
<1>4. ~ Idle => turn.ahead \in Nat
  BY DEF TypeInv, Idle, TurnType
<1>5. TypeInv'
  BY <1>2 DEF TypeInv, Idle
<1>6. QueueInv'
  <2>1. ASSUME NEW i \in DOMAIN mutations'
        PROVE  IF mutations'[i].kind = "message"
               THEN /\ loop' = "recording_message"
                    /\ \A j \in DOMAIN mutations' :
                         mutations'[j].kind = "message" => j = i
                    /\ mutations'[i].stage = "flushing" =>
                         mutations'[i].id \in accepted'
               ELSE /\ ~ Idle' /\ mutations'[i].turn = turn'.id
                    /\ turn'.finishing => i <= turn'.ahead
    <3>1. i \in 1 .. Len(mutations) - 1 /\ i + 1 \in DOMAIN mutations
          /\ mutations'[i] = mutations[i + 1] /\ i + 1 # 1 /\ i \in Nat
      BY <1>1, <1>2
    <3>2. CASE mutations[i + 1].kind = "message"
      <4>1. mutations[1].kind # "message"
        BY <1>1, <3>1, <3>2 DEF QueueInv
      <4>2. loop' = "recording_message" /\ accepted' = accepted
        BY <3>1, <3>2, <4>1 DEF QueueInv
      <4>3. ASSUME NEW j \in DOMAIN mutations', mutations'[j].kind = "message"
            PROVE  j = i
        <5>1. j + 1 \in DOMAIN mutations /\ mutations'[j] = mutations[j + 1] /\ j \in Nat
          BY <1>1, <1>2
        <5>2. j + 1 = i + 1
          BY <3>1, <3>2, <4>3, <5>1 DEF QueueInv
        <5> QED
          BY <3>1, <5>1, <5>2
      <4> QED
        BY <3>1, <3>2, <4>2, <4>3 DEF QueueInv
    <3>3. CASE mutations[i + 1].kind # "message"
      <4>1. ~ Idle /\ mutations[i + 1].turn = turn.id
            /\ (turn.finishing => i + 1 <= turn.ahead)
        BY <3>1, <3>3 DEF QueueInv
      <4> QED
        BY <1>2, <1>3, <1>4, <3>1, <3>3, <4>1
    <3> QED
      BY <3>2, <3>3
  <2>2. ~ Idle' =>
          /\ turn'.finishing <=> turn'.at \in FinishPlaces
          /\ turn'.at \in {"failed", "terminating", "flushing"} => turn'.ahead = 0
    BY <1>2, <1>3 DEF QueueInv
  <2> QED
    BY <2>1, <2>2 DEF QueueInv
<1>7. LoopInv'
  BY <1>2, <1>3 DEF LoopInv
<1>8. LogInv'
  BY LogGrows DEF LogInv
<1>9. TurnInv'
  <2>1. ASSUME ~ Idle, NEW i \in DOMAIN mutations', mutations'[i].kind # "message"
        PROVE  Begun(log, turn.id)
    <3>1. i + 1 \in DOMAIN mutations /\ mutations'[i] = mutations[i + 1]
      BY <1>1, <1>2
    <3> QED
      BY <2>1, <3>1 DEF TurnInv
  <2> QED
    BY <1>2, <1>3, <2>1 DEF TurnInv
<1> QED
  BY <1>5, <1>6, <1>7, <1>8, <1>9

\* The record of a running closure of the active Turn.
LEMMA ResponseAppended ==
  ASSUME IInv, mutations # <<>>, mutations[1].kind # "message",
         log' = log \o <<ResponseItem(mutations[1].id, mutations[1].turn)>>
  PROVE  /\ log' \in Seq(RecordType)
         /\ LogOK(log', received \cup accepted, submitted)
         /\ Begun(log', turn.id)
         /\ Active(log', turn.id, turn.at)
<1> USE DEF IInv
<1> DEFINE m == mutations[1]
           r == ResponseItem(m.id, m.turn)
<1>1. 1 \in DOMAIN mutations /\ m \in MutationType
  BY HeadFacts
<1>2. /\ ~ Idle /\ m.turn = turn.id /\ (turn.finishing => 1 <= turn.ahead)
      /\ Begun(log, turn.id)
  BY <1>1 DEF QueueInv, TurnInv
<1>3. turn \in TurnType /\ turn.id # "none"
  BY <1>2 DEF TypeInv, Idle, TurnType, Ids
<1>4. turn.at \notin {"terminating", "flushing"}
  BY <1>2, <1>3 DEF QueueInv, FinishPlaces
<1>5. Active(log, turn.id, turn.at) /\ Active(log, turn.id, "running")
  BY <1>2, <1>4, ActiveAt DEF TurnInv
<1>6. r \in RecordType /\ r.type = "response_item" /\ r.turn = turn.id
  BY <1>1, <1>2 DEF ResponseItem, Rec, RecordType, RecordTypes, MutationType
<1>7. Fits(log, r, received \cup accepted, submitted)
  BY <1>2, <1>3, <1>5, <1>6 DEF Fits, Unowned
<1> HIDE DEF r
<1>8. log' = log \o <<r>>
  BY DEF r
<1>9. log' \in Seq(RecordType) /\ LogOK(log', received \cup accepted, submitted)
  BY <1>6, <1>7, <1>8, RecordAppended DEF LogInv, TypeInv
<1>10. Begun(log', turn.id) /\ Active(log', turn.id, turn.at)
  BY <1>2, <1>4, <1>5, <1>6, <1>8, StaysBegun, StaysActive DEF TypeInv
<1> QED
  BY <1>9, <1>10

\* An agent message that the rollout does not hold yet.
LEMMA MessageAppended ==
  ASSUME IInv, NEW id \in Names, NEW known,
         received \cup accepted \subseteq known, id \in known,
         \A i \in DOMAIN log : ~ (log[i].type = "agent_message" /\ log[i].id = id),
         log' = log \o <<AgentMessage(id)>>
  PROVE  /\ log' \in Seq(RecordType)
         /\ LogOK(log', known, submitted)
         /\ \A t : Begun(log', t) <=> Begun(log, t)
         /\ \A t, at : Active(log, t, at) => Active(log', t, at)
<1> USE DEF IInv
<1> DEFINE r == AgentMessage(id)
<1>1. r \in RecordType /\ r.type = "agent_message" /\ r.turn = "none" /\ r.id = id
  BY DEF AgentMessage, Rec, RecordType, RecordTypes, Names, Outcomes
<1>2. Fits(log, r, known, submitted)
  BY <1>1 DEF Fits, Unowned
<1> HIDE DEF r
<1>3. log' = log \o <<r>>
  BY DEF r
<1>4. log' \in Seq(RecordType) /\ LogOK(log', known, submitted)
  BY <1>1, <1>2, <1>3, RecordAppended DEF LogInv, TypeInv
<1>5. ASSUME NEW t PROVE Begun(log', t) <=> Begun(log, t)
  BY <1>1, <1>3, StaysBegun DEF TypeInv
<1>6. ASSUME NEW t, NEW at, Active(log, t, at) PROVE Active(log', t, at)
  BY <1>1, <1>3, <1>6, StaysActive DEF TypeInv
<1> QED
  BY <1>4, <1>5, <1>6

\* The running closure goes on, and its record may be appended.
LEMMA StageKeeps ==
  ASSUME IInv, mutations # <<>>, NEW stage \in Stages, Stage(stage),
         UNCHANGED <<loop, current, submitted, received>>,
         accepted \subseteq accepted',
         mutations[1].kind = "message" /\ stage = "flushing" =>
           mutations[1].id \in accepted',
         \/ UNCHANGED turn
         \/ ~ Idle /\ turn' = [turn EXCEPT !.inputRecorded = TRUE],
         ~ Idle /\ turn' # turn => Begun(log', turn.id),
         log' \in Seq(RecordType), LogOK(log', received' \cup accepted', submitted),
         ~ Idle => /\ Begun(log, turn.id) => Begun(log', turn.id)
                   /\ turn.at = "preparing" => ~ Begun(log', turn.id)
                   /\ Active(log', turn.id, turn.at)
  PROVE  IInv'
<1> USE DEF IInv
<1>1. /\ DOMAIN mutations = 1 .. Len(mutations) /\ 1 \in DOMAIN mutations
  BY HeadFacts
<1>2. /\ mutations' \in Seq(MutationType) /\ DOMAIN mutations' = DOMAIN mutations
      /\ mutations'[1].stage = stage
      /\ \A i \in DOMAIN mutations :
           /\ mutations'[i].kind = mutations[i].kind
           /\ mutations'[i].turn = mutations[i].turn
           /\ mutations'[i].id = mutations[i].id
           /\ i # 1 => mutations'[i] = mutations[i]
  BY StageFacts
<1>3. ASSUME ~ Idle
      PROVE  /\ turn' \in TurnType /\ turn'.id = turn.id /\ turn'.type = turn.type
             /\ turn'.finishing = turn.finishing /\ turn'.ahead = turn.ahead
             /\ turn'.at = turn.at
  BY <1>3 DEF TypeInv, Idle, TurnType
<1>0. Idle <=> Idle'
  BY <1>3, TurnIsNotNoTurn DEF Idle
<1>4. TypeInv'
  BY <1>0, <1>2, <1>3 DEF TypeInv, Idle
<1>5. QueueInv'
  BY <1>0, <1>1, <1>2, <1>3 DEF QueueInv
<1>6. LoopInv'
  BY <1>0, <1>3 DEF LoopInv
<1>7. LogInv'
  BY DEF LogInv
<1>8. TurnInv'
  BY <1>0, <1>2, <1>3 DEF TurnInv
<1> QED
  BY <1>4, <1>5, <1>6, <1>7, <1>8

\* A message is appended again while its closure waits.
LEMMA ResaveKeeps ==
  ASSUME IInv, mutations # <<>>, MessageResaved(mutations[1])
  PROVE  IInv'
<1> USE DEF IInv
<1> DEFINE id == mutations[1].id
<1>1. 1 \in DOMAIN mutations /\ mutations[1] \in MutationType /\ id \in Names
  BY HeadFacts DEF MutationType
<1>2. /\ UNCHANGED <<loop, current, mutations, turn, inputVars>>
      /\ log' = log \o <<AgentMessage(id)>> /\ ~ Recorded(AgentMessage(id))
      /\ id \in accepted
  BY <1>1 DEF MessageResaved, AppendItems, loopVars, QueueInv
<1>3. ASSUME NEW i \in DOMAIN log, log[i].type = "agent_message", log[i].id = id
      PROVE  FALSE
  <2>1. log[i] \in RecordType
    BY LenProperties, ElementOfSeq DEF TypeInv
  <2>2. log[i].turn = "none"
    BY <1>3 DEF LogInv, LogOK, RecordOK, Unowned
  <2>3. log[i] = AgentMessage(id)
    BY <1>3, <2>1, <2>2 DEF RecordType, AgentMessage, Rec
  <2> QED
    BY <1>2, <2>3 DEF Recorded, Range
<1> HIDE DEF id
<1>4. /\ log' \in Seq(RecordType)
      /\ LogOK(log', received \cup accepted, submitted)
      /\ \A t : Begun(log', t) <=> Begun(log, t)
      /\ \A t, at : Active(log, t, at) => Active(log', t, at)
  BY <1>1, <1>2, <1>3, MessageAppended
<1>5. TypeInv'
  BY <1>2, <1>4 DEF TypeInv
<1>6. QueueInv' /\ LoopInv' /\ LogInv'
  BY <1>2, <1>4 DEF QueueInv, LoopInv, LogInv, Idle, inputVars
<1>7. TurnInv'
  BY <1>2, <1>4 DEF TurnInv, Idle, inputVars
<1> QED
  BY <1>5, <1>6, <1>7

\* A step of the mutation queue.
LEMMA MutationKeeps ==
  ASSUME IInv, MutationStep
  PROVE  IInv'
<1> USE DEF IInv, AppendItems, SaveRejects, AppendResolves, FlushResolves,
            MessageAnswered, NextCommand, Running, loopVars, inputVars, storeVars
<1> DEFINE m == mutations[1]
<1>1. /\ mutations # <<>>
      /\ \/ RecordStarts(m) \/ RecordRefused(m) \/ RecordEnds(m) \/ InputSaved(m)
         \/ MessageStarts(m) \/ MessageKnown(m) \/ MessageSaved(m)
         \/ MessageResaved(m) \/ MessageFails(m)
  BY DEF MutationStep, RecordStarts, RecordRefused, RecordEnds, InputSaved,
     MessageStarts, MessageKnown, MessageSaved, MessageResaved, MessageFails
<1>2. 1 \in DOMAIN mutations /\ m \in MutationType /\ m.id \in Names
  BY <1>1, HeadFacts DEF MutationType
<1>3. ~ Idle => turn \in TurnType
  BY DEF TypeInv, Idle
<1>4. m.kind # "message" =>
        /\ ~ Idle /\ Begun(log, turn.id) /\ turn.at # "preparing"
  BY <1>2 DEF QueueInv, TurnInv
<1> HIDE DEF m
<1>5. ASSUME m.kind # "message",
             log' = log \o <<ResponseItem(m.id, m.turn)>>
      PROVE  /\ log' \in Seq(RecordType)
             /\ LogOK(log', received \cup accepted, submitted)
             /\ Begun(log', turn.id) /\ Active(log', turn.id, turn.at)
  BY <1>1, <1>5, ResponseAppended DEF m
<1>6. /\ log \in Seq(RecordType) /\ LogOK(log, received \cup accepted, submitted)
      /\ ~ Idle => Active(log, turn.id, turn.at)
      /\ ~ Idle /\ turn.at = "preparing" => ~ Begun(log, turn.id)
  BY DEF TypeInv, LogInv, TurnInv
<1>7. CASE RecordStarts(m)
  <2>1. /\ UNCHANGED <<loop, current, inputVars>> /\ m.kind # "message"
        /\ \/ log' = log \o <<ResponseItem(m.id, m.turn)>>
           \/ log' = log
        /\ turn' = turn \/ turn' = [turn EXCEPT !.inputRecorded = TRUE]
    BY <1>7 DEF RecordStarts
  <2>2. PICK stage \in Stages : Stage(stage)
    BY <1>7 DEF RecordStarts, Stages
  <2>3. /\ log' \in Seq(RecordType)
        /\ LogOK(log', received \cup accepted, submitted)
        /\ Begun(log', turn.id) /\ Active(log', turn.id, turn.at)
    BY <1>4, <1>5, <1>6, <2>1
  <2> QED
    BY <1>1, <1>4, <2>1, <2>2, <2>3, StageKeeps DEF m
<1>8. CASE RecordRefused(m)
  BY <1>1, <1>8, EndKeeps DEF RecordRefused, m
<1>9. CASE RecordEnds(m)
  BY <1>1, <1>9, EndKeeps DEF RecordEnds, m
<1>10. CASE InputSaved(m)
  <2>1. CASE MutationEnds /\ UNCHANGED log
    BY <1>1, <1>10, <2>1, EndKeeps DEF InputSaved, m
  <2>2. CASE /\ log' = log \o <<ResponseItem(m.id, m.turn)>>
             /\ Stage("appending") /\ UNCHANGED turn
    <3>1. /\ UNCHANGED <<loop, current, inputVars>> /\ m.kind # "message"
      BY <1>10 DEF InputSaved
    <3>2. /\ log' \in Seq(RecordType)
          /\ LogOK(log', received \cup accepted, submitted)
          /\ Begun(log', turn.id) /\ Active(log', turn.id, turn.at)
      BY <1>5, <2>2, <3>1
    <3> QED
      BY <1>1, <1>4, <2>2, <3>1, <3>2, StageKeeps DEF m, Stages
  <2> QED
    BY <1>10, <2>1, <2>2 DEF InputSaved
<1>11. CASE MessageStarts(m)
  <2>1. /\ UNCHANGED <<loop, current, turn, submitted, received>>
        /\ Stage("flushing") /\ accepted \subseteq accepted'
        /\ m.id \in accepted'
    BY <1>11 DEF MessageStarts
  <2>2. CASE log' = log
    <3>1. LogOK(log', received' \cup accepted', submitted)
      BY <1>6, <2>1, <2>2, LogGrows
    <3> QED
      BY <1>1, <1>6, <2>1, <2>2, <3>1, StageKeeps DEF m, Stages
  <2>3. CASE /\ m.id \notin accepted /\ m.id \notin received
             /\ log' = log \o <<AgentMessage(m.id)>>
    <3>1. \A i \in DOMAIN log : ~ (log[i].type = "agent_message" /\ log[i].id = m.id)
      BY <1>6, <2>3 DEF LogOK, RecordOK
    <3> DEFINE known == received' \cup accepted'
    <3>2. received \cup accepted \subseteq known /\ m.id \in known
      BY <2>1
    <3> HIDE DEF known
    <3>3. /\ log' \in Seq(RecordType)
          /\ LogOK(log', known, submitted)
          /\ \A t : Begun(log', t) <=> Begun(log, t)
          /\ \A t, at : Active(log, t, at) => Active(log', t, at)
      BY <1>2, <2>3, <3>1, <3>2, MessageAppended
    <3> QED
      BY <1>1, <1>6, <2>1, <3>3, StageKeeps DEF m, Stages, known
  <2> QED
    BY <1>11, <2>2, <2>3 DEF MessageStarts
<1>12. CASE MessageKnown(m)
  BY <1>1, <1>12, EndKeeps DEF MessageKnown, m
<1>13. CASE MessageSaved(m)
  <2>1. received \cup accepted \subseteq received' \cup accepted'
    BY <1>13 DEF MessageSaved
  <2> QED
    BY <1>1, <1>13, <2>1, EndKeeps DEF MessageSaved, m
<1>14. CASE MessageResaved(m)
  BY <1>1, <1>14, ResaveKeeps DEF m
<1>15. CASE MessageFails(m)
  BY <1>1, <1>15, EndKeeps DEF MessageFails, m
<1> QED
  BY <1>1, <1>7, <1>8, <1>9, <1>10, <1>11, <1>12, <1>13, <1>14, <1>15

-----------------------------------------------------------------------------
(* The loop.                                                               *)

\* The loop goes on, to a place that its Turn allows; the active Turn may
\* have been cancelled or steered, and a status appended.
LEMMA LoopMoves ==
  ASSUME IInv, loop # "recording_message",
         UNCHANGED <<mutations, inputVars>>,
         UNCHANGED turn \/ (~ Idle /\ Moved(turn, turn', turn.at)),
         log' = log \/ \E message \in Names : log' = log \o <<AgentError(message)>>,
         loop' = "reading" => current' \in Commands,
         loop' \in {"fork_flushing", "forking"} => Idle,
         loop' \in {"disposing", "done", "failed"} => Idle \/ turn.at = "stuck"
  PROVE  IInv'
<1> USE DEF IInv, inputVars
<1>1. /\ Idle <=> Idle'
      /\ ~ Idle => /\ turn' \in TurnType /\ turn'.id = turn.id
                   /\ turn'.type = turn.type /\ turn'.at = turn.at
                   /\ turn'.finishing = turn.finishing /\ turn'.ahead = turn.ahead
                   /\ turn'.inputRecorded = turn.inputRecorded
  BY TurnIsNotNoTurn DEF TypeInv, Idle, Moved
<1>2. /\ log' \in Seq(RecordType)
      /\ LogOK(log', received \cup accepted, submitted)
      /\ \A t : Begun(log', t) <=> Begun(log, t)
      /\ \A t, at : Active(log, t, at) => Active(log', t, at)
  BY StatusAppended DEF TypeInv, LogInv
<1>3. TypeInv'
  BY <1>1, <1>2 DEF TypeInv, Idle
<1>4. QueueInv'
  BY <1>1 DEF QueueInv
<1>5. LoopInv'
  BY <1>1 DEF LoopInv
<1>6. LogInv'
  BY <1>2 DEF LogInv
<1>7. TurnInv'
  BY <1>1, <1>2 DEF TurnInv
<1> QED
  BY <1>3, <1>4, <1>5, <1>6, <1>7

LEMMA CancelMoves ==
  ASSUME TypeInv, InterruptActiveTurn
  PROVE  UNCHANGED turn \/ (~ Idle /\ Moved(turn, turn', turn.at))
<1>1. CASE ~ Idle
  <2> DEFINE e == IF turn.escalation = "none" /\ ~ turn.finishing THEN "armed"
                                                               ELSE turn.escalation
  <2>1. turn \in TurnType
    BY <1>1 DEF TypeInv, Idle
  <2>2. e \in {"none", "armed", "aborting", "ended"}
    BY <2>1 DEF TurnType
  <2>3. turn' = [turn EXCEPT !.accepting = FALSE, !.aborted = TRUE, !.escalation = e]
    BY <1>1, <2>1 DEF InterruptActiveTurn, Cancelled, TurnType
  <2> HIDE DEF e
  <2> QED
    BY <1>1, <2>1, <2>2, <2>3 DEF Moved, TurnType
<1> QED
  BY <1>1 DEF InterruptActiveTurn

\* A Turn that is started.
LEMMA StartKeeps ==
  ASSUME IInv, loop # "recording_message", Idle, NEW c \in Commands,
         c.id \notin submitted, StartTurn(c),
         UNCHANGED <<mutations, received, accepted>>
  PROVE  IInv'
<1> USE DEF IInv
<1>1. /\ UNCHANGED log /\ turn' = NewTurn(c) /\ submitted' = submitted \cup {c.id}
      /\ loop' = "receive"
  BY DEF StartTurn, NextCommand, storeVars
<1>2. c.id \in Ids /\ c.source \in Sources /\ c.type \in Kinds
  BY CommandsAssumption DEF CommandType, Ids, Sources, Kinds
<1>3. <<>> \in Seq(InputType) /\ {} \in SUBSET STRING /\ 0 \in Nat
  OBVIOUS
<1>4. NewTurn(c) \in TurnType
  BY <1>2, <1>3 DEF NewTurn, TurnType, TaskPlaces, Outcomes
<1>5. /\ turn' \in TurnType /\ turn'.id = c.id /\ turn'.type = c.type
      /\ turn'.at = "preparing" /\ turn'.finishing = FALSE
      /\ turn'.inputRecorded = (c.type = "resume_turn")
  BY <1>1, <1>4 DEF NewTurn
<1>6. ~ Idle'
  BY <1>5, TurnIsNotNoTurn DEF Idle
<1>7. DOMAIN mutations = {}
  BY DEF QueueInv
<1>8. ~ Begun(log, c.id)
  BY DEF Begun, StartOf, LogInv, LogOK, RecordOK
<1>9. TypeInv'
  BY <1>1, <1>5 DEF TypeInv
<1>10. QueueInv' /\ LoopInv'
  BY <1>1, <1>5, <1>7 DEF QueueInv, LoopInv, FinishPlaces
<1>11. LogInv'
  BY <1>1, LogGrows DEF LogInv
<1>12. Active(log, c.id, "preparing")
  BY <1>8 DEF Active, Begun
<1>13. TurnInv'
  BY <1>1, <1>5, <1>7, <1>8, <1>12 DEF TurnInv
<1> QED
  BY <1>9, <1>10, <1>11, <1>13

\* An input that is routed.
LEMMA RouteKeeps ==
  ASSUME IInv, loop # "recording_message", NEW c \in Commands,
         RouteTurnInput(c), UNCHANGED <<mutations, received, accepted>>
  PROVE  IInv'
<1> USE DEF IInv, NextCommand, Await, inputVars, storeVars, AppendItems, SaveRejects
<1>1. CASE \E answer : AnswerInput(c, answer)
  BY <1>1, LoopMoves DEF AnswerInput
<1>2. CASE Idle /\ c.id \notin submitted /\ StartTurn(c)
  BY <1>2, StartKeeps
<1>3. CASE CaptureFails(c)
  <2>1. "Task capture failed." \in Names
    BY DEF Names
  <2> QED
    BY <1>3, <2>1, LoopMoves DEF CaptureFails, RecordAgentFailure
<1>4. CASE ~ Idle /\ AcceptSteering(c)
  <2>1. turn \in TurnType
    BY <1>4 DEF TypeInv, Idle
  <2> DEFINE input == [id |-> c.id, source |-> c.source]
             steering == Append(turn.steering, input)
             seen == turn.seen \cup {c.id}
  <2>2. input \in InputType /\ c.id \in STRING
    BY CommandsAssumption DEF CommandType, InputType, Sources
  <2>3. turn' = [turn EXCEPT !.steering = steering, !.seen = seen]
    BY <1>4, <2>1 DEF AcceptSteering, TurnType
  <2> HIDE DEF input
  <2>4. steering \in Seq(InputType)
    BY <2>1, <2>2, AppendProperties DEF TurnType
  <2>5. seen \in SUBSET STRING
    BY <2>1, <2>2 DEF TurnType
  <2> HIDE DEF steering, seen
  <2>6. Moved(turn, turn', turn.at)
    BY <2>1, <2>3, <2>4, <2>5 DEF Moved, TurnType
  <2> QED
    BY <1>4, <2>6, LoopMoves DEF AcceptSteering
<1> QED
  BY <1>1, <1>2, <1>3, <1>4 DEF RouteTurnInput

\* A message that is queued.
LEMMA MessageQueued ==
  ASSUME IInv, loop # "recording_message", NEW c \in Commands,
         mutations' = Append(mutations,
           [kind |-> "message", id |-> c.id, turn |-> "none", stage |-> "queued"]),
         loop' = "recording_message", UNCHANGED <<turn, log, inputVars>>
  PROVE  IInv'
<1> USE DEF IInv, inputVars
<1> DEFINE m == [kind |-> "message", id |-> c.id, turn |-> "none", stage |-> "queued"]
<1>1. /\ m \in MutationType /\ m.kind = "message" /\ m.stage = "queued"
  BY CommandsAssumption DEF CommandType, MutationType, Names, Outcomes
<1> HIDE DEF m
<1>2. mutations' = mutations \o <<m>>
  BY <1>1, AppendIsConcat DEF TypeInv, m
<1>3. /\ mutations' \in Seq(MutationType)
      /\ Len(mutations) \in Nat /\ DOMAIN mutations = 1 .. Len(mutations)
      /\ DOMAIN mutations' = 1 .. Len(mutations) + 1
      /\ \A i \in 1 .. Len(mutations) : mutations'[i] = mutations[i]
      /\ mutations'[Len(mutations) + 1] = m
  BY <1>1, <1>2, QueueLonger
<1>4. \A i \in DOMAIN mutations : mutations[i].kind # "message"
  BY DEF QueueInv
<1>5. TypeInv'
  BY <1>3 DEF TypeInv
<1>6. QueueInv'
  BY <1>1, <1>3, <1>4 DEF QueueInv, Idle
<1>7. LoopInv' /\ LogInv'
  BY DEF LoopInv, LogInv
<1>8. TurnInv'
  BY <1>1, <1>3 DEF TurnInv, Idle
<1> QED
  BY <1>5, <1>6, <1>7, <1>8

\* A step of the loop.
LEMMA LoopKeeps ==
  ASSUME IInv, LoopStep
  PROVE  IInv'
<1> USE DEF IInv, NextCommand, Await, AppendItems, SaveRejects, FlushResolves,
            Receive, loopVars, bodyVars, inputVars, storeVars
<1>1. ASSUME NEW c \in Commands, DispatchInput(c) PROVE IInv'
  BY <1>1, RouteKeeps DEF DispatchInput
<1>2. ASSUME NEW c \in Commands, DispatchResume(c) PROVE IInv'
  <2>1. CASE RouteTurnInput(c)
    BY <1>2, <2>1, RouteKeeps DEF DispatchResume
  <2>2. CASE ~ RouteTurnInput(c)
    BY <1>2, <2>2, LoopMoves DEF DispatchResume, AnswerInput
  <2> QED
    BY <2>1, <2>2
<1>3. ASSUME NEW c \in Commands, DispatchInterrupt(c) PROVE IInv'
  BY <1>3, CancelMoves, LoopMoves DEF DispatchInterrupt
<1>4. ASSUME NEW c \in Commands, DispatchFailAgent(c) PROVE IInv'
  <2>1. "agent failed" \in Names
    BY DEF Names
  <2> QED
    BY <1>4, <2>1, LoopMoves DEF DispatchFailAgent, RecordAgentFailure, AnswerInput
<1>5. ASSUME NEW c \in Commands, DispatchAgentMessage(c) PROVE IInv'
  BY <1>5, MessageQueued, LoopMoves DEF DispatchAgentMessage
<1>6. ASSUME NEW c \in Commands, DispatchForkBarrier(c) PROVE IInv'
  BY <1>6, CancelMoves, LoopMoves DEF DispatchForkBarrier
<1>7. ASSUME NEW c \in Commands, DispatchShutdownIfIdle(c) PROVE IInv'
  BY <1>7, LoopMoves DEF DispatchShutdownIfIdle
<1>8. ASSUME NEW c \in Commands, DispatchShutdown(c) PROVE IInv'
  BY <1>8, CancelMoves, LoopMoves DEF DispatchShutdown
<1>9. CASE FailureSaved
  BY <1>9, LoopMoves DEF FailureSaved
<1>10. CASE StoredRead
  <2>1. CASE RouteTurnInput(current)
    BY <1>10, <2>1, RouteKeeps DEF StoredRead, TypeInv
  <2>2. CASE ~ RouteTurnInput(current)
    BY <1>10, <2>2, LoopMoves DEF StoredRead, AnswerInput
  <2> QED
    BY <2>1, <2>2
<1>11. CASE ForkTurnSettled
  BY <1>11, LoopMoves DEF ForkTurnSettled
<1>12. CASE ForkFlushed
  BY <1>12, LoopMoves DEF ForkFlushed, LoopInv
<1>13. CASE ForkDone
  BY <1>13, LoopMoves DEF ForkDone
<1>14. CASE LoopSettled
  BY <1>14, LoopMoves DEF LoopSettled, TurnSettled
<1>15. CASE LoopEnds
  BY <1>15, LoopMoves DEF LoopEnds, LoopInv
<1> QED
  BY <1>1, <1>2, <1>3, <1>4, <1>5, <1>6, <1>7, <1>8, <1>9, <1>10, <1>11, <1>12,
     <1>13, <1>14, <1>15 DEF LoopStep

-----------------------------------------------------------------------------
(* The theorem of the invariant.                                           *)

LEMMA Unmoved ==
  ASSUME IInv, UNCHANGED <<loop, current, turn, mutations, inputVars, log>>
  PROVE  IInv'
BY DEF IInv, TypeInv, QueueInv, LoopInv, LogInv, TurnInv, Idle, inputVars

\* The process dies, and a new one reads what is left of the rollout.
LEMMA CrashKeeps ==
  ASSUME IInv, Crash
  PROVE  IInv'
<1> USE DEF IInv
<1>1. PICK n \in synced .. Len(log) :
        log' = SubSeq(log, 1, n) /\ Constructed(log')
  BY DEF Crash
<1>2. /\ mutations' = <<>> /\ turn' = NoTurn /\ loop' = "receive"
      /\ submitted' = SubmittedOf(log') /\ received' = ReceivedOf(log')
      /\ accepted' = {}
  BY <1>1 DEF Constructed
<1>3. n \in Int /\ n <= Len(log)
  BY <1>1
<1>4. /\ log' \in Seq(RecordType)
      /\ LogOK(log', ReceivedOf(log'), SubmittedOf(log'))
  BY <1>1, <1>3, LogCut DEF TypeInv, LogInv
<1>5. mutations' \in Seq(MutationType) /\ DOMAIN mutations' = {}
  BY <1>2
<1>6. TypeInv'
  BY <1>2, <1>4, <1>5 DEF TypeInv
<1>7. QueueInv' /\ LoopInv' /\ TurnInv'
  BY <1>2, <1>5 DEF QueueInv, LoopInv, TurnInv, Idle
<1>8. LogInv'
  BY <1>2, <1>4, LogGrows DEF LogInv
<1> QED
  BY <1>6, <1>7, <1>8

\* Whatever a Session does, whose closures wait, what of its Turn is in the
\* rollout and what it knows of the rollout stay as the invariant says.
THEOREM Invariance == Spec => []IInv
<1>1. Init => IInv
  <2> SUFFICES ASSUME Init PROVE IInv
    OBVIOUS
  <2>1. log = <<>> /\ mutations = <<>> /\ turn = NoTurn /\ loop = "receive"
    BY DEF Init
  <2>2. /\ log \in Seq(RecordType) /\ DOMAIN log = {}
        /\ mutations \in Seq(MutationType) /\ DOMAIN mutations = {}
    BY <2>1
  <2> QED
    BY <2>1, <2>2 DEF IInv, TypeInv, QueueInv, LoopInv, LogInv, LogOK, TurnInv, Idle
<1>2. IInv /\ [Next]_vars => IInv'
  <2> SUFFICES ASSUME IInv, [Next]_vars PROVE IInv'
    OBVIOUS
  <2>1. CASE CallerStep
    BY <2>1, Unmoved DEF CallerStep, SendCommand, Shutdown, ShutdownIfIdle,
       bodyVars, inputVars, storeVars
  <2>2. CASE IdleShutdownSettles
    BY <2>2, Unmoved DEF IdleShutdownSettles, bodyVars, inputVars, storeVars
  <2>3. CASE LoopStep
    BY <2>3, LoopKeeps
  <2>4. CASE MutationStep
    BY <2>4, MutationKeeps
  <2>5. CASE TaskStep
    BY <2>5, TaskKeeps
  <2>6. CASE SettleStep
    BY <2>6, SettleKeeps
  <2>7. CASE EscalationStep
    BY <2>7, EscalationKeeps
  <2>8. CASE Crash
    BY <2>8, CrashKeeps
  <2>9. CASE UNCHANGED vars
    BY <2>9, Unmoved DEF vars, loopVars, inputVars, storeVars
  <2> QED
    BY <2>1, <2>2, <2>3, <2>4, <2>5, <2>6, <2>7, <2>8, <2>9 DEF Next
<1> QED
  BY <1>1, <1>2, PTL DEF Spec

-----------------------------------------------------------------------------
(* What a reader of the rollout relies on.                                 *)

\* An agent message is in the rollout at most once (#recordAgentMessage with
\* #acceptedAgentMessages and #receivedAgentMessageIds), for any commands,
\* retries, rejected saves and crashes.
THEOREM MessageOnceHolds == Spec => []MessageOnce
<1>1. IInv => MessageOnce
  BY DEF IInv, LogInv, LogOK, RecordOK, MessageOnce
<1> QED
  BY <1>1, Invariance, PTL

\* The records of a Turn begin with its one turn_started, nothing of another
\* Turn is between them, and turn_completed is the last (recordConversationItems
\* and #finishTurn), whatever fails and whenever the task is stopped.
THEOREM TurnsAreBracketedHolds == Spec => []TurnsAreBracketed
<1>1. ASSUME IInv PROVE TurnsAreBracketed
  <2> SUFFICES ASSUME NEW s \in DOMAIN log, NEW k \in DOMAIN log,
                      log[s].type = "turn_started", log[k].turn = log[s].turn, k # s
               PROVE  IF k < s
                      THEN log[k].type = "turn_completed" \/ log[k].id = Interruption
                      ELSE /\ log[k].type # "turn_started"
                           /\ \A j \in s .. k - 1 :
                                /\ log[j].turn \in {log[s].turn, "none"}
                                /\ log[j].type # "turn_completed"
    BY DEF TurnsAreBracketed
  <2> DEFINE t == log[s].turn
  <2>1. /\ DOMAIN log = 1 .. Len(log) /\ Len(log) \in Nat
        /\ log[k] \in RecordType /\ log[s] \in RecordType
    BY <1>1, LenProperties, ElementOfSeq DEF IInv, TypeInv
  <2>2. RecordOK(log, s, received \cup accepted, submitted)
        /\ RecordOK(log, k, received \cup accepted, submitted)
    BY <1>1 DEF IInv, LogInv, LogOK
  <2>3. /\ t # "none" /\ StartOf(log, s, t)
        /\ \A i \in DOMAIN log : StartOf(log, i, t) => i = s
    BY <2>2 DEF RecordOK, StartOf, Unowned
  <2>4. log[k].type # "turn_started"
    BY <2>3 DEF StartOf
  <2>5. CASE k < s
    <3>1. log[k].type \notin Unowned
      BY <2>2, <2>3 DEF RecordOK
    <3>2. ~ (log[k].type = "response_item" /\ ~ Terminal(log[k]))
      <4> SUFFICES ASSUME log[k].type = "response_item", ~ Terminal(log[k])
                   PROVE  FALSE
        OBVIOUS
      <4>1. PICK i \in 1 .. k - 1 : StartOf(log, i, t)
        BY <2>2 DEF RecordOK
      <4> QED
        BY <2>1, <2>3, <2>5, <4>1
    <3> QED
      BY <2>1, <2>4, <2>5, <3>1, <3>2 DEF RecordType, RecordTypes, Unowned, Terminal
  <2>6. CASE s < k
    <3>1. s \in 1 .. k - 1
      BY <2>1, <2>6
    <3> QED
      BY <2>1, <2>2, <2>3, <2>4, <2>6, <3>1 DEF RecordOK
  <2> QED
    BY <2>1, <2>5, <2>6
<1> QED
  BY <1>1, Invariance, PTL

\* While no Turn is active and the loop records no message, only the callers
\* and the loop take steps.
LEMMA IdleSteps ==
  ASSUME IInv, Idle, loop # "recording_message", Next
  PROVE  CallerStep \/ IdleShutdownSettles \/ LoopStep \/ Crash
<1>1. ~ MutationStep
  BY DEF IInv, QueueInv, MutationStep, Range
<1>2. ~ TaskStep
  BY TaskMoves DEF IInv
<1>3. ~ SettleStep
  BY IdleTurn DEF IInv, SettleStep, TaskSettled, StartFailed, StartFailureSaved,
     AppendTerminal, TerminalSaved, TerminalFlushed, At, TaskPlaces, FinishPlaces
<1>4. ~ EscalationStep
  BY DEF EscalationStep, EscalationFires, EscalationEnds
<1> QED
  BY <1>1, <1>2, <1>3, <1>4 DEF Next

\* While the loop is at one of the places where it neither receives nor
\* starts anything, it writes nothing.
LEMMA LoopWritesNothing ==
  ASSUME loop \in {"fork_flushing", "forking", "disposing", "done", "failed"}, LoopStep
  PROVE  UNCHANGED <<turn, log, history>>
BY DEF LoopStep, DispatchInput, DispatchResume, DispatchInterrupt, DispatchFailAgent,
   DispatchAgentMessage, DispatchForkBarrier, DispatchShutdownIfIdle,
   DispatchShutdown, Receive, FailureSaved, StoredRead, ForkTurnSettled,
   ForkFlushed, ForkDone, LoopSettled, LoopEnds, FlushResolves, SaveRejects,
   bodyVars, storeVars

\* The same of every step of a Session without a Turn.
LEMMA NothingWritten ==
  ASSUME IInv, Idle, Next,
         loop \in {"fork_flushing", "forking", "disposing", "done", "failed"}
  PROVE  Crash \/ Quiescent
<1>1. CASE CallerStep
  BY <1>1 DEF CallerStep, SendCommand, Shutdown, ShutdownIfIdle, Quiescent,
     bodyVars, storeVars
<1>2. CASE IdleShutdownSettles
  BY <1>2 DEF IdleShutdownSettles, Quiescent, bodyVars, storeVars
<1>3. CASE LoopStep
  BY <1>3, LoopWritesNothing DEF Quiescent
<1> QED
  BY <1>1, <1>2, <1>3, IdleSteps

\* From the flush of a fork barrier until its caller has read the snapshot no
\* Turn is active and nothing is written (#runForkBarrier).
THEOREM ForkSeesQuiescenceHolds == Spec => ForkSeesQuiescence
<1>1. IInv /\ [Next]_vars =>
        [(loop \in {"fork_flushing", "forking"} => (Crash \/ Quiescent))]_vars
  BY NothingWritten DEF IInv, LoopInv
<1> QED
  BY <1>1, Invariance, PTL DEF Spec, ForkSeesQuiescence

\* Once #runSubmissionLoop has waited for the last Turn nothing writes, except
\* for a Turn whose resources could not be released.
THEOREM NothingAfterSettlingHolds == Spec => NothingAfterSettling
<1>1. IInv /\ [Next]_vars =>
        [(loop = "disposing" \/ LoopEnded) =>
           (Crash \/ turn.at = "stuck" \/ Quiescent)]_vars
  BY NothingWritten DEF IInv, LoopInv, LoopEnded
<1> QED
  BY <1>1, Invariance, PTL DEF Spec, NothingAfterSettling

-----------------------------------------------------------------------------
(* What an acknowledged message relies on, as long as no process has       *)
(* crashed: that it is behind the persistence barrier, which only moves    *)
(* forward over a rollout that only grows.                                 *)

Saved(id) ==
  \E i \in DOMAIN log : i <= synced /\ log[i] = AgentMessage(id)

\* What is flushed was appended.
FlushInv ==
  /\ synced \in Nat
  /\ loop = "saving_failure" =>
       Recorded(AgentError(IF current.type = "fail_agent" THEN "agent failed"
                                                     ELSE "Task capture failed."))
  /\ turn.at = "failed" => Recorded(AgentError("Turn persistence failed."))

\* Which command the loop is at, and whose message waits.
CurrentInv ==
  /\ DOMAIN reply = Commands
  /\ loop = "recording_message" =>
       /\ current \in Commands /\ current.type = "agent_message"
       /\ \A i \in DOMAIN mutations :
            mutations[i].kind = "message" => mutations[i].id = current.id
  /\ loop = "reading" => current.type = "resume_turn"
  /\ loop \in {"saving_failure", "fork_settling", "fork_flushing", "forking"} =>
       current.type # "agent_message"

AckInv ==
  /\ \A id \in received : Saved(id)
  /\ \A c \in Commands :
       c.type = "agent_message" /\ reply[c] = "done" => Saved(c.id)

\* Where a recorded record is.
LEMMA PositionFacts ==
  ASSUME TypeInv, NEW record, Recorded(record)
  PROVE  /\ Position(record) \in Nat /\ Position(record) \in DOMAIN log
         /\ log[Position(record)] = record
         /\ \A j \in DOMAIN log : log[j] = record => j <= Position(record)
<1>1. DOMAIN log = 1 .. Len(log) /\ Len(log) \in Nat
  BY LenProperties DEF TypeInv
<1> DEFINE places == {i \in DOMAIN log : log[i] = record}
<1>2. places \in SUBSET Int /\ places # {}
  BY <1>1 DEF Recorded, Range
<1> DEFINE behind == {n \in Nat : Len(log) - n \in places}
<1>3. behind # {}
  <2>1. PICK i \in places : TRUE
    BY <1>2
  <2>2. i \in 1 .. Len(log)
    BY <1>1
  <2>3. Len(log) - i \in Nat /\ Len(log) - (Len(log) - i) = i
    BY <1>1, <2>2
  <2>4. Len(log) - i \in behind
    BY <2>1, <2>3
  <2> QED
    BY <2>4
<1>4. PICK n \in behind : \A k \in behind : <<k, n>> \notin OpToRel(<, Nat)
  BY ZenonT(30), <1>3, WFMin, NatLessThanWellFounded
<1>5. \A k \in behind : ~ (k < n)
  BY Zenon, <1>4 DEF OpToRel
<1>6. Len(log) - n \in places /\ n \in Nat
  OBVIOUS
<1>7. ASSUME NEW j \in places PROVE j <= Len(log) - n
  <2>1. j \in 1 .. Len(log)
    BY <1>1
  <2>2. Len(log) - j \in Nat /\ Len(log) - (Len(log) - j) = j
    BY <1>1, <2>1
  <2>3. Len(log) - j \in behind
    BY <2>2
  <2>4. ~ (Len(log) - j < n)
    BY <1>5, <2>3
  <2> QED
    BY <1>1, <1>6, <2>1, <2>4
<1>8. \E i \in DOMAIN log :
        log[i] = record /\ \A j \in DOMAIN log : log[j] = record => j <= i
  BY <1>6, <1>7
<1>9. /\ Position(record) \in DOMAIN log /\ log[Position(record)] = record
      /\ \A j \in DOMAIN log : log[j] = record => j <= Position(record)
  BY <1>8 DEF Position
<1> QED
  BY <1>1, <1>9

\* The records of a step are appended, and a flush moves the barrier forward.
Grows ==
  /\ \A i \in DOMAIN log : i \in DOMAIN log' /\ log'[i] = log[i]
  /\ synced' \in Nat /\ synced <= synced'
  /\ \A r : log' = log \o <<r>> => Recorded(r)'

\* Any two sequences, one behind the other.
LEMMA Joined ==
  ASSUME NEW S, NEW T, NEW l \in Seq(S), NEW m \in Seq(T)
  PROVE  /\ Len(l) \in Nat /\ Len(m) \in Nat
         /\ DOMAIN l = 1 .. Len(l) /\ DOMAIN (l \o m) = 1 .. Len(l) + Len(m)
         /\ \A i \in 1 .. Len(l) : (l \o m)[i] = l[i]
         /\ \A i \in 1 .. Len(m) : (l \o m)[Len(l) + i] = m[i]
<1> DEFINE R == S \cup T
<1>1. l \in Seq(R) /\ m \in Seq(R)
  OBVIOUS
<1>2. Len(l) \in Nat /\ Len(m) \in Nat /\ DOMAIN l = 1 .. Len(l)
  BY LenProperties
<1> HIDE DEF R
<1>3. /\ l \o m \in Seq(R) /\ Len(l \o m) = Len(l) + Len(m)
      /\ \A i \in 1 .. Len(l) + Len(m) :
           (l \o m)[i] = IF i <= Len(l) THEN l[i] ELSE m[i - Len(l)]
  BY <1>1, ConcatProperties
<1>4. DOMAIN (l \o m) = 1 .. Len(l) + Len(m)
  BY <1>3, LenProperties
<1> QED
  BY <1>2, <1>3, <1>4

LEMMA AppendGrows ==
  ASSUME TypeInv, synced \in Nat, NEW T, NEW records \in Seq(T),
         log' = log \o records, UNCHANGED synced
  PROVE  Grows
<1>1. /\ Len(log) \in Nat /\ Len(records) \in Nat
      /\ DOMAIN log = 1 .. Len(log) /\ DOMAIN log' = 1 .. Len(log) + Len(records)
      /\ \A i \in 1 .. Len(log) : log'[i] = log[i]
      /\ \A i \in 1 .. Len(records) : log'[Len(log) + i] = records[i]
  BY Joined DEF TypeInv
<1>2. ASSUME NEW r, log' = log \o <<r>> PROVE Recorded(r)'
  <2>1. <<r>> \in Seq({r}) /\ Len(<<r>>) = 1 /\ <<r>>[1] = r
    OBVIOUS
  <2>2. /\ DOMAIN log' = 1 .. Len(log) + 1 /\ log'[Len(log) + 1] = r
    BY <1>2, <2>1, Joined DEF TypeInv
  <2> QED
    BY <1>1, <2>2 DEF Recorded, Range
<1> QED
  BY <1>1, <1>2 DEF Grows

LEMMA RecordGrows ==
  ASSUME TypeInv, synced \in Nat, NEW r, AppendItems(<<r>>)
  PROVE  Grows
<1>1. <<r>> \in Seq({r})
  OBVIOUS
<1> QED
  BY <1>1, AppendGrows DEF AppendItems

LEMMA NothingGrows ==
  ASSUME TypeInv, synced \in Nat, UNCHANGED <<log, synced>>
  PROVE  Grows
<1>1. log' = log \o <<>> /\ <<>> \in Seq({})
  BY ConcatEmptySeq DEF TypeInv
<1> QED
  BY <1>1, AppendGrows

LEMMA FlushGrows ==
  ASSUME TypeInv, synced \in Nat, NEW n \in Nat, FlushResolves(n)
  PROVE  Grows /\ n <= synced'
<1>1. synced' \in Nat /\ synced <= synced' /\ n <= synced' /\ log' = log
  BY DEF FlushResolves, AtLeast
<1>2. \A r : log' = log \o <<r>> => FALSE
  <2> SUFFICES ASSUME NEW r, log' = log \o <<r>> PROVE FALSE
    OBVIOUS
  <2>1. <<r>> \in Seq({r}) /\ Len(<<r>>) = 1
    OBVIOUS
  <2>2. Len(log) \in Nat /\ 1 .. Len(log) = 1 .. Len(log) + 1
    BY <1>1, <2>1, Joined DEF TypeInv
  <2>3. Len(log) + 1 \in 1 .. Len(log) + 1 /\ Len(log) + 1 \notin 1 .. Len(log)
    BY <2>2
  <2> QED
    BY <2>2, <2>3
<1> QED
  BY <1>1, <1>2 DEF Grows

\* What is recorded stays so.
LEMMA StaysRecorded ==
  ASSUME Grows, NEW r, Recorded(r)
  PROVE  Recorded(r)'
BY DEF Grows, Recorded, Range
LEMMA StaysSaved ==
  ASSUME TypeInv, synced \in Nat, Grows, NEW id, Saved(id)
  PROVE  Saved(id)'
<1>1. PICK i \in DOMAIN log : i <= synced /\ log[i] = AgentMessage(id)
  BY DEF Saved
<1>2. i \in Nat
  BY LenProperties DEF TypeInv
<1>3. i \in DOMAIN log' /\ log'[i] = AgentMessage(id) /\ i <= synced'
  BY <1>1, <1>2 DEF Grows
<1> QED
  BY <1>3 DEF Saved

Acknowledged == FlushInv /\ CurrentInv /\ AckInv

\* No agent message is acknowledged.
Unacknowledged ==
  /\ DOMAIN reply' = Commands
  /\ \A c \in Commands : c.type = "agent_message" /\ reply'[c] = "done" =>
       reply[c] = "done"

LEMMA Answered ==
  ASSUME DOMAIN reply = Commands, NEW c, NEW answer, Answer(c, answer)
  PROVE  /\ DOMAIN reply' = Commands
         /\ \A d \in Commands : reply'[d] = IF d = c THEN answer ELSE reply[d]
BY DEF Answer

LEMMA AnswerSilent ==
  ASSUME DOMAIN reply = Commands, NEW c, NEW answer, Answer(c, answer),
         c.type # "agent_message" \/ answer # "done"
  PROVE  Unacknowledged
BY Answered DEF Unacknowledged

LEMMA AckKept ==
  ASSUME TypeInv, FlushInv, AckInv, Grows, Unacknowledged, UNCHANGED received
  PROVE  AckInv'
BY StaysSaved DEF AckInv, FlushInv, Unacknowledged

\* The loop acknowledges no message when it dispatches.
LEMMA LoopAcks ==
  ASSUME IInv, Acknowledged, Grows, Unacknowledged, UNCHANGED received,
         turn'.at = "failed" => turn.at = "failed",
         loop' = "saving_failure" =>
           Recorded(AgentError(IF current.type = "fail_agent" THEN "agent failed"
                               ELSE "Task capture failed."))',
         loop' = "recording_message" =>
           /\ current' \in Commands /\ current'.type = "agent_message"
           /\ \A i \in DOMAIN mutations' :
                mutations'[i].kind = "message" => mutations'[i].id = current'.id,
         loop' = "reading" => current'.type = "resume_turn",
         loop' \in {"saving_failure", "fork_settling", "fork_flushing", "forking"} =>
           current'.type # "agent_message"
  PROVE  Acknowledged'
<1> USE DEF Acknowledged, IInv
<1>1. AckInv'
  BY AckKept
<1>2. CurrentInv'
  BY DEF CurrentInv, Unacknowledged
<1>3. FlushInv'
  <2>1. "Turn persistence failed." \in Names
    BY DEF Names
  <2> DEFINE r == AgentError("Turn persistence failed.")
  <2>2. turn'.at = "failed" => Recorded(r)
    BY DEF FlushInv
  <2> HIDE DEF r
  <2>3. turn'.at = "failed" => Recorded(r)'
    BY <2>2, StaysRecorded
  <2> QED
    BY <2>3 DEF FlushInv, Grows, r
<1> QED
  BY <1>1, <1>2, <1>3

\* A failure that the loop records.
LEMMA FailureAcks ==
  ASSUME IInv, Acknowledged, NEW c \in Commands, NEW message, NEW done,
         RecordAgentFailure(c, message, done), c.type # "agent_message",
         message = IF c.type = "fail_agent" THEN "agent failed"
                                            ELSE "Task capture failed.",
         UNCHANGED received
  PROVE  Acknowledged'
<1> USE DEF Acknowledged, IInv, NextCommand, Await, SaveRejects, storeVars
<1>1. DOMAIN reply = Commands /\ TypeInv /\ synced \in Nat
  BY DEF CurrentInv, FlushInv
<1>2. CASE AppendItems(<<AgentError(message)>>) /\ loop' = "saving_failure"
           /\ current' = c /\ UNCHANGED <<reply, turn>>
  <2>1. Grows
    BY <1>1, <1>2, RecordGrows
  <2>2. Recorded(AgentError(message))'
    BY <1>2, <2>1 DEF Grows, AppendItems
  <2>3. Unacknowledged
    BY <1>1, <1>2 DEF Unacknowledged
  <2> QED
    BY <1>2, <2>1, <2>2, <2>3, LoopAcks
<1>3. CASE Answer(c, done) /\ loop' = "receive" /\ UNCHANGED <<storeVars, turn>>
  <2>1. Grows
    BY <1>1, <1>3, NothingGrows
  <2>2. Unacknowledged
    BY <1>1, <1>3, AnswerSilent
  <2> QED
    BY <1>3, <2>1, <2>2, LoopAcks
<1>4. CASE Answer(c, "rejected") /\ loop' = "receive" /\ UNCHANGED <<storeVars, turn>>
  <2>1. Grows
    BY <1>1, <1>4, NothingGrows
  <2>2. Unacknowledged
    BY <1>1, <1>4, AnswerSilent
  <2> QED
    BY <1>4, <2>1, <2>2, LoopAcks
<1> QED
  BY <1>2, <1>3, <1>4 DEF RecordAgentFailure

\* A step of the loop that saves nothing and answers something else.
LEMMA QuietAcks ==
  ASSUME IInv, Acknowledged, UNCHANGED <<log, synced, received>>, Unacknowledged,
         turn'.at = "failed" => turn.at = "failed",
         loop' \notin {"recording_message", "saving_failure"},
         loop' = "reading" => current'.type = "resume_turn",
         loop' \in {"fork_settling", "fork_flushing", "forking"} =>
           current'.type # "agent_message"
  PROVE  Acknowledged'
<1>1. Grows
  BY NothingGrows DEF IInv, Acknowledged, FlushInv
<1> QED
  BY <1>1, LoopAcks

\* An input that is routed.
LEMMA RouteAcks ==
  ASSUME IInv, Acknowledged, NEW c \in Commands, RouteTurnInput(c),
         c.type \notin {"agent_message", "fail_agent"}, UNCHANGED received
  PROVE  Acknowledged'
<1> USE DEF storeVars, NextCommand
<1>1. DOMAIN reply = Commands
  BY DEF Acknowledged, CurrentInv
<1>2. CASE CaptureFails(c)
  BY <1>2, FailureAcks DEF CaptureFails
<1>3. CASE StartTurn(c)
  <2>1. turn'.at = "preparing"
    BY <1>3 DEF StartTurn, NewTurn
  <2> QED
    BY <1>1, <1>3, <2>1, AnswerSilent, QuietAcks DEF StartTurn
<1>4. CASE AcceptSteering(c) /\ ~ Idle
  <2>1. turn'.at = turn.at
    BY <1>4 DEF AcceptSteering, TurnType, IInv, TypeInv, Idle
  <2> QED
    BY <1>1, <1>4, <2>1, AnswerSilent, QuietAcks DEF AcceptSteering
<1>5. CASE \E answer : AnswerInput(c, answer)
  BY <1>1, <1>5, AnswerSilent, QuietAcks DEF AnswerInput
<1> QED
  BY <1>2, <1>3, <1>4, <1>5 DEF RouteTurnInput

\* What else a step of the loop does.
LEMMA LoopAcknowledges ==
  ASSUME IInv, Acknowledged, LoopStep
  PROVE  Acknowledged'
<1> USE DEF NextCommand, Await, SaveRejects, Receive, loopVars, bodyVars, inputVars,
            storeVars
<1>1. DOMAIN reply = Commands /\ TypeInv /\ synced \in Nat
  BY DEF Acknowledged, CurrentInv, FlushInv, IInv
<1>2. ASSUME InterruptActiveTurn PROVE turn'.at = turn.at
  BY <1>1, <1>2, CancelMoves DEF Moved
<1>3. ASSUME NEW c \in Commands, DispatchInput(c) PROVE Acknowledged'
  BY <1>3, RouteAcks DEF DispatchInput
<1>4. ASSUME NEW c \in Commands, DispatchResume(c) PROVE Acknowledged'
  <2>1. CASE RouteTurnInput(c)
    BY <1>4, <2>1, RouteAcks DEF DispatchResume
  <2>2. CASE AnswerInput(c, "refused")
    BY <1>1, <1>4, <2>2, AnswerSilent, QuietAcks DEF DispatchResume, AnswerInput
  <2>3. CASE /\ loop' = "reading" /\ current' = c
             /\ UNCHANGED <<reply, turn, storeVars>>
    <3>1. Unacknowledged
      BY <1>1, <2>3 DEF Unacknowledged
    <3> QED
      BY <1>4, <2>3, <3>1, QuietAcks DEF DispatchResume
  <2> QED
    BY <1>4, <2>1, <2>2, <2>3 DEF DispatchResume
<1>5. ASSUME NEW c \in Commands, DispatchInterrupt(c) PROVE Acknowledged'
  <2>1. turn'.at = turn.at
    BY <1>2, <1>5 DEF DispatchInterrupt
  <2>2. Unacknowledged
    BY <1>1, <1>5, AnswerSilent DEF DispatchInterrupt
  <2> QED
    BY <1>5, <2>1, <2>2, QuietAcks DEF DispatchInterrupt
<1>6. ASSUME NEW c \in Commands, DispatchFailAgent(c) PROVE Acknowledged'
  <2>1. CASE Idle
    BY <1>6, <2>1, FailureAcks DEF DispatchFailAgent
  <2>2. CASE \E answer : AnswerInput(c, answer)
    BY <1>1, <1>6, <2>2, AnswerSilent, QuietAcks DEF DispatchFailAgent, AnswerInput
  <2> QED
    BY <1>6, <2>1, <2>2 DEF DispatchFailAgent
<1>7. ASSUME NEW c \in Commands, DispatchAgentMessage(c) PROVE Acknowledged'
  <2>1. c.type = "agent_message" /\ UNCHANGED <<turn, storeVars, received>>
        /\ loop = "receive"
    BY <1>7 DEF DispatchAgentMessage
  <2>2. CASE Answer(c, "rejected") /\ loop' = "receive"
    <3>1. Unacknowledged
      BY <1>1, <2>2, AnswerSilent
    <3> QED
      BY <2>1, <2>2, <3>1, QuietAcks
  <2>3. CASE /\ UNCHANGED reply /\ loop' = "recording_message" /\ current' = c
             /\ mutations' = Append(mutations,
                  [kind |-> "message", id |-> c.id, turn |-> "none", stage |-> "queued"])
    <3> DEFINE m == [kind |-> "message", id |-> c.id, turn |-> "none", stage |-> "queued"]
    <3>1. m \in MutationType /\ m.id = c.id
      BY CommandsAssumption DEF CommandType, MutationType, Names, Outcomes
    <3> HIDE DEF m
    <3>2. mutations' = mutations \o <<m>>
      BY <1>1, <2>3, <3>1, AppendIsConcat DEF TypeInv, m
    <3>3. /\ Len(mutations) \in Nat /\ DOMAIN mutations = 1 .. Len(mutations)
          /\ DOMAIN mutations' = 1 .. Len(mutations) + 1
          /\ \A i \in 1 .. Len(mutations) : mutations'[i] = mutations[i]
          /\ mutations'[Len(mutations) + 1] = m
      BY <1>1, <3>1, <3>2, QueueLonger
    <3>4. \A i \in DOMAIN mutations : mutations[i].kind # "message"
      BY <2>1 DEF IInv, QueueInv
    <3>5. \A i \in DOMAIN mutations' :
            mutations'[i].kind = "message" => mutations'[i].id = current'.id
      BY <2>3, <3>1, <3>3, <3>4
    <3>6. Unacknowledged
      BY <1>1, <2>3 DEF Unacknowledged
    <3>7. Grows
      BY <1>1, <2>1, NothingGrows
    <3> QED
      BY <2>1, <2>3, <3>5, <3>6, <3>7, LoopAcks
  <2> QED
    BY <1>7, <2>2, <2>3 DEF DispatchAgentMessage
<1>8. ASSUME NEW c \in Commands,
             DispatchForkBarrier(c) \/ DispatchShutdownIfIdle(c) \/ DispatchShutdown(c)
      PROVE  Acknowledged'
  <2>1. turn'.at = turn.at
    BY <1>2, <1>8 DEF DispatchForkBarrier, DispatchShutdownIfIdle, DispatchShutdown
  <2>2. Unacknowledged
    BY <1>1, <1>8 DEF DispatchForkBarrier, DispatchShutdownIfIdle, DispatchShutdown,
       Unacknowledged
  <2> QED
    BY <1>8, <2>1, <2>2, QuietAcks
       DEF DispatchForkBarrier, DispatchShutdownIfIdle, DispatchShutdown
<1>9. CASE FailureSaved
  <2>1. current.type # "agent_message"
    BY <1>9 DEF FailureSaved, Acknowledged, CurrentInv
  <2>2. Unacknowledged
    BY <1>1, <1>9, <2>1, AnswerSilent DEF FailureSaved
  <2> DEFINE message == IF current.type = "fail_agent" THEN "agent failed"
                                                       ELSE "Task capture failed."
  <2>3. Recorded(AgentError(message))
    BY <1>9 DEF FailureSaved, Acknowledged, FlushInv
  <2>4. UNCHANGED storeVars \/ FlushResolves(Position(AgentError(message)))
    BY <1>9 DEF FailureSaved
  <2> HIDE DEF message
  <2>5. Grows
    BY <1>1, <2>3, <2>4, NothingGrows, FlushGrows, PositionFacts
  <2> QED
    BY <1>9, <2>2, <2>5, LoopAcks DEF FailureSaved
<1>10. CASE StoredRead
  <2>1. current \in Commands /\ current.type = "resume_turn"
    BY <1>10 DEF StoredRead, Acknowledged, CurrentInv, IInv, TypeInv
  <2>2. CASE \E answer : AnswerInput(current, answer)
    BY <1>1, <1>10, <2>1, <2>2, AnswerSilent, QuietAcks DEF StoredRead, AnswerInput
  <2>3. CASE RouteTurnInput(current)
    BY <1>10, <2>1, <2>3, RouteAcks DEF StoredRead
  <2> QED
    BY <1>10, <2>2, <2>3 DEF StoredRead
<1>11. CASE ForkTurnSettled \/ ForkDone \/ LoopSettled
  <2>1. loop \in {"fork_settling", "forking"} => current.type # "agent_message"
    BY DEF Acknowledged, CurrentInv
  <2>2. Unacknowledged
    <3>1. CASE UNCHANGED reply
      BY <1>1, <3>1 DEF Unacknowledged
    <3>2. CASE \E answer : Answer(current, answer) /\ current.type # "agent_message"
      BY <1>1, <3>2, AnswerSilent
    <3> QED
      BY <1>11, <2>1, <3>1, <3>2 DEF ForkTurnSettled, ForkDone, LoopSettled
  <2> QED
    BY <1>11, <2>1, <2>2, QuietAcks DEF ForkTurnSettled, ForkDone, LoopSettled
<1>12. CASE ForkFlushed
  <2>1. current.type # "agent_message"
    BY <1>12 DEF ForkFlushed, Acknowledged, CurrentInv
  <2>2. Unacknowledged
    <3>1. CASE UNCHANGED reply
      BY <1>1, <3>1 DEF Unacknowledged
    <3>2. CASE Answer(current, "rejected")
      BY <1>1, <3>2, AnswerSilent
    <3> QED
      BY <1>12, <3>1, <3>2 DEF ForkFlushed
  <2>3. Len(log) \in Nat
    BY <1>1, LenProperties DEF TypeInv
  <2>4. Grows
    BY <1>1, <1>12, <2>3, NothingGrows, FlushGrows DEF ForkFlushed
  <2> QED
    BY <1>12, <2>1, <2>2, <2>4, LoopAcks DEF ForkFlushed
<1>13. CASE LoopEnds
  <2>1. Unacknowledged
    BY <1>1, <1>13 DEF LoopEnds, Unacknowledged
  <2>2. Len(log) \in Nat
    BY <1>1, LenProperties DEF TypeInv
  <2>3. Grows
    BY <1>1, <1>13, <2>2, NothingGrows, FlushGrows DEF LoopEnds
  <2> QED
    BY <1>13, <2>1, <2>3, LoopAcks DEF LoopEnds
<1> QED
  BY <1>3, <1>4, <1>5, <1>6, <1>7, <1>8, <1>9, <1>10, <1>11, <1>12, <1>13 DEF LoopStep

\* A step that is not the loop's and answers nobody.
LEMMA OthersAck ==
  ASSUME IInv, Acknowledged, Grows, UNCHANGED <<loop, current, reply, received>>,
         turn'.at = "failed" =>
           turn.at = "failed" \/ Recorded(AgentError("Turn persistence failed."))',
         \A i \in DOMAIN mutations' : mutations'[i].kind = "message" =>
           \E j \in DOMAIN mutations :
             mutations[j].kind = "message" /\ mutations[j].id = mutations'[i].id
  PROVE  Acknowledged'
<1> USE DEF Acknowledged, IInv
<1>1. Unacknowledged
  BY DEF CurrentInv, Unacknowledged
<1>2. AckInv'
  BY <1>1, AckKept
<1>3. CurrentInv'
  BY DEF CurrentInv
<1>4. FlushInv'
  <2> DEFINE r == AgentError("Turn persistence failed.")
             s == AgentError(IF current.type = "fail_agent" THEN "agent failed"
                                                       ELSE "Task capture failed.")
  <2>1. /\ turn.at = "failed" => Recorded(r)
        /\ loop = "saving_failure" => Recorded(s)
    BY DEF FlushInv
  <2>2. UNCHANGED s
    OBVIOUS
  <2> HIDE DEF r, s
  <2>3. Recorded(r) => Recorded(r)'
    BY StaysRecorded
  <2>4. Recorded(s) => Recorded(s)'
    BY <2>2 DEF Recorded, Range, Grows
  <2>5. /\ turn'.at = "failed" => Recorded(r)'
        /\ loop' = "saving_failure" => Recorded(s)'
    BY <2>1, <2>3, <2>4 DEF r
  <2> QED
    BY <2>5 DEF FlushInv, Grows, r, s
<1> QED
  BY <1>2, <1>3, <1>4

\* What a task and the end of a Turn save.
LEMMA TaskGrows ==
  ASSUME IInv, FlushInv, TaskStep \/ SettleStep \/ EscalationStep
  PROVE  Grows
<1> USE DEF SavesForTurn, ChangesTurn, QueuesForTurn, SaveRejects, storeVars
<1>1. TypeInv /\ synced \in Nat
  BY DEF IInv, FlushInv
<1>2. ASSUME UNCHANGED <<log, synced>> PROVE Grows
  BY <1>1, <1>2, NothingGrows
<1>3. ASSUME NEW r, AppendItems(<<r>>) PROVE Grows
  BY <1>1, <1>3, RecordGrows
<1>4. ASSUME NEW r, Recorded(r), FlushResolves(Position(r)) PROVE Grows
  BY <1>1, <1>4, FlushGrows, PositionFacts
<1>5. ASSUME TaskStep PROVE Grows
  BY <1>2, <1>3, <1>4, <1>5 DEF TaskStep, BeginExecution, StartSaved, StartRejected,
     StartInspected, StartRetried, RecordInitialInput, TakeSteering,
     RecordSteering, RecordToolResult, TakeSteeringOrComplete, TaskReturns,
     PromptDeclined, TaskThrows, AppendResolves
<1>6. ASSUME EscalationStep PROVE Grows
  BY <1>2, <1>6 DEF EscalationStep, EscalationFires, EscalationEnds
<1>7. ASSUME AppendItems(TerminalRecords) PROVE Grows
  <2> DEFINE c == TurnCompleted(turn.id, turn.outcome)
             i == ResponseItem(Interruption, turn.id)
  <2>1. <<c>> \in Seq({c, i}) /\ <<i>> \in Seq({c, i}) /\ <<>> \in Seq({c, i})
    OBVIOUS
  <2>2. TerminalRecords \in Seq({c, i})
    BY <2>1, ConcatProperties DEF TerminalRecords
  <2> HIDE DEF c, i
  <2> QED
    BY <1>1, <1>7, <2>2, AppendGrows DEF AppendItems
<1>8. ASSUME TerminalFlushed PROVE Grows
  <2> DEFINE r == TurnCompleted(turn.id, turn.outcome)
  <2>1. \/ UNCHANGED storeVars
        \/ FlushResolves(IF Recorded(r) THEN Position(r) ELSE 0)
    BY <1>8 DEF TerminalFlushed
  <2> HIDE DEF r
  <2>2. FlushResolves(0) => Grows
    BY <1>1, FlushGrows
  <2> QED
    BY <1>2, <1>4, <2>1, <2>2
<1>9. ASSUME StartFailureSaved PROVE Grows
  BY <1>2, <1>4, <1>9 DEF StartFailureSaved, At, FlushInv
<1>10. ASSUME TaskSettled \/ StartFailed \/ TerminalSaved PROVE Grows
  BY <1>2, <1>3, <1>10 DEF TaskSettled, StartFailed, TerminalSaved, AppendResolves
<1>11. ASSUME AppendTerminal PROVE Grows
  BY <1>2, <1>7, <1>11 DEF AppendTerminal
<1> QED
  BY <1>5, <1>6, <1>8, <1>9, <1>10, <1>11 DEF SettleStep

LEMMA TaskAcks ==
  ASSUME IInv, Acknowledged, TaskStep \/ SettleStep \/ EscalationStep
  PROVE  Acknowledged'
<1> USE DEF Acknowledged, TaskFrame, SavesForTurn, ChangesTurn, QueuesForTurn,
            loopVars, inputVars
<1>1. Grows
  BY TaskGrows
<1>2. CASE TaskStep
  <2>1. /\ UNCHANGED <<loop, current, received>>
        /\ turn'.at \in TaskPlaces
        /\ UNCHANGED mutations \/ QueuesOne
    BY <1>2, TaskMoves DEF IInv
  <2>2. UNCHANGED reply
    BY <1>2 DEF TaskStep, BeginExecution, StartSaved, StartRejected,
       StartInspected, StartRetried, RecordInitialInput, TakeSteering,
       RecordSteering, RecordToolResult, TakeSteeringOrComplete, TaskReturns,
       PromptDeclined, TaskThrows
  <2>3. turn'.at # "failed"
    BY <2>1 DEF TaskPlaces
  <2>4. \A i \in DOMAIN mutations' : mutations'[i].kind = "message" =>
          \E j \in DOMAIN mutations :
            mutations[j].kind = "message" /\ mutations[j].id = mutations'[i].id
    <3>1. CASE QueuesOne
      <4>1. PICK m \in MutationType : mutations' = mutations \o <<m>> /\ m.kind # "message"
        BY <3>1 DEF QueuesOne
      <4>2. /\ Len(mutations) \in Nat /\ DOMAIN mutations = 1 .. Len(mutations)
            /\ DOMAIN mutations' = 1 .. Len(mutations) + 1
            /\ \A i \in 1 .. Len(mutations) : mutations'[i] = mutations[i]
            /\ mutations'[Len(mutations) + 1] = m
        BY <4>1, QueueLonger DEF IInv
      <4> QED
        BY <4>1, <4>2
    <3> QED
      BY <2>1, <3>1
  <2> QED
    BY <1>1, <2>1, <2>2, <2>3, <2>4, OthersAck
<1>3. CASE EscalationStep
  <2>1. ~ Idle /\ turn \in TurnType
    BY <1>3 DEF EscalationStep, EscalationFires, EscalationEnds, IInv, TypeInv, Idle
  <2>2. turn'.at = turn.at /\ UNCHANGED <<loop, current, received, reply, mutations>>
    BY <1>3, <2>1 DEF EscalationStep, EscalationFires, EscalationEnds, TurnType
  <2> QED
    BY <1>1, <2>2, OthersAck
<1>4. CASE SettleStep
  <2> USE DEF At, Goto
  <2>1. UNCHANGED <<loop, current, received, reply, mutations>>
    BY <1>4 DEF SettleStep, TaskSettled, StartFailed, StartFailureSaved,
       AppendTerminal, TerminalSaved, TerminalFlushed
  <2>2. turn \in TurnType
    BY <1>4, IdleTurn DEF SettleStep, TaskSettled, StartFailed, StartFailureSaved,
       AppendTerminal, TerminalSaved, TerminalFlushed, TaskPlaces, FinishPlaces, IInv
  <2>3. CASE TaskSettled
    <3>1. turn'.at \in {"stuck", "failing", "draining"}
      <4> DEFINE where == CASE turn.cleanupFailed -> "stuck"
                            [] turn.pendingStart -> "failing"
                            [] OTHER -> "draining"
      <4>1. where \in {"stuck", "failing", "draining"}
        BY <2>2 DEF TurnType
      <4>2. turn'.at = where
        <5>1. turn' = [turn EXCEPT !.accepting = FALSE, !.finishing = TRUE,
                !.pendingStart = turn.pendingStart /\ turn.cleanupFailed,
                !.ahead = Len(mutations),
                !.escalation = IF turn.escalation = "armed" THEN "ended"
                                                            ELSE turn.escalation,
                !.at = where]
          BY <2>2, <2>3 DEF TaskSettled, TurnType
        <5> HIDE DEF where
        <5> QED
          BY <2>2, <5>1 DEF TurnType
      <4> QED
        BY <4>1, <4>2
    <3> QED
      BY <1>1, <2>1, <3>1, OthersAck
  <2>4. CASE StartFailed
    <3>1. turn'.at = "failed" => Recorded(AgentError("Turn persistence failed."))'
      <4>1. CASE AppendItems(<<AgentError("Turn persistence failed.")>>)
        BY <1>1, <4>1 DEF AppendItems, Grows
      <4>2. CASE turn' = NoTurn
        BY <4>2 DEF NoTurn
      <4> QED
        BY <2>4, <4>1, <4>2 DEF StartFailed, ReleaseTurn
    <3> QED
      BY <1>1, <2>1, <3>1, OthersAck
  <2>5. CASE StartFailureSaved \/ TerminalFlushed
    <3>0. turn' = NoTurn /\ NoTurn.at = "none"
      BY <2>5 DEF StartFailureSaved, TerminalFlushed, ReleaseTurn, NoTurn
    <3>1. turn'.at # "failed"
      BY <3>0
    <3> QED
      BY <1>1, <2>1, <3>1, OthersAck
  <2>6. CASE AppendTerminal \/ TerminalSaved
    <3>1. turn'.at # "failed"
      BY <2>2, <2>6 DEF AppendTerminal, TerminalSaved, TurnType
    <3> QED
      BY <1>1, <2>1, <3>1, OthersAck
  <2> QED
    BY <1>4, <2>3, <2>4, <2>5, <2>6 DEF SettleStep
<1> QED
  BY <1>2, <1>3, <1>4

\* The loop answers the sender of the message that it has recorded.
LEMMA MessageAcks ==
  ASSUME IInv, Acknowledged, NEW m, mutations # <<>>, m = mutations[1],
         MessageKnown(m) \/ MessageSaved(m) \/ MessageFails(m)
  PROVE  Acknowledged'
<1> USE DEF Acknowledged, MessageAnswered, NextCommand, SaveRejects, storeVars
<1>1. /\ DOMAIN reply = Commands /\ TypeInv /\ synced \in Nat
      /\ m.kind = "message" /\ loop = "recording_message"
      /\ current \in Commands /\ current.type = "agent_message" /\ m.id = current.id
  <2>1. m.kind = "message" /\ TypeInv
    BY DEF MessageKnown, MessageSaved, MessageFails, IInv
  <2>2. 1 \in DOMAIN mutations
    BY <2>1, HeadFacts
  <2>3. loop = "recording_message"
    BY <2>1, <2>2 DEF IInv, QueueInv
  <2> QED
    BY <2>1, <2>2, <2>3 DEF CurrentInv, FlushInv
<1>2. loop' = "receive" /\ MutationEnds
  BY DEF MessageKnown, MessageSaved, MessageFails
<1>3. turn'.at = turn.at
  BY <1>1, <1>2, EndFacts
<1>4. Grows
  <2>1. CASE UNCHANGED storeVars
    BY <1>1, <2>1, NothingGrows
  <2>2. CASE MessageSaved(m)
    BY <1>1, <2>2, FlushGrows, PositionFacts DEF MessageSaved
  <2> QED
    BY <2>1, <2>2 DEF MessageKnown, MessageFails
<1>5. FlushInv' /\ CurrentInv'
  <2> DEFINE r == AgentError("Turn persistence failed.")
  <2>1. turn.at = "failed" => Recorded(r)
    BY DEF FlushInv
  <2> HIDE DEF r
  <2>2. Recorded(r) => Recorded(r)'
    BY <1>4, StaysRecorded
  <2>3. FlushInv'
    BY <1>2, <1>3, <1>4, <2>1, <2>2 DEF FlushInv, Grows, r
  <2>4. DOMAIN reply' = Commands
    BY <1>1, Answered DEF MessageKnown, MessageSaved, MessageFails
  <2> QED
    BY <1>2, <2>3, <2>4 DEF CurrentInv
<1>6. CASE MessageFails(m)
  <2>1. Unacknowledged
    BY <1>1, <1>6, AnswerSilent DEF MessageFails
  <2> QED
    BY <1>1, <1>4, <1>5, <1>6, <2>1, AckKept DEF MessageFails
<1>7. CASE MessageKnown(m) \/ MessageSaved(m)
  <2>1. Saved(m.id)'
    <3>1. CASE MessageKnown(m)
      <4>1. Saved(m.id)
        BY <3>1 DEF MessageKnown, AckInv
      <4> QED
        BY <1>1, <1>4, <4>1, StaysSaved
    <3>2. CASE MessageSaved(m)
      <4> DEFINE i == Position(AgentMessage(m.id))
      <4>1. i \in Nat /\ i \in DOMAIN log /\ log[i] = AgentMessage(m.id)
        BY <1>1, <3>2, PositionFacts DEF MessageSaved
      <4>3. FlushResolves(i)
        BY <3>2 DEF MessageSaved
      <4> HIDE DEF i
      <4>4. i <= synced' /\ log' = log
        BY <1>1, <4>1, <4>3, FlushGrows DEF FlushResolves
      <4> QED
        BY <4>1, <4>4 DEF Saved
    <3> QED
      BY <1>7, <3>1, <3>2
  <2>2. /\ \A d \in Commands : reply'[d] = IF d = current THEN "done" ELSE reply[d]
        /\ received' = received \cup {m.id} \/ received' = received
    BY <1>1, <1>7, Answered DEF MessageKnown, MessageSaved
  <2>3. AckInv'
    BY <1>1, <1>4, <2>1, <2>2, StaysSaved DEF AckInv
  <2> QED
    BY <1>5, <2>3
<1> QED
  BY <1>6, <1>7

\* A step of the mutation queue.
LEMMA MutationAcks ==
  ASSUME IInv, Acknowledged, MutationStep
  PROVE  Acknowledged'
<1> USE DEF Running, SaveRejects, loopVars, inputVars, storeVars
<1> DEFINE m == mutations[1]
<1>1. /\ mutations # <<>>
      /\ \/ RecordStarts(m) \/ RecordRefused(m) \/ RecordEnds(m) \/ InputSaved(m)
         \/ MessageStarts(m) \/ MessageKnown(m) \/ MessageSaved(m)
         \/ MessageResaved(m) \/ MessageFails(m)
  BY DEF MutationStep, RecordStarts, RecordRefused, RecordEnds, InputSaved,
     MessageStarts, MessageKnown, MessageSaved, MessageResaved, MessageFails
<1>2. TypeInv /\ synced \in Nat
  BY DEF IInv, Acknowledged, FlushInv
<1>3. /\ Len(mutations) \in Nat /\ DOMAIN mutations = 1 .. Len(mutations)
  BY <1>1, <1>2, HeadFacts
<1> HIDE DEF m
<1>4. CASE MessageKnown(m) \/ MessageSaved(m) \/ MessageFails(m)
  BY <1>1, <1>4, MessageAcks DEF m
<1>5. CASE RecordStarts(m) \/ RecordRefused(m) \/ RecordEnds(m) \/ InputSaved(m)
           \/ MessageStarts(m) \/ MessageResaved(m)
  <2>1. UNCHANGED <<loop, current, reply, received>>
    BY <1>5 DEF RecordStarts, RecordRefused, RecordEnds, InputSaved, MessageStarts,
       MessageResaved
  <2>2. \/ UNCHANGED <<log, synced>>
        \/ \E r : AppendItems(<<r>>)
    BY <1>5 DEF RecordStarts, RecordRefused, RecordEnds, InputSaved, MessageStarts,
       MessageResaved, AppendResolves
  <2>3. Grows
    BY <1>2, <2>2, NothingGrows, RecordGrows
  <2>4. \/ UNCHANGED mutations /\ UNCHANGED turn
        \/ /\ \E stage \in Stages : Stage(stage)
           /\ turn' = turn \/ turn' = [turn EXCEPT !.inputRecorded = TRUE]
        \/ MutationEnds
    BY <1>5 DEF RecordStarts, RecordRefused, RecordEnds, InputSaved, MessageStarts,
       MessageResaved, Stages
  <2>5. turn'.at = "failed" => turn.at = "failed"
    <3>1. CASE turn' = [turn EXCEPT !.inputRecorded = TRUE]
      BY <1>2, <3>1 DEF TypeInv, TurnType, NoTurn
    <3>2. CASE MutationEnds
      BY <1>1, <1>2, <3>2, EndFacts
    <3> QED
      BY <2>4, <3>1, <3>2
  <2>6. \A i \in DOMAIN mutations' : mutations'[i].kind = "message" =>
          \E j \in DOMAIN mutations :
            mutations[j].kind = "message" /\ mutations[j].id = mutations'[i].id
    <3>1. CASE \E stage \in Stages : Stage(stage)
      BY <1>1, <1>2, <3>1, StageFacts
    <3>2. CASE MutationEnds
      <4>1. /\ DOMAIN mutations' = 1 .. Len(mutations) - 1
            /\ \A i \in 1 .. Len(mutations) - 1 : mutations'[i] = mutations[i + 1]
        BY <1>1, <1>2, <3>2, EndFacts
      <4> QED
        BY <1>3, <4>1
    <3> QED
      BY <2>4, <3>1, <3>2
  <2> QED
    BY <2>1, <2>3, <2>5, <2>6, OthersAck
<1> QED
  BY <1>1, <1>4, <1>5

\* A sender who is told that its message was received finds it behind the
\* persistence barrier (#recordAgentMessage flushes before it answers), for any
\* commands and failing saves, as long as no process has crashed: a Session
\* built from a stored rollout takes what it reads for received although no
\* flush has covered it.
THEOREM AcknowledgedMessageSavedHolds ==
  Spec /\ [](crashes = 0) => []AcknowledgedMessageSaved
<1>1. Init => Acknowledged
  BY DEF Init, Acknowledged, FlushInv, CurrentInv, AckInv, NoTurn
<1>2. IInv /\ Acknowledged /\ crashes = 0 /\ (crashes = 0)' /\ [Next]_vars
        => Acknowledged'
  <2> SUFFICES ASSUME IInv, Acknowledged, crashes = 0, crashes' = 0, [Next]_vars
               PROVE  Acknowledged'
    OBVIOUS
  <2>1. ~ Crash
    BY DEF Crash
  <2>2. ASSUME UNCHANGED <<loop, current, turn, mutations, log, synced, received>>,
               Unacknowledged
        PROVE  Acknowledged'
    <3>1. Grows
      BY <2>2, NothingGrows DEF IInv, Acknowledged, FlushInv
    <3>2. AckInv'
      BY <2>2, <3>1, AckKept DEF IInv, Acknowledged
    <3> QED
      BY <2>2, <3>2 DEF Acknowledged, FlushInv, CurrentInv, Unacknowledged, Recorded
  <2>3. DOMAIN reply = Commands
    BY DEF Acknowledged, CurrentInv
  <2>4. CASE CallerStep
    <3>1. PICK c \in Commands : SendCommand(c) \/ Shutdown(c) \/ ShutdownIfIdle(c)
      BY <2>4 DEF CallerStep
    <3>2. PICK answer \in {"sent", "rejected", "false"} : Answer(c, answer)
      BY <3>1 DEF SendCommand, Shutdown, ShutdownIfIdle
    <3>3. Unacknowledged
      BY <2>3, <3>2, AnswerSilent
    <3> QED
      BY <2>2, <3>1, <3>3 DEF SendCommand, Shutdown, ShutdownIfIdle, bodyVars,
         inputVars, storeVars
  <2>5. CASE IdleShutdownSettles
    <3>1. Unacknowledged
      BY <2>3, <2>5 DEF IdleShutdownSettles, Unacknowledged
    <3> QED
      BY <2>2, <2>5, <3>1 DEF IdleShutdownSettles, bodyVars, inputVars, storeVars
  <2>6. CASE UNCHANGED vars
    BY <2>2, <2>3, <2>6 DEF vars, loopVars, inputVars, storeVars, Unacknowledged
  <2> QED
    BY <2>1, <2>4, <2>5, <2>6, LoopAcknowledges, MutationAcks, TaskAcks DEF Next
<1>3. IInv /\ Acknowledged => AcknowledgedMessageSaved
  <2> SUFFICES ASSUME IInv, Acknowledged, NEW c \in Commands,
                      c.type = "agent_message", reply[c] = "done"
               PROVE  \E i \in 1 .. synced : log[i] = AgentMessage(c.id)
    BY DEF AcknowledgedMessageSaved
  <2>1. Saved(c.id)
    BY DEF Acknowledged, AckInv
  <2>2. PICK i \in DOMAIN log : i <= synced /\ log[i] = AgentMessage(c.id)
    BY <2>1 DEF Saved
  <2>3. Len(log) \in Nat /\ DOMAIN log = 1 .. Len(log)
    BY LenProperties DEF IInv, TypeInv
  <2>4. synced \in Nat
    BY DEF Acknowledged, FlushInv
  <2>5. i \in 1 .. synced
    BY <2>2, <2>3, <2>4
  <2> QED
    BY <2>2, <2>5
<1> QED
  BY <1>1, <1>2, <1>3, Invariance, PTL DEF Spec

-----------------------------------------------------------------------------
(* What a Turn that completes has consumed: admission ended with the last  *)
(* look for steering, and nothing is taken or queued afterwards.           *)

Consumed == turn.steering = <<>> /\ turn.taken = <<>> /\ ~ turn.accepting
NoInputQueued == \A i \in DOMAIN mutations : mutations[i].kind # "input"

\* A Turn whose prompt was declined completes without its input, and its input
\* is not queued any more either.
ConsumedInv ==
  ~ Idle =>
    /\ turn.outcome # "none" => turn.at = "stopped" \/ turn.at \in FinishPlaces
    /\ turn.at = "completing" => turn.inputRecorded /\ Consumed
    /\ turn.outcome = "completed" /\ turn.type # "compact" =>
         IF turn.inputRecorded THEN Consumed ELSE NoInputQueued

\* What the loop does to the active Turn and to the queue.
Steered(t, c) ==
  [t EXCEPT !.steering = Append(@, [id |-> c.id, source |-> c.source]),
            !.seen = @ \cup {c.id}]
LEMMA LoopTurns ==
  ASSUME TypeInv, LoopStep
  PROVE  /\ \/ UNCHANGED <<turn, submitted>>
            \/ ~ Idle /\ turn' = Cancelled(turn) /\ UNCHANGED submitted
            \/ \E c \in Commands :
                 /\ Idle /\ turn' = NewTurn(c)
                 /\ c.id \notin submitted /\ submitted' = submitted \cup {c.id}
            \/ \E c \in Commands :
                 /\ ~ Idle /\ turn.accepting /\ turn' = Steered(turn, c)
                 /\ c.id \notin submitted /\ c.id \notin turn.seen
                 /\ UNCHANGED submitted
         /\ \/ UNCHANGED log
            \/ \E message \in Names : log' = log \o <<AgentError(message)>>
         /\ \/ UNCHANGED mutations
            \/ \E c \in Commands : mutations' = Append(mutations,
                 [kind |-> "message", id |-> c.id, turn |-> "none",
                  stage |-> "queued"])
<1> USE DEF bodyVars, inputVars, storeVars, AppendItems, SaveRejects, FlushResolves
<1> DEFINE TurnStep == \/ UNCHANGED <<turn, submitted>>
                       \/ ~ Idle /\ turn' = Cancelled(turn) /\ UNCHANGED submitted
                       \/ \E c \in Commands :
                            /\ Idle /\ turn' = NewTurn(c)
                            /\ c.id \notin submitted
                            /\ submitted' = submitted \cup {c.id}
                       \/ \E c \in Commands :
                            /\ ~ Idle /\ turn.accepting /\ turn' = Steered(turn, c)
                            /\ c.id \notin submitted /\ c.id \notin turn.seen
                            /\ UNCHANGED submitted
           LogStep == \/ UNCHANGED log
                      \/ \E message \in Names : log' = log \o <<AgentError(message)>>
<1>1. ASSUME InterruptActiveTurn, UNCHANGED submitted PROVE TurnStep
  BY <1>1 DEF InterruptActiveTurn
<1>0. "agent failed" \in Names /\ "Task capture failed." \in Names
  BY DEF Names
<1>2. ASSUME NEW c \in Commands, RouteTurnInput(c) PROVE TurnStep /\ LogStep
  <2>1. CASE StartTurn(c) /\ Idle /\ c.id \notin submitted
    BY <2>1 DEF StartTurn
  <2>2. CASE /\ AcceptSteering(c) /\ ~ Idle /\ MaySteer(c) /\ c.id \notin submitted
             /\ c.id \notin turn.seen
    BY <2>2 DEF AcceptSteering, MaySteer, Steered
  <2>3. CASE CaptureFails(c)
    BY <1>0, <2>3 DEF CaptureFails, RecordAgentFailure
  <2>4. CASE \E answer : AnswerInput(c, answer)
    BY <2>4 DEF AnswerInput
  <2> QED
    BY <1>2, <2>1, <2>2, <2>3, <2>4 DEF RouteTurnInput
<1> HIDE DEF TurnStep, LogStep
<1>3. ASSUME NEW c \in Commands,
             \/ DispatchInput(c) \/ DispatchResume(c) \/ DispatchInterrupt(c)
             \/ DispatchFailAgent(c) \/ DispatchForkBarrier(c)
             \/ DispatchShutdownIfIdle(c) \/ DispatchShutdown(c)
      PROVE  TurnStep /\ LogStep /\ UNCHANGED mutations
  <2>1. UNCHANGED mutations
    BY <1>3 DEF DispatchInput, DispatchResume, DispatchInterrupt, DispatchFailAgent,
       DispatchForkBarrier, DispatchShutdownIfIdle, DispatchShutdown
  <2>2. CASE RouteTurnInput(c)
    BY <1>2, <2>1, <2>2
  <2>3. CASE UNCHANGED <<log, submitted>> /\ InterruptActiveTurn
    BY <1>1, <2>1, <2>3 DEF LogStep
  <2>4. CASE UNCHANGED <<log, submitted, turn>>
    BY <2>1, <2>4 DEF LogStep, TurnStep
  <2>5. CASE RecordAgentFailure(c, "agent failed", "done")
    <3>1. UNCHANGED <<turn, submitted>>
      BY <2>5 DEF RecordAgentFailure
    <3>2. LogStep
      BY <1>0, <2>5 DEF RecordAgentFailure, LogStep
    <3> QED
      BY <2>1, <3>1, <3>2 DEF TurnStep
  <2> QED
    BY <1>3, <2>2, <2>3, <2>4, <2>5 DEF DispatchInput, DispatchResume,
       DispatchInterrupt, DispatchFailAgent, DispatchForkBarrier,
       DispatchShutdownIfIdle, DispatchShutdown, AnswerInput
<1>4. ASSUME NEW c \in Commands, DispatchAgentMessage(c)
      PROVE  UNCHANGED <<turn, submitted, log>> /\
             \/ UNCHANGED mutations
             \/ mutations' = Append(mutations,
                  [kind |-> "message", id |-> c.id, turn |-> "none",
                   stage |-> "queued"])
  BY <1>4 DEF DispatchAgentMessage
<1>5. CASE StoredRead
  <2>1. UNCHANGED mutations /\ current \in Commands
    BY <1>5 DEF StoredRead, TypeInv
  <2>2. UNCHANGED <<turn, submitted, log>> \/ RouteTurnInput(current)
    BY <1>5 DEF StoredRead, AnswerInput
  <2> QED
    BY <1>2, <2>1, <2>2 DEF TurnStep, LogStep
<1>6. CASE FailureSaved \/ ForkTurnSettled \/ ForkFlushed \/ ForkDone \/ LoopSettled
           \/ LoopEnds
  BY <1>6 DEF FailureSaved, ForkTurnSettled, ForkFlushed, ForkDone, LoopSettled,
     LoopEnds
<1> QED
  BY <1>3, <1>4, <1>5, <1>6 DEF LoopStep, TurnStep, LogStep

\* A step that changes nothing of what a Turn has consumed.
LEMMA ConsumedKept ==
  ASSUME ConsumedInv,
         ~ Idle' =>
           /\ ~ Idle
           /\ turn'.outcome = turn.outcome /\ turn'.type = turn.type
           /\ turn'.steering = turn.steering /\ turn'.taken = turn.taken
           /\ turn'.accepting => turn.accepting
           /\ turn'.inputRecorded = turn.inputRecorded
           /\ turn'.at = turn.at \/ turn'.at \in FinishPlaces,
         \A i \in DOMAIN mutations' : mutations'[i].kind = "input" =>
           \E j \in DOMAIN mutations : mutations[j].kind = "input"
  PROVE  ConsumedInv'
<1>1. NoInputQueued => NoInputQueued'
  BY DEF NoInputQueued
<1>2. "completing" \notin FinishPlaces
  BY DEF FinishPlaces
<1> QED
  BY <1>1, <1>2 DEF ConsumedInv, Consumed

LEMMA LoopConsumes ==
  ASSUME IInv, ConsumedInv, LoopStep
  PROVE  ConsumedInv'
<1>1. \A i \in DOMAIN mutations' : mutations'[i].kind = "input" =>
        \E j \in DOMAIN mutations : mutations[j].kind = "input"
  <2>1. CASE UNCHANGED mutations
    BY <2>1
  <2>2. ASSUME NEW c \in Commands,
               mutations' = Append(mutations,
                 [kind |-> "message", id |-> c.id, turn |-> "none",
                  stage |-> "queued"])
        PROVE  \A i \in DOMAIN mutations' : mutations'[i].kind = "input" =>
                 \E j \in DOMAIN mutations : mutations[j].kind = "input"
    <3> DEFINE m == [kind |-> "message", id |-> c.id, turn |-> "none",
                     stage |-> "queued"]
    <3>1. m \in MutationType /\ m.kind = "message"
      BY CommandsAssumption DEF CommandType, MutationType, Names, Outcomes
    <3>2. mutations' = Append(mutations, m)
      BY <2>2
    <3> HIDE DEF m
    <3>3. mutations' = mutations \o <<m>>
      BY <3>1, <3>2, AppendIsConcat DEF IInv, TypeInv
    <3>4. /\ Len(mutations) \in Nat /\ DOMAIN mutations = 1 .. Len(mutations)
          /\ DOMAIN mutations' = 1 .. Len(mutations) + 1
          /\ \A i \in 1 .. Len(mutations) : mutations'[i] = mutations[i]
          /\ mutations'[Len(mutations) + 1] = m
      BY <3>1, <3>3, QueueLonger DEF IInv
    <3> QED
      BY <3>1, <3>4
  <2> QED
    BY <2>1, <2>2, LoopTurns DEF IInv
<1>2. CASE UNCHANGED turn
  BY <1>1, <1>2, ConsumedKept DEF Idle
<1>3. CASE ~ Idle /\ turn' = Cancelled(turn)
  <2>1. turn \in TurnType
    BY <1>3 DEF IInv, TypeInv, Idle
  <2>2. /\ turn'.outcome = turn.outcome /\ turn'.type = turn.type
        /\ turn'.steering = turn.steering /\ turn'.taken = turn.taken
        /\ turn'.accepting = FALSE
        /\ turn'.inputRecorded = turn.inputRecorded /\ turn'.at = turn.at
    BY <1>3, <2>1 DEF Cancelled, TurnType
  <2> QED
    BY <1>1, <1>3, <2>2, ConsumedKept
<1>4. ASSUME NEW c, Idle, turn' = NewTurn(c) PROVE ConsumedInv'
  <2>1. turn'.outcome = "none" /\ turn'.at = "preparing"
    BY <1>4 DEF NewTurn
  <2> QED
    BY <2>1 DEF ConsumedInv
<1>5. ASSUME NEW c, ~ Idle, turn.accepting, turn' = Steered(turn, c)
      PROVE  ConsumedInv'
  <2>1. turn \in TurnType
    BY <1>5 DEF IInv, TypeInv, Idle
  <2>2. /\ turn'.outcome = turn.outcome /\ turn'.type = turn.type
        /\ turn'.inputRecorded = turn.inputRecorded /\ turn'.at = turn.at
    BY <1>5, <2>1 DEF Steered, TurnType
  <2>3. NoInputQueued => NoInputQueued'
    BY <1>1 DEF NoInputQueued
  <2> QED
    BY <1>5, <2>2, <2>3 DEF ConsumedInv, Consumed
<1> QED
  BY <1>2, <1>3, <1>4, <1>5, LoopTurns DEF IInv

\* A closure that ends takes nothing of the Turn with it.
LEMMA EndConsumes ==
  ASSUME IInv, ConsumedInv, mutations # <<>>, MutationEnds
  PROVE  ConsumedInv'
<1>1. /\ Len(mutations) \in Nat /\ DOMAIN mutations = 1 .. Len(mutations)
      /\ DOMAIN mutations' = 1 .. Len(mutations) - 1
      /\ \A i \in 1 .. Len(mutations) - 1 : mutations'[i] = mutations[i + 1]
  BY HeadFacts, EndFacts DEF IInv
<1>2. ASSUME NEW i \in DOMAIN mutations', mutations'[i].kind = "input"
      PROVE  \E j \in DOMAIN mutations : mutations[j].kind = "input"
  <2>1. i + 1 \in DOMAIN mutations /\ mutations'[i] = mutations[i + 1]
    BY <1>1
  <2> QED
    BY <1>2, <2>1
<1>3. CASE UNCHANGED turn
  BY <1>2, <1>3, ConsumedKept DEF Idle
<1>4. CASE ~ Idle /\ turn' = [turn EXCEPT !.ahead = @ - 1]
  <2>1. turn \in TurnType
    BY <1>4 DEF IInv, TypeInv, Idle
  <2>2. /\ turn'.outcome = turn.outcome /\ turn'.type = turn.type
        /\ turn'.steering = turn.steering /\ turn'.taken = turn.taken
        /\ turn'.accepting = turn.accepting
        /\ turn'.inputRecorded = turn.inputRecorded /\ turn'.at = turn.at
    BY <1>4, <2>1 DEF TurnType
  <2> QED
    BY <1>2, <1>4, <2>2, ConsumedKept
<1> QED
  BY <1>3, <1>4 DEF MutationEnds

\* A closure that goes on; that of the initial input records it.
LEMMA StageConsumes ==
  ASSUME IInv, ConsumedInv, mutations # <<>>, NEW stage \in Stages, Stage(stage),
         \/ UNCHANGED turn
         \/ /\ ~ Idle /\ mutations[1].kind = "input"
            /\ turn' = [turn EXCEPT !.inputRecorded = TRUE]
  PROVE  ConsumedInv'
<1>1. /\ 1 \in DOMAIN mutations /\ DOMAIN mutations' = DOMAIN mutations
      /\ \A i \in DOMAIN mutations : mutations'[i].kind = mutations[i].kind
  BY HeadFacts, StageFacts DEF IInv
<1>2. CASE UNCHANGED turn
  BY <1>1, <1>2, ConsumedKept DEF Idle
<1>3. CASE /\ ~ Idle /\ mutations[1].kind = "input"
           /\ turn' = [turn EXCEPT !.inputRecorded = TRUE]
  <2>1. turn \in TurnType
    BY <1>3 DEF IInv, TypeInv, Idle
  <2>2. /\ turn'.outcome = turn.outcome /\ turn'.type = turn.type
        /\ turn'.steering = turn.steering /\ turn'.taken = turn.taken
        /\ turn'.accepting = turn.accepting
        /\ turn'.inputRecorded = TRUE /\ turn'.at = turn.at
    BY <1>3, <2>1 DEF TurnType
  <2>3. ~ NoInputQueued
    BY <1>1, <1>3 DEF NoInputQueued
  <2> QED
    BY <1>3, <2>2, <2>3 DEF ConsumedInv, Consumed
<1> QED
  BY <1>2, <1>3

LEMMA MutationConsumes ==
  ASSUME IInv, ConsumedInv, MutationStep
  PROVE  ConsumedInv'
<1> USE DEF Running, MessageAnswered
<1> DEFINE m == mutations[1]
<1>1. /\ mutations # <<>>
      /\ \/ RecordStarts(m) \/ RecordRefused(m) \/ RecordEnds(m) \/ InputSaved(m)
         \/ MessageStarts(m) \/ MessageKnown(m) \/ MessageSaved(m)
         \/ MessageResaved(m) \/ MessageFails(m)
  BY DEF MutationStep, RecordStarts, RecordRefused, RecordEnds, InputSaved,
     MessageStarts, MessageKnown, MessageSaved, MessageResaved, MessageFails
<1>2. m.kind # "message" => ~ Idle
  BY <1>1, HeadFacts DEF IInv, QueueInv
<1>3. CASE RecordStarts(m)
  <2>1. PICK stage \in Stages : Stage(stage)
    BY <1>3 DEF RecordStarts, Stages
  <2>2. /\ ~ Idle
        /\ \/ UNCHANGED turn
           \/ m.kind = "input" /\ turn' = [turn EXCEPT !.inputRecorded = TRUE]
    BY <1>2, <1>3 DEF RecordStarts
  <2> QED
    BY <1>1, <2>1, <2>2, StageConsumes
<1>4. CASE InputSaved(m)
  BY <1>1, <1>4, EndConsumes, StageConsumes DEF InputSaved, Stages
<1>5. CASE MessageStarts(m)
  BY <1>1, <1>5, StageConsumes DEF MessageStarts, Stages
<1>6. CASE MessageResaved(m)
  BY <1>6, ConsumedKept DEF MessageResaved, Idle
<1>7. CASE RecordRefused(m) \/ RecordEnds(m) \/ MessageKnown(m) \/ MessageSaved(m)
           \/ MessageFails(m)
  BY <1>1, <1>7, EndConsumes DEF RecordRefused, RecordEnds, MessageKnown,
     MessageSaved, MessageFails
<1> QED
  BY <1>1, <1>3, <1>4, <1>5, <1>6, <1>7

\* The end of the task: an aborted Turn was interrupted whatever it did.
LEMMA StoppedConsumes ==
  ASSUME NEW t \in TurnType, NEW outcome \in {"completed", "failed"}
  PROVE  LET u == Stopped(t, outcome) IN
           /\ u \in TurnType /\ u.at = "stopped" /\ u.type = t.type
           /\ u.steering = t.steering /\ u.taken = t.taken
           /\ u.accepting = t.accepting /\ u.inputRecorded = t.inputRecorded
           /\ u.outcome \in {outcome, "interrupted"}
<1> DEFINE o == IF t.aborted THEN "interrupted" ELSE outcome
<1>1. o \in Outcomes /\ o \in {outcome, "interrupted"}
  BY DEF Outcomes
<1>2. Stopped(t, outcome) = [t EXCEPT !.at = "stopped", !.outcome = o]
  BY DEF Stopped
<1> HIDE DEF o
<1> QED
  BY <1>1, <1>2 DEF TurnType, TaskPlaces

\* A Turn that has not completed.
LEMMA NotCompleted ==
  ASSUME ~ Idle' =>
           /\ turn'.outcome # "completed" /\ turn'.at # "completing"
           /\ turn'.outcome = "none" \/ turn'.at = "stopped"
  PROVE  ConsumedInv'
BY DEF ConsumedInv

LEMMA TaskConsumes ==
  ASSUME IInv, ConsumedInv, TaskStep
  PROVE  ConsumedInv'
<1> USE DEF At, Goto
<1>1. ~ Idle /\ turn \in TurnType /\ turn.at \in TaskPlaces
  BY TaskMoves DEF IInv
<1>2. turn.at \in TaskPlaces \ {"stopped"} => turn.outcome = "none"
  BY <1>1 DEF ConsumedInv, TaskPlaces, FinishPlaces
<1>3. LET u == Stopped(turn, "failed") IN
        u \in TurnType /\ u.at = "stopped" /\ u.outcome \in {"failed", "interrupted"}
  BY <1>1, StoppedConsumes
<1>4. CASE turn' = Stopped(turn, "failed")
  BY <1>3, <1>4, NotCompleted
<1>5. CASE \/ BeginExecution \/ StartSaved \/ StartRejected
           \/ StartInspected /\ turn' # Stopped(turn, "failed")
           \/ StartRetried /\ turn' # Stopped(turn, "failed")
  <2>1. turn.at \in TaskPlaces \ {"stopped"}
    BY <1>5 DEF BeginExecution, StartSaved, StartRejected, StartInspected,
       StartRetried, TaskPlaces
  <2>2. PICK where \in {"starting", "inspecting", "restarting", "running"},
             pending \in {turn.pendingStart, TRUE, FALSE} :
          turn' = [turn EXCEPT !.at = where, !.pendingStart = pending]
    <3>1. \A where : [turn EXCEPT !.at = where] =
                     [turn EXCEPT !.at = where, !.pendingStart = turn.pendingStart]
      BY <1>1 DEF TurnType
    <3> QED
      BY <1>5, <3>1 DEF BeginExecution, StartSaved, StartRejected, StartInspected,
         StartRetried
  <2>3. turn'.outcome = turn.outcome /\ turn'.at = where
    BY <1>1, <2>2 DEF TurnType
  <2> QED
    BY <1>2, <2>1, <2>3, NotCompleted
<1>6. CASE RecordInitialInput \/ TakeSteering \/ RecordSteering
  <2>1. turn.at = "running"
    BY <1>6 DEF RecordInitialInput, TakeSteering, RecordSteering
  <2>2. turn'.outcome = turn.outcome /\ turn'.at = turn.at
    BY <1>1, <1>6 DEF RecordInitialInput, TakeSteering, RecordSteering, TurnType
  <2> QED
    BY <1>2, <2>1, <2>2, NotCompleted DEF TaskPlaces
<1>7. CASE RecordToolResult
  <2>1. /\ turn'.outcome = turn.outcome /\ turn'.type = turn.type
        /\ turn'.steering = turn.steering /\ turn'.taken = turn.taken
        /\ turn'.accepting = turn.accepting
        /\ turn'.inputRecorded = turn.inputRecorded /\ turn'.at = turn.at
    BY <1>1, <1>7 DEF RecordToolResult, TurnType
  <2> DEFINE m == Mutation("tool", ToolResult)
  <2>2. m \in MutationType /\ m.kind = "tool"
    BY <1>1 DEF Mutation, MutationType, Names, TurnType, Ids
  <2>3. mutations' = mutations \o <<m>>
    BY <1>7 DEF RecordToolResult, Enqueue
  <2> HIDE DEF m
  <2>4. /\ Len(mutations) \in Nat /\ DOMAIN mutations = 1 .. Len(mutations)
        /\ DOMAIN mutations' = 1 .. Len(mutations) + 1
        /\ \A i \in 1 .. Len(mutations) : mutations'[i] = mutations[i]
        /\ mutations'[Len(mutations) + 1] = m
    BY <2>2, <2>3, QueueLonger DEF IInv
  <2>5. \A i \in DOMAIN mutations' : mutations'[i].kind = "input" =>
          \E j \in DOMAIN mutations : mutations[j].kind = "input"
    BY <2>2, <2>4
  <2> QED
    BY <1>1, <2>1, <2>5, ConsumedKept
<1>8. CASE TakeSteeringOrComplete
  <2>1. /\ turn.inputRecorded /\ turn.steering = <<>> /\ turn.taken = <<>>
        /\ turn.outcome = "none"
    BY <1>2, <1>8 DEF TakeSteeringOrComplete, NothingToRecord, TaskPlaces
  <2>2. /\ turn'.outcome = turn.outcome /\ turn'.at = "completing"
        /\ turn'.steering = turn.steering /\ turn'.taken = turn.taken
        /\ turn'.accepting = FALSE /\ turn'.inputRecorded = turn.inputRecorded
    BY <1>1, <1>8 DEF TakeSteeringOrComplete, TurnType
  <2> QED
    BY <2>1, <2>2 DEF ConsumedInv, Consumed
<1>9. CASE TaskReturns
  <2>1. turn' = Stopped(turn, "completed")
    BY <1>9 DEF TaskReturns
  <2>2. /\ turn'.at = "stopped" /\ turn'.type = turn.type
        /\ turn'.steering = turn.steering /\ turn'.taken = turn.taken
        /\ turn'.accepting = turn.accepting
        /\ turn'.inputRecorded = turn.inputRecorded
    BY <1>1, <2>1, StoppedConsumes
  <2>3. turn.type = "compact" \/ (turn.inputRecorded /\ Consumed)
    BY <1>1, <1>9 DEF TaskReturns, ConsumedInv
  <2> QED
    BY <2>2, <2>3 DEF ConsumedInv, Consumed
<1>10. CASE PromptDeclined
  <2>1. turn' = Stopped(turn, "completed") /\ UNCHANGED mutations
    BY <1>10 DEF PromptDeclined, ChangesTurn
  <2>2. /\ turn'.at = "stopped" /\ turn'.type = turn.type
        /\ turn'.inputRecorded = turn.inputRecorded
    BY <1>1, <2>1, StoppedConsumes
  <2>3. ~ turn.inputRecorded /\ ~ Queued("input")
    BY <1>10 DEF PromptDeclined
  <2>4. NoInputQueued
    BY <2>3 DEF Queued, NoInputQueued, Range, IInv, QueueInv
  <2> QED
    BY <2>1, <2>2, <2>3, <2>4 DEF ConsumedInv, NoInputQueued
<1>11. CASE TaskThrows
  <2> DEFINE u == Stopped(turn, "failed")
  <2>1. PICK failed : turn' = [u EXCEPT !.cleanupFailed = failed]
    BY <1>11 DEF TaskThrows
  <2>2. u \in TurnType /\ u.at = "stopped" /\ u.outcome \in {"failed", "interrupted"}
    BY <1>3
  <2> HIDE DEF u
  <2>3. turn'.at = "stopped" /\ turn'.outcome \in {"failed", "interrupted"}
    BY <2>1, <2>2 DEF TurnType
  <2> QED
    BY <2>3, NotCompleted
<1> QED
  BY <1>4, <1>5, <1>6, <1>7, <1>8, <1>9, <1>10, <1>11 DEF TaskStep

LEMMA EndingConsumes ==
  ASSUME IInv, ConsumedInv, SettleStep \/ EscalationStep
  PROVE  ConsumedInv'
<1> USE DEF At, Goto, TaskFrame, SavesForTurn, ChangesTurn, QueuesForTurn, ReleaseTurn
<1>1. ~ Idle /\ turn \in TurnType
  <2>1. CASE SettleStep
    BY <2>1, IdleTurn DEF IInv, SettleStep, TaskSettled, StartFailed,
       StartFailureSaved, AppendTerminal, TerminalSaved, TerminalFlushed,
       TaskPlaces, FinishPlaces
  <2>2. CASE EscalationStep
    BY <2>2 DEF EscalationStep, EscalationFires, EscalationEnds, IInv, TypeInv, Idle
  <2> QED
    BY <2>1, <2>2
<1>2. UNCHANGED mutations
  BY DEF SettleStep, TaskSettled, StartFailed, StartFailureSaved, AppendTerminal,
     TerminalSaved, TerminalFlushed, EscalationStep, EscalationFires, EscalationEnds
<1>3. ASSUME /\ turn'.outcome = turn.outcome /\ turn'.type = turn.type
             /\ turn'.steering = turn.steering /\ turn'.taken = turn.taken
             /\ turn'.accepting => turn.accepting
             /\ turn'.inputRecorded = turn.inputRecorded
             /\ turn'.at = turn.at \/ turn'.at \in FinishPlaces
      PROVE  ConsumedInv'
  BY <1>1, <1>2, <1>3, ConsumedKept
<1>4. CASE turn' = NoTurn
  BY <1>4 DEF ConsumedInv, Idle
<1>5. CASE TaskSettled
  <2> DEFINE where == CASE turn.cleanupFailed -> "stuck"
                        [] turn.pendingStart -> "failing"
                        [] OTHER -> "draining"
             pending == turn.pendingStart /\ turn.cleanupFailed
             escalation == IF turn.escalation = "armed" THEN "ended"
                                                        ELSE turn.escalation
  <2>0. where \in {"stuck", "failing", "draining"}
    BY <1>1 DEF TurnType
  <2>1. turn' = [turn EXCEPT !.accepting = FALSE, !.finishing = TRUE,
                   !.pendingStart = pending, !.ahead = Len(mutations),
                   !.escalation = escalation, !.at = where]
    BY <1>1, <1>5 DEF TaskSettled, TurnType
  <2> HIDE DEF where, pending, escalation
  <2>2. /\ turn'.outcome = turn.outcome /\ turn'.type = turn.type
        /\ turn'.steering = turn.steering /\ turn'.taken = turn.taken
        /\ turn'.accepting = FALSE
        /\ turn'.inputRecorded = turn.inputRecorded /\ turn'.at = where
    BY <1>1, <2>1 DEF TurnType
  <2> QED
    BY <1>3, <2>0, <2>2 DEF FinishPlaces
<1>6. ASSUME NEW where \in FinishPlaces, turn' = [turn EXCEPT !.at = where]
      PROVE  ConsumedInv'
  <2>1. /\ turn'.outcome = turn.outcome /\ turn'.type = turn.type
        /\ turn'.steering = turn.steering /\ turn'.taken = turn.taken
        /\ turn'.accepting = turn.accepting
        /\ turn'.inputRecorded = turn.inputRecorded /\ turn'.at = where
    BY <1>1, <1>6 DEF TurnType
  <2> QED
    BY <1>3, <2>1
<1>7. CASE EscalationStep
  <2>1. PICK escalation, failed :
          turn' = [turn EXCEPT !.escalation = escalation, !.cleanupFailed = failed]
    <3>1. CASE EscalationFires
      <4>1. turn' = [turn EXCEPT !.escalation = "aborting",
                                 !.cleanupFailed = turn.cleanupFailed]
        BY <1>1, <3>1 DEF EscalationFires, TurnType
      <4> QED
        BY <4>1
    <3>2. CASE EscalationEnds
      <4>1. PICK failed \in {FALSE, CleanupFails} :
              turn' = [turn EXCEPT !.escalation = "ended",
                                   !.cleanupFailed = @ \/ failed]
        BY <3>2 DEF EscalationEnds
      <4> DEFINE f == turn.cleanupFailed \/ failed
      <4>2. turn' = [turn EXCEPT !.escalation = "ended", !.cleanupFailed = f]
        BY <1>1, <4>1 DEF TurnType
      <4> QED
        BY <4>2
    <3> QED
      BY <1>7, <3>1, <3>2 DEF EscalationStep
  <2>2. /\ turn'.outcome = turn.outcome /\ turn'.type = turn.type
        /\ turn'.steering = turn.steering /\ turn'.taken = turn.taken
        /\ turn'.accepting = turn.accepting
        /\ turn'.inputRecorded = turn.inputRecorded /\ turn'.at = turn.at
    BY <1>1, <2>1 DEF TurnType
  <2> QED
    BY <1>3, <2>2
<1> QED
  BY <1>4, <1>5, <1>6, <1>7 DEF SettleStep, StartFailed, StartFailureSaved,
     AppendTerminal, TerminalSaved, TerminalFlushed, FinishPlaces

\* A Turn whose input was recorded has consumed the steering it accepted when
\* it completes (takeSteeringOrComplete), for any inputs, interrupts, failures
\* and crashes.  Compactions and declined prompts are the exceptions.
Recorder == turn.type # "compact" /\ turn.inputRecorded
THEOREM SteeringConsumedHolds == Spec => [](Recorder => SteeringConsumed)
<1>1. Init => ConsumedInv
  BY DEF Init, ConsumedInv, Idle
<1>2. IInv /\ ConsumedInv /\ [Next]_vars => ConsumedInv'
  <2> SUFFICES ASSUME IInv, ConsumedInv, [Next]_vars PROVE ConsumedInv'
    OBVIOUS
  <2>1. CASE UNCHANGED <<turn, mutations>>
    BY <2>1 DEF ConsumedInv, Consumed, NoInputQueued, Idle
  <2>2. CASE Crash
    BY <2>2 DEF Crash, Constructed, ConsumedInv, Idle
  <2>3. CASE CallerStep \/ IdleShutdownSettles \/ UNCHANGED vars
    <3>1. UNCHANGED <<turn, mutations>>
      BY <2>3 DEF CallerStep, SendCommand, Shutdown, ShutdownIfIdle,
         IdleShutdownSettles, bodyVars, vars
    <3> QED
      BY <2>1, <3>1
  <2> QED
    BY <2>2, <2>3, LoopConsumes, MutationConsumes, TaskConsumes, EndingConsumes
       DEF Next
<1>3. ConsumedInv => (Recorder => SteeringConsumed)
  BY DEF ConsumedInv, Consumed, Recorder, SteeringConsumed
<1> QED
  BY <1>1, <1>2, <1>3, Invariance, PTL DEF Spec

-----------------------------------------------------------------------------
(* An input of an agent is executed once.  What an execution is: the start *)
(* of the Turn of the input, or its record as steering of another Turn.    *)
(* It is either known to the Session or that of a closure that has         *)
(* appended it, and no input waits twice or after it was executed.         *)

Executes(r, id) ==
  r = TurnStarted(id) \/ (r.type = "response_item" /\ r.id = id /\ r.turn # id)
Silent(r) == \A id \in AgentInputs : ~ Executes(r, id)
Waiting == turn.taken \o turn.steering
Steers(i) == i \in DOMAIN mutations /\ mutations[i].kind = "steering"

ExecutedInv ==
  \A id \in AgentInputs :
    /\ \A i, j \in DOMAIN log : Executes(log[i], id) /\ Executes(log[j], id) => i = j
    /\ \A i \in DOMAIN log : Executes(log[i], id) =>
         \/ id \in submitted
         \/ \E k \in DOMAIN mutations :
              Steers(k) /\ mutations[k].id = id /\ mutations[k].stage = "appending"

\* What is queued to be recorded, and for which input.
SteersInv ==
  \A k \in DOMAIN mutations :
    /\ Steers(k) =>
         /\ mutations[k].id \in turn.seen \ submitted
         /\ \A i \in DOMAIN Waiting : Waiting[i].id # mutations[k].id
         /\ \A j \in DOMAIN mutations : Steers(j) => j = k
    /\ mutations[k].kind = "input" => mutations[k].id = turn.id
    /\ mutations[k].kind = "tool" => mutations[k].id = ToolResult

WaitingInv ==
  /\ Waiting \in Seq(InputType)
  /\ \A i, j \in DOMAIN Waiting : Waiting[i].id = Waiting[j].id => i = j
  /\ \A i \in DOMAIN Waiting : Waiting[i].id \in turn.seen \ submitted
  /\ turn.id \in AgentInputs =>
       \A i \in DOMAIN log :
         log[i].type = "response_item" /\ log[i].id = turn.id => log[i].turn = turn.id

OnceInv == ExecutedInv /\ SteersInv /\ (~ Idle => WaitingInv)

\* The records that a step appends.
LogKept ==
  \A i \in DOMAIN log' :
    \/ i \in DOMAIN log /\ log'[i] = log[i]
    \/ /\ Silent(log'[i])
       /\ log'[i].type = "response_item" => ~ Idle /\ log'[i].turn = turn.id

LEMMA KeptExecuted ==
  ASSUME ExecutedInv, LogKept, submitted \subseteq submitted',
         \A k \in DOMAIN mutations :
           Steers(k) /\ mutations[k].stage = "appending" =>
             \/ mutations[k].id \in submitted' \/ mutations[k].id \notin AgentInputs
             \/ \E j \in DOMAIN mutations' :
                  /\ Steers(j)' /\ mutations'[j].id = mutations[k].id
                  /\ mutations'[j].stage = "appending"
  PROVE  ExecutedInv'
<1> SUFFICES ASSUME NEW id \in AgentInputs
             PROVE  /\ \A i, j \in DOMAIN log' :
                         Executes(log'[i], id) /\ Executes(log'[j], id) => i = j
                    /\ \A i \in DOMAIN log' : Executes(log'[i], id) =>
                         \/ id \in submitted'
                         \/ \E k \in DOMAIN mutations' :
                              /\ Steers(k)' /\ mutations'[k].id = id
                              /\ mutations'[k].stage = "appending"
  BY DEF ExecutedInv
<1>1. \A i \in DOMAIN log' : Executes(log'[i], id) =>
        i \in DOMAIN log /\ Executes(log[i], id)
  BY DEF LogKept, Silent
<1> QED
  BY <1>1 DEF ExecutedInv

\* A step that leaves the inputs of the Turn, and what is queued of them.
LEMMA OnceKept ==
  ASSUME OnceInv, LogKept, UNCHANGED submitted,
         ~ Idle' => /\ ~ Idle /\ turn'.id = turn.id /\ turn'.seen = turn.seen
                    /\ turn'.taken = turn.taken /\ turn'.steering = turn.steering,
         \A k \in DOMAIN mutations' : mutations'[k].kind # "message" =>
           ~ Idle' /\ \E j \in DOMAIN mutations :
             mutations'[k].kind = mutations[j].kind /\ mutations'[k].id = mutations[j].id,
         \A j, k \in DOMAIN mutations' : Steers(j)' /\ Steers(k)' => j = k,
         \A k \in DOMAIN mutations :
           Steers(k) /\ mutations[k].stage = "appending" =>
             \E j \in DOMAIN mutations' :
               /\ Steers(j)' /\ mutations'[j].id = mutations[k].id
               /\ mutations'[j].stage = "appending"
  PROVE  OnceInv'
<1> USE DEF OnceInv
<1>1. ExecutedInv'
  BY KeptExecuted
<1>2. ~ Idle' => Waiting' = Waiting
  BY DEF Waiting
<1>3. SteersInv'
  <2> SUFFICES ASSUME NEW k \in DOMAIN mutations'
               PROVE  /\ Steers(k)' =>
                           /\ mutations'[k].id \in turn'.seen \ submitted'
                           /\ \A i \in DOMAIN Waiting' :
                                Waiting'[i].id # mutations'[k].id
                           /\ \A j \in DOMAIN mutations' : Steers(j)' => j = k
                      /\ mutations'[k].kind = "input" => mutations'[k].id = turn'.id
                      /\ mutations'[k].kind = "tool" => mutations'[k].id = ToolResult
    BY DEF SteersInv
  <2>1. CASE mutations'[k].kind # "message"
    <3>1. ~ Idle'
      BY <2>1
    <3>2. PICK j \in DOMAIN mutations :
            mutations'[k].kind = mutations[j].kind /\ mutations'[k].id = mutations[j].id
      BY <2>1
    <3> QED
      BY <1>2, <3>1, <3>2 DEF SteersInv, Steers
  <2>2. CASE mutations'[k].kind = "message"
    BY <2>2 DEF Steers
  <2> QED
    BY <2>1, <2>2
<1>4. ~ Idle' => WaitingInv'
  <2> SUFFICES ASSUME ~ Idle' PROVE WaitingInv'
    OBVIOUS
  <2>1. turn.id \in AgentInputs => \A i \in DOMAIN log' :
          log'[i].type = "response_item" /\ log'[i].id = turn.id => log'[i].turn = turn.id
    BY DEF LogKept, WaitingInv
  <2> QED
    BY <1>2, <2>1 DEF WaitingInv
<1> QED
  BY <1>1, <1>3, <1>4

LEMMA SameLog ==
  ASSUME UNCHANGED log
  PROVE  LogKept
BY DEF LogKept

\* One more record, that is nobody's execution.
LEMMA OneRecord ==
  ASSUME TypeInv, NEW r, log' = log \o <<r>>, Silent(r),
         r.type = "response_item" => ~ Idle /\ r.turn = turn.id
  PROVE  LogKept
<1>1. <<r>> \in Seq({r}) /\ Len(<<r>>) = 1 /\ <<r>>[1] = r
  OBVIOUS
<1>2. /\ Len(log) \in Nat /\ DOMAIN log = 1 .. Len(log)
      /\ DOMAIN log' = 1 .. Len(log) + 1
      /\ \A i \in 1 .. Len(log) : log'[i] = log[i]
      /\ \A i \in 1 .. 1 : log'[Len(log) + i] = <<r>>[i]
  BY <1>1, Joined DEF TypeInv
<1>3. log'[Len(log) + 1] = r
  BY <1>1, <1>2
<1> QED
  BY <1>2, <1>3 DEF LogKept

LEMMA AgentNames == \A id \in AgentInputs : id \notin {"none", Interruption, ToolResult}
BY CommandsAssumption DEF AgentInputs, Interruption, ToolResult

LEMMA SilentRecords ==
  /\ \A message : Silent(AgentError(message)) /\ AgentError(message).type = "agent_status"
  /\ \A id : Silent(AgentMessage(id)) /\ AgentMessage(id).type = "agent_message"
  /\ \A t, o : Silent(TurnCompleted(t, o)) /\ TurnCompleted(t, o).type = "turn_completed"
  /\ \A t : Silent(ResponseItem(ToolResult, t)) /\ Silent(ResponseItem(Interruption, t))
  /\ \A t : Silent(ResponseItem(t, t))
  /\ \A id, t : /\ ResponseItem(id, t).type = "response_item"
                /\ ResponseItem(id, t).turn = t /\ ResponseItem(id, t).id = id
BY AgentNames DEF Silent, Executes, AgentError, AgentMessage, TurnCompleted,
   ResponseItem, TurnStarted, Rec

\* What the loop queues is a message.
LEMMA LoopQueues ==
  ASSUME IInv, LoopStep
  PROVE  /\ \A k \in DOMAIN mutations' : mutations'[k].kind # "message" =>
              k \in DOMAIN mutations /\ mutations'[k] = mutations[k]
         /\ \A k \in DOMAIN mutations :
              k \in DOMAIN mutations' /\ mutations'[k] = mutations[k]
<1>1. CASE UNCHANGED mutations
  BY <1>1
<1>2. ASSUME NEW c \in Commands,
             mutations' = Append(mutations,
               [kind |-> "message", id |-> c.id, turn |-> "none", stage |-> "queued"])
      PROVE  /\ \A k \in DOMAIN mutations' : mutations'[k].kind # "message" =>
                  k \in DOMAIN mutations /\ mutations'[k] = mutations[k]
             /\ \A k \in DOMAIN mutations :
                  k \in DOMAIN mutations' /\ mutations'[k] = mutations[k]
  <2> DEFINE m == [kind |-> "message", id |-> c.id, turn |-> "none",
                   stage |-> "queued"]
  <2>1. m \in MutationType /\ m.kind = "message"
    BY CommandsAssumption DEF CommandType, MutationType, Names, Outcomes
  <2>2. mutations' = Append(mutations, m)
    BY <1>2
  <2> HIDE DEF m
  <2>3. mutations' = mutations \o <<m>>
    BY <2>1, <2>2, AppendIsConcat DEF IInv, TypeInv
  <2>4. /\ Len(mutations) \in Nat /\ DOMAIN mutations = 1 .. Len(mutations)
        /\ DOMAIN mutations' = 1 .. Len(mutations) + 1
        /\ \A i \in 1 .. Len(mutations) : mutations'[i] = mutations[i]
        /\ mutations'[Len(mutations) + 1] = m
    BY <2>1, <2>3, QueueLonger DEF IInv
  <2> QED
    BY <2>1, <2>4
<1> QED
  BY <1>1, <1>2, LoopTurns DEF IInv

LEMMA LoopLogs ==
  ASSUME TypeInv, LoopStep
  PROVE  LogKept
<1>1. ASSUME NEW message \in Names, log' = log \o <<AgentError(message)>>
      PROVE  LogKept
  BY <1>1, OneRecord, SilentRecords
<1> QED
  BY <1>1, SameLog, LoopTurns

\* An input that starts a Turn was not executed before.
LEMMA StartOnce ==
  ASSUME IInv, OnceInv, Idle, NEW c \in Commands, turn' = NewTurn(c),
         c.id \notin submitted, submitted' = submitted \cup {c.id}, LogKept,
         \A k \in DOMAIN mutations' : mutations'[k].kind # "message" =>
           k \in DOMAIN mutations /\ mutations'[k] = mutations[k]
  PROVE  OnceInv'
<1> USE DEF OnceInv
<1>1. \A k \in DOMAIN mutations : mutations[k].kind = "message"
  BY DEF IInv, QueueInv
<1>2. \A k \in DOMAIN mutations' : mutations'[k].kind = "message"
  BY <1>1
<1>3. ExecutedInv'
  BY <1>1, KeptExecuted DEF Steers
<1>4. SteersInv'
  BY <1>2 DEF SteersInv, Steers
<1>5. WaitingInv'
  <2>1. turn'.id = c.id /\ turn'.taken = <<>> /\ turn'.steering = <<>>
    BY DEF NewTurn
  <2>2. Waiting' = <<>>
    BY <2>1 DEF Waiting
  <2>3. Waiting' \in Seq(InputType) /\ DOMAIN Waiting' = {}
    BY <2>2
  <2>4. ASSUME turn'.id \in AgentInputs,
               NEW i \in DOMAIN log', log'[i].type = "response_item",
               log'[i].id = turn'.id, log'[i].turn # turn'.id
        PROVE  FALSE
    <3>1. i \in DOMAIN log /\ log'[i] = log[i]
      BY <2>4 DEF LogKept
    <3>2. Executes(log[i], c.id) /\ c.id \in AgentInputs
      BY <2>1, <2>4, <3>1 DEF Executes
    <3> QED
      BY <1>1, <3>1, <3>2 DEF ExecutedInv, Steers
  <2> QED
    BY <2>3, <2>4 DEF WaitingInv
<1> QED
  BY <1>3, <1>4, <1>5

\* An input that steers neither waits nor was executed before.
LEMMA SteerOnce ==
  ASSUME IInv, OnceInv, ~ Idle, NEW c \in Commands, turn' = Steered(turn, c),
         c.id \notin submitted, c.id \notin turn.seen, UNCHANGED submitted, LogKept,
         \A k \in DOMAIN mutations' : mutations'[k].kind # "message" =>
           k \in DOMAIN mutations /\ mutations'[k] = mutations[k],
         \A k \in DOMAIN mutations :
           k \in DOMAIN mutations' /\ mutations'[k] = mutations[k]
  PROVE  OnceInv'
<1> USE DEF OnceInv
<1> DEFINE x == [id |-> c.id, source |-> c.source]
<1>1. turn \in TurnType
  BY DEF IInv, TypeInv, Idle
<1>2. x \in InputType /\ c.id \in STRING /\ x.id = c.id
  BY CommandsAssumption DEF CommandType, InputType, Sources
<1>3. /\ turn'.id = turn.id /\ turn'.taken = turn.taken
      /\ turn'.steering = Append(turn.steering, x)
      /\ turn'.seen = turn.seen \cup {c.id}
  BY <1>1 DEF Steered, TurnType
<1> HIDE DEF x
<1>4. turn.taken \in Seq(InputType) /\ turn.steering \in Seq(InputType)
      /\ <<x>> \in Seq(InputType) /\ Len(<<x>>) = 1 /\ <<x>>[1] = x
  BY <1>1, <1>2 DEF TurnType
<1>5. Waiting' = Waiting \o <<x>>
  <2>1. turn'.steering = turn.steering \o <<x>>
    BY <1>2, <1>3, <1>4, AppendIsConcat
  <2>2. turn.taken \o (turn.steering \o <<x>>) = (turn.taken \o turn.steering) \o <<x>>
    <3> DEFINE first == turn.taken
               second == turn.steering
               third == <<x>>
    <3>1. /\ first \in Seq(InputType) /\ second \in Seq(InputType)
          /\ third \in Seq(InputType)
      BY <1>4
    <3> HIDE DEF first, second, third
    <3>2. first \o (second \o third) = (first \o second) \o third
      BY <3>1, ConcatAssociative
    <3> QED
      BY <3>2 DEF first, second, third
  <2> QED
    BY <1>3, <2>1, <2>2 DEF Waiting
<1>6. Waiting \in Seq(InputType)
  BY DEF WaitingInv
<1>7. /\ Waiting' \in Seq(InputType) /\ Len(Waiting) \in Nat
      /\ DOMAIN Waiting = 1 .. Len(Waiting)
      /\ DOMAIN Waiting' = 1 .. Len(Waiting) + 1
      /\ \A i \in 1 .. Len(Waiting) : Waiting'[i] = Waiting[i]
      /\ Waiting'[Len(Waiting) + 1] = x
  BY <1>2, <1>5, <1>6, Longer
<1>8. WaitingInv'
  <2>1. \A i \in DOMAIN Waiting : Waiting[i].id # c.id
    BY DEF WaitingInv
  <2>2. \A i, j \in DOMAIN Waiting' : Waiting'[i].id = Waiting'[j].id => i = j
    BY <1>2, <1>7, <2>1 DEF WaitingInv
  <2>3. \A i \in DOMAIN Waiting' : Waiting'[i].id \in turn'.seen \ submitted'
    BY <1>2, <1>3, <1>7 DEF WaitingInv
  <2>4. turn'.id \in AgentInputs =>
          \A i \in DOMAIN log' :
            log'[i].type = "response_item" /\ log'[i].id = turn'.id =>
              log'[i].turn = turn'.id
    BY <1>3 DEF WaitingInv, LogKept
  <2> QED
    BY <1>7, <2>2, <2>3, <2>4 DEF WaitingInv
<1>9. SteersInv'
  <2> SUFFICES ASSUME NEW k \in DOMAIN mutations'
               PROVE  /\ Steers(k)' =>
                           /\ mutations'[k].id \in turn'.seen \ submitted'
                           /\ \A i \in DOMAIN Waiting' :
                                Waiting'[i].id # mutations'[k].id
                           /\ \A j \in DOMAIN mutations' : Steers(j)' => j = k
                      /\ mutations'[k].kind = "input" => mutations'[k].id = turn'.id
                      /\ mutations'[k].kind = "tool" => mutations'[k].id = ToolResult
    BY DEF SteersInv
  <2>1. mutations'[k].kind # "message" =>
          k \in DOMAIN mutations /\ mutations'[k] = mutations[k]
    OBVIOUS
  <2>2. ASSUME Steers(k)'
        PROVE  /\ mutations'[k].id \in turn'.seen \ submitted'
               /\ \A i \in DOMAIN Waiting' : Waiting'[i].id # mutations'[k].id
               /\ \A j \in DOMAIN mutations' : Steers(j)' => j = k
    <3>1. k \in DOMAIN mutations /\ mutations'[k] = mutations[k] /\ Steers(k)
      BY <2>2 DEF Steers
    <3>2. mutations[k].id \in turn.seen \ submitted
      BY <3>1 DEF SteersInv
    <3>3. \A i \in DOMAIN Waiting' : Waiting'[i].id # mutations[k].id
      BY <1>2, <1>7, <3>1, <3>2 DEF SteersInv
    <3>4. \A j \in DOMAIN mutations' : Steers(j)' => j = k
      BY <3>1 DEF SteersInv, Steers
    <3> QED
      BY <1>3, <3>1, <3>2, <3>3, <3>4
  <2> QED
    BY <1>3, <2>1, <2>2 DEF SteersInv
<1>10. ExecutedInv'
  BY KeptExecuted DEF Steers
<1> QED
  BY <1>8, <1>9, <1>10

LEMMA LoopOnce ==
  ASSUME IInv, OnceInv, LoopStep
  PROVE  OnceInv'
<1>1. LogKept
  BY LoopLogs DEF IInv
<1>2. /\ \A k \in DOMAIN mutations' : mutations'[k].kind # "message" =>
           k \in DOMAIN mutations /\ mutations'[k] = mutations[k]
      /\ \A k \in DOMAIN mutations :
           k \in DOMAIN mutations' /\ mutations'[k] = mutations[k]
  BY LoopQueues
<1>3. ASSUME UNCHANGED submitted,
             turn' = turn \/ (~ Idle /\ turn' = Cancelled(turn))
      PROVE  OnceInv'
  <2>1. ~ Idle => turn \in TurnType
    BY DEF IInv, TypeInv, Idle
  <2>2. /\ ~ Idle => /\ ~ Idle' /\ turn'.id = turn.id /\ turn'.seen = turn.seen
                     /\ turn'.taken = turn.taken /\ turn'.steering = turn.steering
        /\ Idle => Idle'
    <3>1. CASE turn' = turn
      BY <3>1 DEF Idle
    <3>2. CASE ~ Idle /\ turn' = Cancelled(turn)
      <4>1. /\ turn'.id = turn.id /\ turn'.seen = turn.seen
            /\ turn'.taken = turn.taken /\ turn'.steering = turn.steering
        BY <2>1, <3>2 DEF Cancelled, TurnType
      <4>2. turn'.id # "none"
        BY <2>1, <3>2, <4>1 DEF TurnType, Ids
      <4> QED
        BY <3>2, <4>1, <4>2 DEF Idle, NoTurn
    <3> QED
      BY <1>3, <3>1, <3>2
  <2>3. \A k \in DOMAIN mutations' : mutations'[k].kind # "message" =>
          ~ Idle' /\ \E j \in DOMAIN mutations :
            mutations'[k].kind = mutations[j].kind /\ mutations'[k].id = mutations[j].id
    BY <1>2, <2>2 DEF IInv, QueueInv
  <2>4. \A j, k \in DOMAIN mutations' : Steers(j)' /\ Steers(k)' => j = k
    BY <1>2 DEF OnceInv, SteersInv, Steers
  <2>5. \A k \in DOMAIN mutations :
          Steers(k) /\ mutations[k].stage = "appending" =>
            \E j \in DOMAIN mutations' :
              /\ Steers(j)' /\ mutations'[j].id = mutations[k].id
              /\ mutations'[j].stage = "appending"
    BY <1>2 DEF Steers
  <2> QED
    BY <1>1, <1>3, <2>2, <2>3, <2>4, <2>5, OnceKept
<1> QED
  BY <1>1, <1>2, <1>3, StartOnce, SteerOnce, LoopTurns DEF IInv

\* A closure that ends, after its input is known if it was appended.
LEMMA EndOnce ==
  ASSUME IInv, OnceInv, mutations # <<>>, MutationEnds, UNCHANGED log,
         \/ UNCHANGED submitted
         \/ mutations[1].kind = "steering" /\ submitted' = submitted \cup {mutations[1].id},
         mutations[1].kind = "steering" /\ mutations[1].stage = "appending" =>
           mutations[1].id \in submitted' \/ mutations[1].id \notin AgentInputs
  PROVE  OnceInv'
<1> USE DEF OnceInv
<1>1. /\ Len(mutations) \in Nat /\ DOMAIN mutations = 1 .. Len(mutations)
      /\ 1 \in DOMAIN mutations
      /\ DOMAIN mutations' = 1 .. Len(mutations) - 1
      /\ \A i \in 1 .. Len(mutations) - 1 : mutations'[i] = mutations[i + 1]
  BY HeadFacts, EndFacts DEF IInv
<1>2. /\ Idle <=> Idle'
      /\ ~ Idle => /\ turn'.id = turn.id /\ turn'.seen = turn.seen
                   /\ turn'.taken = turn.taken /\ turn'.steering = turn.steering
  <2>1. CASE UNCHANGED turn
    BY <2>1 DEF Idle
  <2>2. CASE ~ Idle /\ turn' = [turn EXCEPT !.ahead = @ - 1]
    <3>1. turn \in TurnType
      BY <2>2 DEF IInv, TypeInv, Idle
    <3>2. /\ turn'.id = turn.id /\ turn'.seen = turn.seen
          /\ turn'.taken = turn.taken /\ turn'.steering = turn.steering
      BY <2>2, <3>1 DEF TurnType
    <3>3. turn'.id # "none"
      BY <3>1, <3>2 DEF TurnType, Ids
    <3> QED
      BY <2>2, <3>2, <3>3 DEF Idle, NoTurn
  <2> QED
    BY <2>1, <2>2 DEF MutationEnds
<1>3. ~ Idle => Waiting' = Waiting
  BY <1>2 DEF Waiting
<1>4. \A k \in DOMAIN mutations' :
        /\ k + 1 \in DOMAIN mutations /\ mutations'[k] = mutations[k + 1]
        /\ k + 1 # 1 /\ k \in Nat
  BY <1>1
<1>5. \A k \in DOMAIN mutations : k # 1 =>
        /\ k - 1 \in DOMAIN mutations' /\ mutations'[k - 1] = mutations[k]
  BY <1>1
<1>6. ExecutedInv'
  <2>1. \A k \in DOMAIN mutations :
          Steers(k) /\ mutations[k].stage = "appending" =>
            \/ mutations[k].id \in submitted' \/ mutations[k].id \notin AgentInputs
            \/ \E j \in DOMAIN mutations' :
                 /\ Steers(j)' /\ mutations'[j].id = mutations[k].id
                 /\ mutations'[j].stage = "appending"
    BY <1>5 DEF Steers
  <2> QED
    BY <2>1, SameLog, KeptExecuted
<1>7. SteersInv'
  <2> SUFFICES ASSUME NEW k \in DOMAIN mutations'
               PROVE  /\ Steers(k)' =>
                           /\ mutations'[k].id \in turn'.seen \ submitted'
                           /\ \A i \in DOMAIN Waiting' :
                                Waiting'[i].id # mutations'[k].id
                           /\ \A j \in DOMAIN mutations' : Steers(j)' => j = k
                      /\ mutations'[k].kind = "input" => mutations'[k].id = turn'.id
                      /\ mutations'[k].kind = "tool" => mutations'[k].id = ToolResult
    BY DEF SteersInv
  <2>1. mutations'[k].kind # "message" => ~ Idle
    BY <1>4 DEF IInv, QueueInv
  <2>2. ASSUME Steers(k)'
        PROVE  /\ mutations'[k].id \in turn'.seen \ submitted'
               /\ \A i \in DOMAIN Waiting' : Waiting'[i].id # mutations'[k].id
               /\ \A j \in DOMAIN mutations' : Steers(j)' => j = k
    <3>1. Steers(k + 1) /\ mutations'[k] = mutations[k + 1] /\ ~ Idle
      BY <1>4, <2>1, <2>2 DEF Steers
    <3>2. ~ Steers(1)
      BY <1>1, <1>4, <3>1 DEF SteersInv
    <3>3. UNCHANGED submitted
      BY <1>1, <3>2 DEF Steers
    <3>4. ASSUME NEW j \in DOMAIN mutations', Steers(j)' PROVE j = k
      <4>1. Steers(j + 1) /\ j + 1 \in DOMAIN mutations /\ j \in Nat /\ k \in Nat
        BY <1>4, <3>4 DEF Steers
      <4>2. j + 1 = k + 1
        BY <1>4, <3>1, <4>1 DEF SteersInv
      <4> QED
        BY <4>1, <4>2
    <3>5. /\ mutations[k + 1].id \in turn.seen \ submitted
          /\ \A i \in DOMAIN Waiting : Waiting[i].id # mutations[k + 1].id
      BY <1>4, <3>1 DEF SteersInv
    <3> QED
      BY <1>2, <1>3, <3>1, <3>3, <3>4, <3>5
  <2> QED
    BY <1>2, <1>4, <2>1, <2>2 DEF SteersInv
<1>8. ~ Idle' => WaitingInv'
  <2> SUFFICES ASSUME ~ Idle PROVE WaitingInv'
    BY <1>2
  <2>1. \A i \in DOMAIN Waiting : Waiting[i].id \notin submitted'
    BY <1>1 DEF WaitingInv, SteersInv, Steers
  <2> QED
    BY <1>2, <1>3, <2>1 DEF WaitingInv
<1> QED
  BY <1>6, <1>7, <1>8

\* A closure that goes on without executing anything.
SameInputs ==
  /\ Idle <=> Idle'
  /\ ~ Idle => /\ turn'.id = turn.id /\ turn'.seen = turn.seen
               /\ turn'.taken = turn.taken /\ turn'.steering = turn.steering

LEMMA StageOnce ==
  ASSUME IInv, OnceInv, mutations # <<>>, NEW stage \in Stages, Stage(stage),
         SameInputs, UNCHANGED submitted, LogKept,
         mutations[1].kind = "steering" => mutations[1].stage # "appending"
  PROVE  OnceInv'
<1>1. /\ 1 \in DOMAIN mutations /\ DOMAIN mutations' = DOMAIN mutations
      /\ \A i \in DOMAIN mutations :
           /\ mutations'[i].kind = mutations[i].kind
           /\ mutations'[i].id = mutations[i].id
           /\ i # 1 => mutations'[i] = mutations[i]
  BY HeadFacts, StageFacts DEF IInv
<1>2. \A k \in DOMAIN mutations' : mutations'[k].kind # "message" =>
        ~ Idle' /\ \E j \in DOMAIN mutations :
          mutations'[k].kind = mutations[j].kind /\ mutations'[k].id = mutations[j].id
  BY <1>1 DEF IInv, QueueInv, SameInputs
<1>3. \A j, k \in DOMAIN mutations' : Steers(j)' /\ Steers(k)' => j = k
  BY <1>1 DEF OnceInv, SteersInv, Steers
<1>4. \A k \in DOMAIN mutations :
        Steers(k) /\ mutations[k].stage = "appending" =>
          \E j \in DOMAIN mutations' :
            /\ Steers(j)' /\ mutations'[j].id = mutations[k].id
            /\ mutations'[j].stage = "appending"
  BY <1>1 DEF Steers
<1> QED
  BY <1>2, <1>3, <1>4, OnceKept DEF SameInputs

\* Steering that is recorded was not executed before.
LEMMA SteeringRecordedOnce ==
  ASSUME IInv, OnceInv, mutations # <<>>, mutations[1].kind = "steering",
         mutations[1].stage = "queued", Stage("appending"), UNCHANGED <<turn, submitted>>,
         log' = log \o <<ResponseItem(mutations[1].id, mutations[1].turn)>>
  PROVE  OnceInv'
<1> USE DEF OnceInv
<1> DEFINE x == mutations[1].id
           r == ResponseItem(x, mutations[1].turn)
<1>1. /\ 1 \in DOMAIN mutations /\ DOMAIN mutations' = DOMAIN mutations
      /\ \A i \in DOMAIN mutations :
           /\ mutations'[i].kind = mutations[i].kind
           /\ mutations'[i].id = mutations[i].id
           /\ i # 1 => mutations'[i] = mutations[i]
      /\ mutations'[1].stage = "appending"
  BY HeadFacts, StageFacts DEF IInv, Stages
<1>2. ~ Idle /\ mutations[1].turn = turn.id
  BY <1>1 DEF IInv, QueueInv
<1>3. Steers(1) /\ \A k \in DOMAIN mutations : Steers(k) => k = 1
  BY <1>1 DEF SteersInv, Steers
<1>4. x \notin submitted
  BY <1>1, <1>3 DEF SteersInv
<1>5. \A i \in DOMAIN log : x \in AgentInputs => ~ Executes(log[i], x)
  BY <1>3, <1>4 DEF ExecutedInv
<1>6. r.type = "response_item" /\ r.id = x /\ r.turn = turn.id
  BY <1>2, SilentRecords
<1>7. \A id : Executes(r, id) => id = x
  BY <1>6 DEF Executes, TurnStarted, Rec
<1> HIDE DEF r
<1>8. <<r>> \in Seq({r}) /\ Len(<<r>>) = 1 /\ <<r>>[1] = r
  OBVIOUS
<1>9. log' = log \o <<r>>
  BY DEF r
<1>10. /\ Len(log) \in Nat /\ DOMAIN log = 1 .. Len(log)
       /\ DOMAIN log' = 1 .. Len(log) + 1
       /\ \A i \in 1 .. Len(log) : log'[i] = log[i]
       /\ \A i \in 1 .. 1 : log'[Len(log) + i] = <<r>>[i]
  BY <1>8, <1>9, Joined DEF IInv, TypeInv
<1>11. log'[Len(log) + 1] = r
  BY <1>8, <1>10
<1> HIDE DEF x
<1>12. ExecutedInv'
  <2> SUFFICES ASSUME NEW id \in AgentInputs
               PROVE  /\ \A i, j \in DOMAIN log' :
                           Executes(log'[i], id) /\ Executes(log'[j], id) => i = j
                      /\ \A i \in DOMAIN log' : Executes(log'[i], id) =>
                           \/ id \in submitted'
                           \/ \E k \in DOMAIN mutations' :
                                /\ Steers(k)' /\ mutations'[k].id = id
                                /\ mutations'[k].stage = "appending"
    BY DEF ExecutedInv
  <2>1. CASE id = x
    <3>1. \A i \in DOMAIN log' : Executes(log'[i], id) => i = Len(log) + 1
      BY <1>5, <1>10, <2>1
    <3>2. Steers(1)' /\ mutations'[1].id = id /\ mutations'[1].stage = "appending"
      BY <1>1, <1>3, <2>1 DEF Steers, x
    <3> QED
      BY <1>1, <3>1, <3>2
  <2>2. CASE id # x
    <3>1. \A i \in DOMAIN log' : Executes(log'[i], id) =>
            i \in DOMAIN log /\ Executes(log[i], id)
      BY <1>7, <1>10, <1>11, <2>2
    <3>2. \A i \in DOMAIN log : Executes(log[i], id) => id \in submitted
      BY <1>3, <2>2 DEF ExecutedInv, x
    <3> QED
      BY <3>1, <3>2 DEF ExecutedInv
  <2> QED
    BY <2>1, <2>2
<1>13. Waiting' = Waiting
  BY DEF Waiting
<1>14. SteersInv'
  BY <1>1, <1>13 DEF SteersInv, Steers
<1>15. WaitingInv'
  <2>1. turn.id \in AgentInputs => \A i \in DOMAIN log' :
          log'[i].type = "response_item" /\ log'[i].id = turn.id => log'[i].turn = turn.id
    BY <1>2, <1>6, <1>10, <1>11 DEF WaitingInv
  <2> QED
    BY <1>2, <1>13, <2>1 DEF WaitingInv
<1> QED
  BY <1>12, <1>14, <1>15

LEMMA RecordsOnce ==
  ASSUME IInv, OnceInv, NEW m \in Range(mutations), RecordStarts(m)
  PROVE  OnceInv'
<1>1. mutations # <<>> /\ m = mutations[1] /\ m.kind # "message" /\ m.stage = "queued"
  BY DEF RecordStarts, Running
<1>2. ~ Idle /\ m.turn = turn.id /\ 1 \in DOMAIN mutations
  BY <1>1, HeadFacts DEF IInv, QueueInv
<1>3. turn \in TurnType /\ m \in MutationType
  BY <1>1, <1>2, HeadFacts DEF IInv, TypeInv, Idle
<1>4. SameInputs /\ UNCHANGED submitted
  <2>1. turn' = turn \/ turn' = [turn EXCEPT !.inputRecorded = TRUE]
    BY DEF RecordStarts
  <2>2. /\ turn'.id = turn.id /\ turn'.seen = turn.seen
        /\ turn'.taken = turn.taken /\ turn'.steering = turn.steering
    BY <1>3, <2>1 DEF TurnType
  <2>3. turn'.id # "none"
    BY <1>3, <2>2 DEF TurnType, Ids
  <2> QED
    BY <1>2, <2>2, <2>3 DEF SameInputs, Idle, NoTurn, RecordStarts, inputVars
<1>5. CASE UNCHANGED log
  <2>1. PICK stage \in Stages : Stage(stage)
    BY <1>5, <1>1 DEF RecordStarts, Stages
  <2> QED
    BY <1>1, <1>4, <1>5, <2>1, SameLog, StageOnce
<1>6. CASE log' = log \o <<ResponseItem(m.id, m.turn)>> /\ Stage("appending")
  <2>1. CASE m.kind = "steering"
    BY <1>1, <1>4, <1>6, <2>1, SteeringRecordedOnce DEF RecordStarts
  <2>2. CASE m.kind # "steering"
    <3>1. m.kind = "tool" \/ m.kind = "input"
      BY <1>1, <1>3, <2>2 DEF MutationType
    <3>2. m.id = ToolResult \/ m.id = m.turn
      BY <1>1, <1>2, <3>1 DEF OnceInv, SteersInv
    <3>3. /\ Silent(ResponseItem(m.id, m.turn))
          /\ ResponseItem(m.id, m.turn).turn = turn.id
      BY <1>2, <3>2, SilentRecords
    <3>4. LogKept
      BY <1>2, <1>6, <3>3, OneRecord DEF IInv
    <3> QED
      BY <1>1, <1>4, <1>6, <2>2, <3>4, StageOnce DEF Stages
  <2> QED
    BY <2>1, <2>2
<1>7. UNCHANGED log \/ (log' = log \o <<ResponseItem(m.id, m.turn)>> /\ Stage("appending"))
  BY DEF RecordStarts, AppendItems, SaveRejects, storeVars
<1> QED
  BY <1>5, <1>6, <1>7

LEMMA MutationOnce ==
  ASSUME IInv, OnceInv, MutationStep
  PROVE  OnceInv'
<1> PICK m \in Range(mutations) :
      \/ RecordStarts(m) \/ RecordRefused(m) \/ RecordEnds(m) \/ InputSaved(m)
      \/ MessageStarts(m) \/ MessageKnown(m) \/ MessageSaved(m)
      \/ MessageResaved(m) \/ MessageFails(m)
  BY DEF MutationStep
<1>1. mutations # <<>> /\ m = mutations[1]
  BY DEF RecordStarts, RecordRefused, RecordEnds, InputSaved, MessageStarts,
     MessageKnown, MessageSaved, MessageResaved, MessageFails, Running
<1>2. CASE RecordStarts(m)
  BY <1>2, RecordsOnce
<1>3. CASE RecordRefused(m)
  BY <1>1, <1>3, EndOnce DEF RecordRefused, inputVars, storeVars
<1>4. CASE RecordEnds(m)
  <2>1. MutationEnds /\ UNCHANGED log
    BY <1>4 DEF RecordEnds, AppendResolves, SaveRejects, storeVars
  <2>2. submitted' = IF m.kind = "steering" /\ m.id \in AgentInputs
                     THEN submitted \cup {m.id} ELSE submitted
    BY <1>4 DEF RecordEnds
  <2> QED
    BY <1>1, <2>1, <2>2, EndOnce
<1>5. CASE InputSaved(m)
  <2>1. m.kind = "input" /\ UNCHANGED submitted
    BY <1>5 DEF InputSaved, inputVars
  <2>2. CASE MutationEnds /\ UNCHANGED log
    BY <1>1, <2>1, <2>2, EndOnce
  <2>3. CASE /\ log' = log \o <<ResponseItem(m.id, m.turn)>>
             /\ Stage("appending") /\ UNCHANGED turn
    <3>1. ~ Idle /\ m.turn = turn.id /\ m.id = turn.id
      BY <1>1, <2>1, HeadFacts DEF IInv, QueueInv, OnceInv, SteersInv
    <3>2. LogKept
      BY <2>3, <3>1, OneRecord, SilentRecords DEF IInv
    <3> QED
      BY <1>1, <2>1, <2>3, <3>2, StageOnce DEF SameInputs, Stages, Idle
  <2> QED
    BY <1>5, <2>2, <2>3 DEF InputSaved, AppendItems, AppendResolves, SaveRejects,
       storeVars
<1>6. CASE MessageStarts(m)
  <2>1. m.kind = "message" /\ UNCHANGED <<turn, submitted>> /\ Stage("flushing")
    BY <1>6 DEF MessageStarts
  <2>2. log' = log \/ log' = log \o <<AgentMessage(m.id)>>
    BY <1>6 DEF MessageStarts, AppendItems, SaveRejects, storeVars
  <2>3. LogKept
    BY <2>2, SameLog, OneRecord, SilentRecords DEF IInv
  <2> QED
    BY <1>1, <2>1, <2>3, StageOnce DEF SameInputs, Stages, Idle
<1>7. CASE MessageKnown(m) \/ MessageSaved(m) \/ MessageFails(m)
  <2>1. /\ m.kind = "message" /\ MutationEnds
        /\ UNCHANGED <<log, submitted>>
    BY <1>7 DEF MessageKnown, MessageSaved, MessageFails, MessageAnswered,
       FlushResolves, SaveRejects, storeVars
  <2> QED
    BY <1>1, <2>1, EndOnce
<1>8. CASE MessageResaved(m)
  <2>1. /\ log' = log \o <<AgentMessage(m.id)>>
        /\ UNCHANGED <<turn, mutations, submitted>>
    BY <1>8 DEF MessageResaved, AppendItems, inputVars
  <2>2. LogKept
    BY <2>1, OneRecord, SilentRecords DEF IInv
  <2>3. \A k \in DOMAIN mutations' : mutations'[k].kind # "message" =>
          ~ Idle' /\ \E j \in DOMAIN mutations :
            mutations'[k].kind = mutations[j].kind /\ mutations'[k].id = mutations[j].id
    BY <2>1 DEF IInv, QueueInv, Idle
  <2>4. \A j, k \in DOMAIN mutations' : Steers(j)' /\ Steers(k)' => j = k
    BY <2>1 DEF OnceInv, SteersInv, Steers
  <2>5. \A k \in DOMAIN mutations :
          Steers(k) /\ mutations[k].stage = "appending" =>
            \E j \in DOMAIN mutations' :
              /\ Steers(j)' /\ mutations'[j].id = mutations[k].id
              /\ mutations'[j].stage = "appending"
    BY <2>1 DEF Steers
  <2> QED
    BY <2>1, <2>2, <2>3, <2>4, <2>5, OnceKept DEF Idle
<1> QED
  BY <1>2, <1>3, <1>4, <1>5, <1>6, <1>7, <1>8

-----------------------------------------------------------------------------
(* The steps of a task execute its input and queue its steering.           *)

\* The start of a Turn that is not in the rollout is recorded.
LEMMA StartRecordedOnce ==
  ASSUME IInv, OnceInv, ~ Idle, SameInputs, UNCHANGED <<mutations, submitted>>,
         log' = log \o <<TurnStarted(turn.id)>>, ~ Recorded(TurnStarted(turn.id))
  PROVE  OnceInv'
<1> USE DEF OnceInv
<1> DEFINE r == TurnStarted(turn.id)
<1>1. r.type = "turn_started" /\ r.id = turn.id
  BY DEF TurnStarted, Rec
<1>2. \A id : Executes(r, id) => id = turn.id
  BY <1>1 DEF Executes, TurnStarted, Rec
<1>3. \A i \in DOMAIN log : log[i] # r
  BY DEF Recorded, Range
<1>4. log' = log \o <<r>>
  OBVIOUS
<1> HIDE DEF r
<1>5. <<r>> \in Seq({r}) /\ Len(<<r>>) = 1 /\ <<r>>[1] = r
  OBVIOUS
<1>6. /\ Len(log) \in Nat /\ DOMAIN log = 1 .. Len(log)
      /\ DOMAIN log' = 1 .. Len(log) + 1
      /\ \A i \in 1 .. Len(log) : log'[i] = log[i]
      /\ \A i \in 1 .. 1 : log'[Len(log) + i] = <<r>>[i]
  BY <1>4, <1>5, Joined DEF IInv, TypeInv
<1>7. log'[Len(log) + 1] = r
  BY <1>5, <1>6
<1>8. turn.id \in submitted
  BY DEF IInv, TurnInv
<1>9. turn.id \in AgentInputs => \A i \in DOMAIN log : ~ Executes(log[i], turn.id)
  BY <1>3 DEF Executes, WaitingInv, r
<1>10. ExecutedInv'
  <2> SUFFICES ASSUME NEW id \in AgentInputs
               PROVE  /\ \A i, j \in DOMAIN log' :
                           Executes(log'[i], id) /\ Executes(log'[j], id) => i = j
                      /\ \A i \in DOMAIN log' : Executes(log'[i], id) =>
                           \/ id \in submitted'
                           \/ \E k \in DOMAIN mutations' :
                                /\ Steers(k)' /\ mutations'[k].id = id
                                /\ mutations'[k].stage = "appending"
    BY DEF ExecutedInv
  <2>1. CASE id = turn.id
    <3>1. \A i \in DOMAIN log' : Executes(log'[i], id) => i = Len(log) + 1
      BY <1>6, <1>9, <2>1
    <3> QED
      BY <1>6, <1>8, <2>1, <3>1
  <2>2. CASE id # turn.id
    <3>1. \A i \in DOMAIN log' : Executes(log'[i], id) =>
            i \in DOMAIN log /\ Executes(log[i], id)
      BY <1>2, <1>6, <1>7, <2>2
    <3> QED
      BY <3>1 DEF ExecutedInv, Steers
  <2> QED
    BY <2>1, <2>2
<1>11. Waiting' = Waiting /\ ~ Idle'
  BY DEF Waiting, SameInputs
<1>12. SteersInv'
  BY <1>11 DEF SteersInv, Steers, SameInputs
<1>13. WaitingInv'
  <2>1. turn.id \in AgentInputs => \A i \in DOMAIN log' :
          log'[i].type = "response_item" /\ log'[i].id = turn.id => log'[i].turn = turn.id
    BY <1>1, <1>6, <1>7 DEF WaitingInv
  <2> QED
    BY <1>11, <2>1 DEF WaitingInv, SameInputs
<1> QED
  BY <1>10, <1>12, <1>13

\* The initial input or the tool result is queued.
LEMMA QueuedOnce ==
  ASSUME IInv, OnceInv, ~ Idle, SameInputs, UNCHANGED <<log, submitted>>,
         NEW m \in MutationType, mutations' = mutations \o <<m>>,
         \/ m.kind = "input" /\ m.id = turn.id
         \/ m.kind = "tool" /\ m.id = ToolResult
  PROVE  OnceInv'
<1> USE DEF OnceInv
<1>1. /\ Len(mutations) \in Nat /\ DOMAIN mutations = 1 .. Len(mutations)
      /\ DOMAIN mutations' = 1 .. Len(mutations) + 1
      /\ \A i \in 1 .. Len(mutations) : mutations'[i] = mutations[i]
      /\ mutations'[Len(mutations) + 1] = m
  BY QueueLonger DEF IInv
<1>2. /\ \A k \in DOMAIN mutations : k \in DOMAIN mutations' /\ mutations'[k] = mutations[k]
      /\ \A k \in DOMAIN mutations' :
           \/ k \in DOMAIN mutations /\ mutations'[k] = mutations[k]
           \/ mutations'[k] = m
  BY <1>1
<1>3. Waiting' = Waiting /\ ~ Idle'
  BY DEF Waiting, SameInputs
<1>4. ExecutedInv'
  BY <1>2, SameLog, KeptExecuted DEF Steers
<1>5. \A k \in DOMAIN mutations' :
        Steers(k)' => Steers(k) /\ mutations'[k] = mutations[k]
  BY <1>2 DEF Steers
<1>6. SteersInv'
  <2> SUFFICES ASSUME NEW k \in DOMAIN mutations'
               PROVE  /\ Steers(k)' =>
                           /\ mutations'[k].id \in turn'.seen \ submitted'
                           /\ \A i \in DOMAIN Waiting' :
                                Waiting'[i].id # mutations'[k].id
                           /\ \A j \in DOMAIN mutations' : Steers(j)' => j = k
                      /\ mutations'[k].kind = "input" => mutations'[k].id = turn'.id
                      /\ mutations'[k].kind = "tool" => mutations'[k].id = ToolResult
    BY DEF SteersInv
  <2>1. ASSUME Steers(k)'
        PROVE  /\ mutations'[k].id \in turn'.seen \ submitted'
               /\ \A i \in DOMAIN Waiting' : Waiting'[i].id # mutations'[k].id
               /\ \A j \in DOMAIN mutations' : Steers(j)' => j = k
    BY <1>3, <1>5, <2>1 DEF SteersInv, Steers, SameInputs
  <2> QED
    BY <1>2, <2>1 DEF SteersInv, SameInputs
<1>7. WaitingInv'
  BY <1>3 DEF WaitingInv, SameInputs
<1> QED
  BY <1>4, <1>6, <1>7

\* What waits when the first taken input is taken off.
LEMMA FirstTaken ==
  ASSUME turn.taken \in Seq(InputType), turn.steering \in Seq(InputType),
         turn.taken # <<>>,
         turn'.taken = Tail(turn.taken), turn'.steering = turn.steering
  PROVE  /\ Waiting' \in Seq(InputType) /\ Len(Waiting) \in Nat
         /\ DOMAIN Waiting = 1 .. Len(Waiting) /\ 1 \in DOMAIN Waiting
         /\ DOMAIN Waiting' = 1 .. Len(Waiting) - 1
         /\ Waiting[1] = Head(turn.taken) /\ Head(turn.taken) \in InputType
         /\ \A i \in 1 .. Len(Waiting) - 1 : Waiting'[i] = Waiting[i + 1]
<1> DEFINE S == InputType
           s == turn.taken
           t == turn.steering
<1>0. /\ s \in Seq(S) /\ t \in Seq(S) /\ s # <<>> /\ s = turn.taken
      /\ Waiting = s \o t /\ Waiting' = Tail(s) \o t
  BY DEF Waiting
<1> HIDE DEF s, t, S
<1>1. /\ Len(s) \in Nat \ {0} /\ Len(t) \in Nat /\ DOMAIN s = 1 .. Len(s)
      /\ Head(s) \in S /\ Tail(s) \in Seq(S) /\ Len(Tail(s)) = Len(s) - 1
      /\ \A i \in 1 .. Len(s) - 1 : Tail(s)[i] = s[i + 1]
  BY <1>0, LenProperties, EmptySeq, HeadTailProperties
<1>2. /\ s \o t \in Seq(S) /\ Len(s \o t) = Len(s) + Len(t)
      /\ \A i \in 1 .. Len(s) + Len(t) :
           (s \o t)[i] = IF i <= Len(s) THEN s[i] ELSE t[i - Len(s)]
  BY <1>0, ConcatProperties
<1>3. /\ Tail(s) \o t \in Seq(S) /\ Len(Tail(s) \o t) = Len(Tail(s)) + Len(t)
      /\ \A i \in 1 .. Len(Tail(s)) + Len(t) :
           (Tail(s) \o t)[i] = IF i <= Len(Tail(s)) THEN Tail(s)[i]
                               ELSE t[i - Len(Tail(s))]
  BY <1>0, <1>1, ConcatProperties
<1>4. /\ DOMAIN (s \o t) = 1 .. Len(s) + Len(t)
      /\ DOMAIN (Tail(s) \o t) = 1 .. Len(s) + Len(t) - 1
  BY <1>1, <1>2, <1>3, LenProperties
<1>5. (s \o t)[1] = Head(s)
  BY <1>1, <1>2
<1>6. \A i \in 1 .. Len(s) + Len(t) - 1 : (Tail(s) \o t)[i] = (s \o t)[i + 1]
  <2> TAKE i \in 1 .. Len(s) + Len(t) - 1
  <2>1. CASE i <= Len(s) - 1
    BY <1>1, <1>2, <1>3, <2>1
  <2>2. CASE ~ i <= Len(s) - 1
    BY <1>1, <1>2, <1>3, <2>2
  <2> QED
    BY <2>1, <2>2
<1>7. DOMAIN (s \o t) = 1 .. Len(s \o t) /\ 1 \in DOMAIN (s \o t)
  BY <1>1, <1>2, <1>4
<1>8. DOMAIN (Tail(s) \o t) = 1 .. Len(s \o t) - 1
  BY <1>2, <1>4
<1>9. \A i \in 1 .. Len(s \o t) - 1 : (Tail(s) \o t)[i] = (s \o t)[i + 1]
  BY <1>2, <1>6
<1>10. Len(s \o t) \in Nat /\ Tail(s) \o t \in Seq(S) /\ Head(s) \in S
  BY <1>1, <1>2, <1>3
<1> QED
  BY <1>0, <1>5, <1>7, <1>8, <1>9, <1>10, Zenon DEF S

\* A taken input is queued to be recorded, or declined.
LEMMA SteeringQueuedOnce ==
  ASSUME IInv, OnceInv, RecordSteering, turn \in TurnType
  PROVE  OnceInv'
<1> USE DEF OnceInv
<1> DEFINE x == Head(turn.taken)
           m == Mutation("steering", x.id)
<1>1. /\ turn.taken \in Seq(InputType) /\ turn.steering \in Seq(InputType)
      /\ turn.taken # <<>> /\ turn.id # "none"
  BY DEF RecordSteering, TurnType, Ids
<1>2. ~ Idle
  BY <1>1 DEF Idle, NoTurn
<1>3. /\ turn'.id = turn.id /\ turn'.seen = turn.seen
      /\ turn'.steering = turn.steering /\ turn'.taken = Tail(turn.taken)
  BY DEF RecordSteering, TurnType
<1>4. ~ Idle'
  BY <1>1, <1>3 DEF Idle, NoTurn
<1>5. UNCHANGED <<log, submitted>>
  BY DEF RecordSteering, QueuesForTurn, TaskFrame, inputVars, storeVars
<1>6. /\ Waiting' \in Seq(InputType) /\ Len(Waiting) \in Nat
      /\ DOMAIN Waiting = 1 .. Len(Waiting) /\ 1 \in DOMAIN Waiting
      /\ DOMAIN Waiting' = 1 .. Len(Waiting) - 1
      /\ Waiting[1] = x /\ x \in InputType
      /\ \A i \in 1 .. Len(Waiting) - 1 : Waiting'[i] = Waiting[i + 1]
  BY <1>1, <1>3, FirstTaken
<1>7. \A k \in DOMAIN mutations : ~ Steers(k)
  BY DEF RecordSteering, Queued, Range, Steers, IInv, QueueInv
<1> HIDE DEF x
<1>8. m \in MutationType /\ m.kind = "steering" /\ m.id = x.id
  BY <1>6 DEF Mutation, MutationType, InputType, Names, TurnType, Ids
<1>9. mutations' = mutations \/ mutations' = Append(mutations, m)
  BY DEF RecordSteering, x
<1> HIDE DEF m
<1>10. \A k \in DOMAIN mutations' :
         \/ k \in DOMAIN mutations /\ mutations'[k] = mutations[k]
         \/ mutations'[k] = m /\ k = Len(mutations) + 1
  <2>1. CASE mutations' = mutations
    BY <2>1
  <2>2. CASE mutations' = Append(mutations, m)
    <3>1. mutations' = mutations \o <<m>>
      BY <1>8, <2>2, AppendIsConcat DEF IInv, TypeInv
    <3>2. /\ Len(mutations) \in Nat /\ DOMAIN mutations = 1 .. Len(mutations)
          /\ DOMAIN mutations' = 1 .. Len(mutations) + 1
          /\ \A i \in 1 .. Len(mutations) : mutations'[i] = mutations[i]
          /\ mutations'[Len(mutations) + 1] = m
      BY <1>8, <3>1, QueueLonger DEF IInv
    <3> QED
      BY <3>2
  <2> QED
    BY <1>9, <2>1, <2>2
<1>11. \A k \in DOMAIN mutations' : Steers(k)' =>
         mutations'[k] = m /\ k = Len(mutations) + 1
  BY <1>7, <1>10 DEF Steers
<1>12. ExecutedInv'
  BY <1>5, <1>7, SameLog, KeptExecuted
<1>13. \A i \in DOMAIN Waiting' :
         /\ i \in Nat /\ i + 1 \in DOMAIN Waiting /\ i + 1 # 1
         /\ Waiting'[i] = Waiting[i + 1]
  BY <1>6
<1>14. SteersInv'
  <2> SUFFICES ASSUME NEW k \in DOMAIN mutations'
               PROVE  /\ Steers(k)' =>
                           /\ mutations'[k].id \in turn'.seen \ submitted'
                           /\ \A i \in DOMAIN Waiting' :
                                Waiting'[i].id # mutations'[k].id
                           /\ \A j \in DOMAIN mutations' : Steers(j)' => j = k
                      /\ mutations'[k].kind = "input" => mutations'[k].id = turn'.id
                      /\ mutations'[k].kind = "tool" => mutations'[k].id = ToolResult
    BY DEF SteersInv
  <2>1. ASSUME Steers(k)'
        PROVE  /\ mutations'[k].id \in turn'.seen \ submitted'
               /\ \A i \in DOMAIN Waiting' : Waiting'[i].id # mutations'[k].id
               /\ \A j \in DOMAIN mutations' : Steers(j)' => j = k
    <3>1. mutations'[k].id = Waiting[1].id
      BY <1>6, <1>8, <1>11, <2>1
    <3>2. Waiting[1].id \in turn.seen \ submitted
      BY <1>2, <1>6 DEF WaitingInv
    <3>3. \A i \in DOMAIN Waiting' : Waiting'[i].id # Waiting[1].id
      BY <1>2, <1>6, <1>13 DEF WaitingInv
    <3>4. \A j \in DOMAIN mutations' : Steers(j)' => j = k
      BY <1>11, <2>1
    <3> QED
      BY <1>3, <1>5, <3>1, <3>2, <3>3, <3>4
  <2> QED
    BY <1>3, <1>8, <1>10, <2>1 DEF SteersInv
<1>15. WaitingInv'
  <2>1. \A i, j \in DOMAIN Waiting' : Waiting'[i].id = Waiting'[j].id => i = j
    <3> TAKE i, j \in DOMAIN Waiting'
    <3> HAVE Waiting'[i].id = Waiting'[j].id
    <3>1. i + 1 = j + 1
      BY <1>2, <1>13 DEF WaitingInv
    <3> QED
      BY <1>13, <3>1
  <2>2. \A i \in DOMAIN Waiting' : Waiting'[i].id \in turn.seen \ submitted
    BY <1>2, <1>13 DEF WaitingInv
  <2>3. turn.id \in AgentInputs => \A i \in DOMAIN log' :
          log'[i].type = "response_item" /\ log'[i].id = turn.id => log'[i].turn = turn.id
    BY <1>2, <1>5 DEF WaitingInv
  <2> QED
    BY <1>3, <1>5, <1>6, <2>1, <2>2, <2>3 DEF WaitingInv
<1> QED
  BY <1>4, <1>12, <1>14, <1>15

\* A step that leaves the queue, the rollout and what waits.
LEMMA UntouchedOnce ==
  ASSUME IInv, OnceInv, ~ Idle, LogKept, UNCHANGED <<mutations, submitted>>,
         ~ Idle', turn'.id = turn.id, turn'.seen = turn.seen, Waiting' = Waiting
  PROVE  OnceInv'
<1> USE DEF OnceInv
<1>1. ExecutedInv'
  BY KeptExecuted DEF Steers
<1>2. SteersInv'
  BY DEF SteersInv, Steers
<1>3. WaitingInv'
  BY DEF WaitingInv, LogKept
<1> QED
  BY <1>1, <1>2, <1>3

\* What a Turn waits for while its task goes from place to place.
LEMMA StoppedInputs ==
  ASSUME NEW t \in TurnType, NEW outcome \in Outcomes
  PROVE  LET u == Stopped(t, outcome) IN
           /\ u \in TurnType /\ u.id = t.id /\ u.seen = t.seen
           /\ u.taken = t.taken /\ u.steering = t.steering
<1> DEFINE o == IF t.aborted THEN "interrupted" ELSE outcome
<1>1. o \in Outcomes
  BY DEF Outcomes
<1>2. Stopped(t, outcome) = [t EXCEPT !.at = "stopped", !.outcome = o]
  BY DEF Stopped
<1> HIDE DEF o
<1>3. LET u == [t EXCEPT !.at = "stopped", !.outcome = o] IN
        /\ u \in TurnType /\ u.id = t.id /\ u.seen = t.seen
        /\ u.taken = t.taken /\ u.steering = t.steering
  BY <1>1 DEF TurnType, TaskPlaces
<1> QED
  BY <1>2, <1>3

LEMMA TaskOnce ==
  ASSUME IInv, OnceInv, TaskStep
  PROVE  OnceInv'
<1> USE DEF At, Goto
<1>1. ~ Idle /\ turn \in TurnType /\ turn'.id = turn.id /\ UNCHANGED submitted
  BY TaskMoves DEF IInv, SameTurn, inputVars
<1>2. ~ Idle' /\ turn.id # "none"
  BY <1>1 DEF Idle, NoTurn, TurnType, Ids
<1>3. ASSUME turn'.seen = turn.seen, turn'.taken = turn.taken,
             turn'.steering = turn.steering
      PROVE  SameInputs
  BY <1>1, <1>2, <1>3 DEF SameInputs
<1>4. ASSUME SameInputs, UNCHANGED <<log, mutations>>
      PROVE  OnceInv'
  <2>1. Waiting' = Waiting
    BY <1>1, <1>4 DEF Waiting, SameInputs
  <2> QED
    BY <1>1, <1>2, <1>4, <2>1, SameLog, UntouchedOnce DEF SameInputs
<1>5. ASSUME NEW outcome \in Outcomes, turn' = Stopped(turn, outcome)
      PROVE  SameInputs
  BY <1>1, <1>3, <1>5, StoppedInputs
<1>6. CASE BeginExecution
  <2>1. SameInputs /\ UNCHANGED mutations
    BY <1>1, <1>3, <1>6 DEF BeginExecution, TurnType, SavesForTurn
  <2>2. CASE UNCHANGED log
    BY <1>4, <2>1, <2>2
  <2>3. CASE log' = log \o <<TurnStarted(turn.id)>>
    <3>1. ~ Recorded(TurnStarted(turn.id))
      BY <1>1, <1>6, RecordedIsBegun DEF BeginExecution, IInv, TurnInv
    <3> QED
      BY <1>1, <2>1, <2>3, <3>1, StartRecordedOnce
  <2> QED
    BY <1>6, <2>2, <2>3 DEF BeginExecution, AppendItems, SaveRejects, storeVars
<1>7. CASE StartSaved \/ StartRejected
  <2>1. SameInputs /\ UNCHANGED <<log, mutations>>
    BY <1>1, <1>3, <1>7 DEF StartSaved, StartRejected, TurnType, SavesForTurn,
       AppendResolves, SaveRejects, storeVars
  <2> QED
    BY <1>4, <2>1
<1>8. CASE StartInspected
  <2>1. UNCHANGED mutations
    BY <1>8 DEF StartInspected, SavesForTurn
  <2>2. CASE UNCHANGED log /\ turn' = Stopped(turn, "failed")
    BY <1>4, <1>5, <2>1, <2>2 DEF Outcomes
  <2>3. CASE /\ UNCHANGED log
             /\ turn' = [turn EXCEPT !.at = "running", !.pendingStart = FALSE]
    BY <1>1, <1>3, <1>4, <2>1, <2>3 DEF TurnType
  <2>4. CASE /\ log' = log \o <<TurnStarted(turn.id)>>
             /\ ~ Recorded(TurnStarted(turn.id))
             /\ turn' = [turn EXCEPT !.at = "restarting"]
    BY <1>1, <1>3, <2>1, <2>4, StartRecordedOnce DEF TurnType
  <2> QED
    BY <1>8, <2>2, <2>3, <2>4 DEF StartInspected, AppendItems, FlushResolves,
       SaveRejects, storeVars
<1>9. CASE StartRetried
  <2>1. UNCHANGED <<log, mutations>>
    BY <1>9 DEF StartRetried, SavesForTurn, AppendResolves, SaveRejects, storeVars
  <2>2. CASE turn' = Stopped(turn, "failed")
    BY <1>4, <1>5, <2>1, <2>2 DEF Outcomes
  <2>3. CASE turn' = [turn EXCEPT !.at = "running", !.pendingStart = FALSE]
    BY <1>1, <1>3, <1>4, <2>1, <2>3 DEF TurnType
  <2> QED
    BY <1>9, <2>2, <2>3 DEF StartRetried
<1>10. CASE RecordInitialInput
  <2> DEFINE m == Mutation("input", turn.id)
  <2>1. m \in MutationType /\ m.kind = "input" /\ m.id = turn.id
    BY <1>1 DEF Mutation, MutationType, Names, TurnType, Ids
  <2>2. /\ mutations' = mutations \o <<m>>
        /\ UNCHANGED <<log, turn>>
    BY <1>10 DEF RecordInitialInput, Enqueue, QueuesForTurn, storeVars
  <2> HIDE DEF m
  <2> QED
    BY <1>1, <1>3, <2>1, <2>2, QueuedOnce
<1>11. CASE TakeSteering
  <2>1. /\ turn'.seen = turn.seen /\ turn'.steering = <<>>
        /\ turn'.taken = turn.taken \o turn.steering
    BY <1>1, <1>11 DEF TakeSteering, TurnType
  <2>2. UNCHANGED <<log, mutations>>
    BY <1>11 DEF TakeSteering, ChangesTurn, QueuesForTurn, storeVars
  <2>3. Waiting \in Seq(InputType)
    BY <1>1 DEF OnceInv, WaitingInv
  <2>4. Waiting' = Waiting \o <<>>
    BY <2>1 DEF Waiting
  <2>5. Waiting' = Waiting
    BY <2>3, <2>4, ConcatEmptySeq
  <2> QED
    BY <1>1, <1>2, <2>1, <2>2, <2>5, SameLog, UntouchedOnce
<1>12. CASE RecordSteering
  BY <1>1, <1>12, SteeringQueuedOnce
<1>13. CASE RecordToolResult
  <2> DEFINE m == Mutation("tool", ToolResult)
  <2>1. m \in MutationType /\ m.kind = "tool" /\ m.id = ToolResult
    BY <1>1 DEF Mutation, MutationType, Names, TurnType, Ids
  <2>2. /\ mutations' = mutations \o <<m>>
        /\ UNCHANGED log
    BY <1>13 DEF RecordToolResult, Enqueue, QueuesForTurn, storeVars
  <2>3. SameInputs
    BY <1>1, <1>3, <1>13 DEF RecordToolResult, TurnType
  <2> HIDE DEF m
  <2> QED
    BY <1>1, <2>1, <2>2, <2>3, QueuedOnce
<1>14. CASE TakeSteeringOrComplete
  BY <1>1, <1>3, <1>4, <1>14 DEF TakeSteeringOrComplete, TurnType, ChangesTurn,
     QueuesForTurn, storeVars
<1>15. CASE TaskReturns \/ PromptDeclined
  BY <1>4, <1>5, <1>15 DEF TaskReturns, PromptDeclined, ChangesTurn,
     QueuesForTurn, storeVars, Outcomes
<1>16. CASE TaskThrows
  <2> DEFINE u == Stopped(turn, "failed")
  <2>1. PICK failed : turn' = [u EXCEPT !.cleanupFailed = failed]
    BY <1>16 DEF TaskThrows
  <2>2. /\ u \in TurnType /\ u.seen = turn.seen
        /\ u.taken = turn.taken /\ u.steering = turn.steering
    BY <1>1, StoppedInputs DEF Outcomes
  <2> HIDE DEF u
  <2>3. SameInputs
    BY <1>3, <2>1, <2>2 DEF TurnType
  <2> QED
    BY <1>4, <1>16, <2>3 DEF TaskThrows, ChangesTurn, QueuesForTurn, storeVars
<1> QED
  BY <1>6, <1>7, <1>8, <1>9, <1>10, <1>11, <1>12, <1>13, <1>14, <1>15, <1>16
     DEF TaskStep

\* The end of a Turn executes nothing.
LEMMA TerminalSilent ==
  ASSUME TypeInv, ~ Idle, log' = log \o TerminalRecords
  PROVE  LogKept
<1> DEFINE c == TurnCompleted(turn.id, turn.outcome)
           i == ResponseItem(Interruption, turn.id)
           T == {r \in {c, i} : TRUE}
<1>1. /\ Silent(c) /\ c.type = "turn_completed"
      /\ Silent(i) /\ i.turn = turn.id
  BY SilentRecords
<1>2. \A r \in T : Silent(r) /\ (r.type = "response_item" => r.turn = turn.id)
  BY <1>1
<1>3. c \in T /\ i \in T
  OBVIOUS
<1>4. TerminalRecords = (IF turn.outcome = "interrupted" THEN <<i>> ELSE <<>>) \o <<c>>
  BY DEF TerminalRecords
<1> HIDE DEF c, i, T
<1>5. <<i>> \in Seq(T) /\ <<c>> \in Seq(T) /\ <<>> \in Seq(T)
  BY <1>3
<1>6. TerminalRecords \in Seq(T)
  <2>1. <<i>> \o <<c>> \in Seq(T) /\ <<>> \o <<c>> \in Seq(T)
    BY <1>5, ConcatProperties
  <2> QED
    BY <1>4, <2>1
<1> DEFINE m == TerminalRecords
<1>7. /\ Len(log) \in Nat /\ Len(m) \in Nat
      /\ DOMAIN log = 1 .. Len(log) /\ DOMAIN (log \o m) = 1 .. Len(log) + Len(m)
      /\ \A k \in 1 .. Len(log) : (log \o m)[k] = log[k]
      /\ \A k \in 1 .. Len(m) : (log \o m)[Len(log) + k] = m[k]
  BY <1>6, Joined DEF TypeInv
<1>8. \A k \in 1 .. Len(m) : m[k] \in T
  BY <1>6, ElementOfSeq
<1>9. log' = log \o m
  OBVIOUS
<1> HIDE DEF m
<1>10. ASSUME NEW k \in DOMAIN log'
       PROVE  \/ k \in DOMAIN log /\ log'[k] = log[k]
              \/ log'[k] \in T
  <2>1. CASE k <= Len(log)
    BY <1>7, <1>9, <2>1
  <2>2. CASE ~ k <= Len(log)
    <3>1. k - Len(log) \in 1 .. Len(m) /\ k = Len(log) + (k - Len(log))
      BY <1>7, <1>9, <2>2
    <3>2. log'[k] = m[k - Len(log)]
      BY <1>7, <1>9, <3>1
    <3> QED
      BY <1>8, <3>1, <3>2
  <2> QED
    BY <1>7, <1>9, <2>1, <2>2
<1> QED
  BY <1>2, <1>10 DEF LogKept

LEMMA EndingOnce ==
  ASSUME IInv, OnceInv, SettleStep \/ EscalationStep
  PROVE  OnceInv'
<1> USE DEF At, Goto, TaskFrame, SavesForTurn, ChangesTurn, QueuesForTurn, ReleaseTurn
<1>1. ~ Idle /\ turn \in TurnType /\ turn.id # "none"
  <2>1. CASE SettleStep
    BY <2>1, IdleTurn DEF IInv, SettleStep, TaskSettled, StartFailed,
       StartFailureSaved, AppendTerminal, TerminalSaved, TerminalFlushed,
       TaskPlaces, FinishPlaces, TurnType, Ids
  <2>2. CASE EscalationStep
    BY <2>2 DEF EscalationStep, EscalationFires, EscalationEnds, IInv, TypeInv,
       Idle, TurnType, Ids
  <2> QED
    BY <2>1, <2>2
<1>2. UNCHANGED <<mutations, submitted>>
  BY DEF SettleStep, TaskSettled, StartFailed, StartFailureSaved, AppendTerminal,
     TerminalSaved, TerminalFlushed, EscalationStep, EscalationFires,
     EscalationEnds, inputVars
<1>3. LogKept
  <2>1. CASE log' = log
    BY <2>1, SameLog
  <2>2. CASE log' = log \o <<AgentError("Turn persistence failed.")>>
    BY <2>2, OneRecord, SilentRecords DEF IInv
  <2>3. CASE log' = log \o TerminalRecords
    BY <1>1, <2>3, TerminalSilent DEF IInv
  <2> QED
    BY <2>1, <2>2, <2>3 DEF SettleStep, TaskSettled, StartFailed,
       StartFailureSaved, AppendTerminal, TerminalSaved, TerminalFlushed,
       EscalationStep, EscalationFires, EscalationEnds, AppendItems, SaveRejects,
       AppendResolves, FlushResolves, storeVars
<1>4. CASE /\ turn'.id = turn.id /\ turn'.seen = turn.seen
           /\ turn'.taken = turn.taken /\ turn'.steering = turn.steering
  <2>1. ~ Idle' /\ Waiting' = Waiting
    BY <1>1, <1>4 DEF Idle, NoTurn, Waiting
  <2> QED
    BY <1>1, <1>2, <1>3, <1>4, <2>1, UntouchedOnce
<1>5. CASE turn' = NoTurn /\ (StartFailed \/ StartFailureSaved \/ TerminalFlushed)
  <2>1. Idle'
    BY <1>5 DEF Idle
  <2>2. turn.finishing /\ turn.ahead = 0
    <3>1. turn.at \in FinishPlaces
      BY <1>5 DEF StartFailed, StartFailureSaved, TerminalFlushed, FinishPlaces
    <3>2. turn.at \in {"failed", "flushing"} \/ turn.ahead = 0
      BY <1>5 DEF StartFailed, StartFailureSaved, TerminalFlushed
    <3> QED
      BY <1>1, <3>1, <3>2 DEF IInv, QueueInv
  <2>3. \A i \in DOMAIN mutations : mutations[i].kind = "message"
    <3>1. DOMAIN mutations = 1 .. Len(mutations)
      BY LenProperties DEF IInv, TypeInv
    <3> QED
      BY <2>2, <3>1 DEF IInv, QueueInv
  <2>4. ExecutedInv'
    BY <1>2, <1>3, KeptExecuted DEF OnceInv, Steers
  <2>5. SteersInv'
    BY <1>2, <2>3 DEF SteersInv, Steers
  <2> QED
    BY <2>1, <2>4, <2>5 DEF OnceInv
<1>6. ASSUME NEW where, turn' = [turn EXCEPT !.at = where]
      PROVE  OnceInv'
  BY <1>1, <1>4, <1>6 DEF TurnType
<1>7. CASE TaskSettled
  <2> DEFINE where == CASE turn.cleanupFailed -> "stuck"
                        [] turn.pendingStart -> "failing"
                        [] OTHER -> "draining"
             pending == turn.pendingStart /\ turn.cleanupFailed
             escalation == IF turn.escalation = "armed" THEN "ended"
                                                        ELSE turn.escalation
  <2>1. turn' = [turn EXCEPT !.accepting = FALSE, !.finishing = TRUE,
                   !.pendingStart = pending, !.ahead = Len(mutations),
                   !.escalation = escalation, !.at = where]
    BY <1>1, <1>7 DEF TaskSettled, TurnType
  <2> HIDE DEF where, pending, escalation
  <2> QED
    BY <1>1, <1>4, <2>1 DEF TurnType
<1>8. CASE EscalationStep
  <2>1. PICK escalation, failed :
          turn' = [turn EXCEPT !.escalation = escalation, !.cleanupFailed = failed]
    <3>1. CASE EscalationFires
      <4>1. turn' = [turn EXCEPT !.escalation = "aborting",
                                 !.cleanupFailed = turn.cleanupFailed]
        BY <1>1, <3>1 DEF EscalationFires, TurnType
      <4> QED
        BY <4>1
    <3>2. CASE EscalationEnds
      <4>1. PICK failed \in {FALSE, CleanupFails} :
              turn' = [turn EXCEPT !.escalation = "ended",
                                   !.cleanupFailed = @ \/ failed]
        BY <3>2 DEF EscalationEnds
      <4> DEFINE f == turn.cleanupFailed \/ failed
      <4>2. turn' = [turn EXCEPT !.escalation = "ended", !.cleanupFailed = f]
        BY <1>1, <4>1 DEF TurnType
      <4> QED
        BY <4>2
    <3> QED
      BY <1>8, <3>1, <3>2 DEF EscalationStep
  <2> QED
    BY <1>1, <1>4, <2>1 DEF TurnType
<1> QED
  BY <1>5, <1>6, <1>7, <1>8 DEF SettleStep, StartFailed, StartFailureSaved,
     AppendTerminal, TerminalSaved, TerminalFlushed

\* A rebuilt Session knows the inputs whose executions its rollout holds.
LEMMA CrashOnce ==
  ASSUME IInv, OnceInv, Crash
  PROVE  OnceInv'
<1>1. PICK n \in synced .. Len(log) :
        log' = SubSeq(log, 1, n) /\ Constructed(log')
  BY DEF Crash
<1>2. mutations' = <<>> /\ Idle' /\ submitted' = SubmittedOf(log')
  BY <1>1 DEF Constructed, Idle
<1>3. DOMAIN mutations' = {}
  BY <1>2
<1>4. Len(log) \in Nat /\ DOMAIN log = 1 .. Len(log) /\ n \in Int /\ n <= Len(log)
  BY <1>1, LenProperties DEF IInv, TypeInv
<1>5. \A i \in 1 .. n : log[i] \in RecordType
  BY <1>4, ElementOfSeq DEF IInv, TypeInv
<1>6. /\ Len(log') = IF 1 <= n THEN n - 1 + 1 ELSE 0
      /\ \A i \in 1 .. n - 1 + 1 : log'[i] = log[1 + i - 1]
      /\ log' \in Seq(RecordType)
  BY <1>1, <1>4, <1>5, SubSeqProperties
<1>7. DOMAIN log' = 1 .. Len(log')
  BY <1>6, LenProperties
<1>8. \A i \in DOMAIN log' : i \in DOMAIN log /\ log'[i] = log[i]
  BY <1>4, <1>6, <1>7
<1>9. ASSUME NEW id \in AgentInputs, NEW i \in DOMAIN log', Executes(log'[i], id)
      PROVE  id \in submitted'
  <2>1. log'[i] \in Range(log')
    BY DEF Range
  <2>2. /\ log'[i].id = id
        /\ log'[i].type = "turn_started" \/ log'[i].type = "response_item"
    BY <1>9 DEF Executes, TurnStarted, Rec
  <2> QED
    BY <1>2, <1>9, <2>1, <2>2 DEF SubmittedOf
<1>10. ExecutedInv'
  BY <1>8, <1>9 DEF OnceInv, ExecutedInv
<1>11. SteersInv'
  BY <1>3 DEF SteersInv
<1> QED
  BY <1>2, <1>10, <1>11 DEF OnceInv

\* An agent's input is executed at most once, as a Turn of its own or as
\* steering of another (#submittedInputs, #rememberRecordedInput and what the
\* constructor reads from the rollout), for any commands, retries, rejected
\* saves and crashes.
THEOREM ExecutedOnceHolds == Spec => []ExecutedOnce
<1>1. Init => OnceInv
  <2> SUFFICES ASSUME Init PROVE OnceInv
    OBVIOUS
  <2>1. log = <<>> /\ mutations = <<>> /\ Idle
    BY DEF Init, Idle
  <2>2. DOMAIN log = {} /\ DOMAIN mutations = {}
    BY <2>1
  <2> QED
    BY <2>1, <2>2 DEF OnceInv, ExecutedInv, SteersInv
<1>2. IInv /\ OnceInv /\ [Next]_vars => OnceInv'
  <2> SUFFICES ASSUME IInv, OnceInv, [Next]_vars PROVE OnceInv'
    OBVIOUS
  <2>1. ASSUME UNCHANGED <<turn, mutations, submitted, log>>
        PROVE  OnceInv'
    <3>1. Waiting' = Waiting /\ Idle' = Idle
      BY <2>1 DEF Waiting, Idle
    <3>2. ExecutedInv' /\ SteersInv'
      BY <2>1, <3>1 DEF OnceInv, ExecutedInv, SteersInv, Steers
    <3>3. ~ Idle => WaitingInv'
      BY <2>1, <3>1 DEF OnceInv, WaitingInv
    <3> QED
      BY <3>1, <3>2, <3>3 DEF OnceInv
  <2>2. CASE CallerStep \/ IdleShutdownSettles \/ UNCHANGED vars
    <3>1. UNCHANGED <<turn, mutations, submitted, log>>
      BY <2>2 DEF CallerStep, SendCommand, Shutdown, ShutdownIfIdle,
         IdleShutdownSettles, bodyVars, inputVars, storeVars, vars
    <3> QED
      BY <2>1, <3>1
  <2> QED
    BY <2>2, LoopOnce, MutationOnce, TaskOnce, EndingOnce, CrashOnce DEF Next
<1>3. OnceInv => ExecutedOnce
  <2> SUFFICES ASSUME OnceInv, NEW id \in AgentInputs
               PROVE  Cardinality(Executions(id)) <= 1
    BY DEF ExecutedOnce
  <2>1. \A i \in Executions(id) : i \in DOMAIN log /\ Executes(log[i], id)
    BY DEF Executions, Executes
  <2>2. \A i, j \in Executions(id) : i = j
    BY <2>1 DEF OnceInv, ExecutedInv
  <2>3. CASE Executions(id) = {}
    BY <2>3, FS_EmptySet
  <2>4. CASE Executions(id) # {}
    <3>1. PICK i : Executions(id) = {i}
      BY <2>2, <2>4
    <3> QED
      BY <3>1, FS_Singleton
  <2> QED
    BY <2>3, <2>4
<1> QED
  BY <1>1, <1>2, <1>3, Invariance, PTL DEF Spec

-----------------------------------------------------------------------------
(* The last record of some types, and what it says of the agent.           *)

LEMMA LastFacts ==
  ASSUME NEW R, NEW l \in Seq(R), NEW T
  PROVE  /\ LastOf(T, l) \in Nat /\ LastOf(T, l) <= Len(l)
         /\ LastOf(T, l) > 0 => l[LastOf(T, l)].type \in T
         /\ \A i \in 1 .. Len(l) : l[i].type \in T => i <= LastOf(T, l)
<1> DEFINE n == Len(l)
           I == {i \in 1 .. n : l[i].type \in T}
           J == {n - i : i \in I}
<1>1. n \in Nat
  BY LenProperties
<1>2. CASE I # {}
  <2>1. J \subseteq Nat /\ J # {}
    <3>1. \A i \in I : n - i \in Nat
      BY <1>1
    <3> HIDE DEF n, I
    <3> QED
      BY <3>1, <1>2
  <2>2. PICK k \in J : \A j \in J : <<j, k>> \notin OpToRel(<, Nat)
    BY <2>1, NatLessThanWellFounded, WFMin
  <2>3. \A j \in J : ~(j < k)
    BY <2>1, <2>2 DEF OpToRel
  <2>4. PICK i \in I : k = n - i
    BY <2>2
  <2>5. \A j \in I : i >= j
    <3>1. \A j \in I : n - j \in J /\ j \in Nat
      BY <1>1
    <3>2. i \in Nat /\ k = n - i
      BY <2>4
    <3>3. \A j \in I : ~(n - j < n - i)
      BY <2>3, <3>1, <3>2
    <3> HIDE DEF n, I, J
    <3> QED
      BY <1>1, <3>1, <3>2, <3>3
  <2>6. Max(I) \in I /\ \A j \in I : Max(I) >= j
    BY <2>5 DEF Max
  <2>7. LastOf(T, l) = Max(I)
    BY <1>2 DEF LastOf, SelectLastInSeq
  <2> HIDE DEF J
  <2> QED
    BY <1>1, <2>6, <2>7
<1>3. CASE I = {}
  <2>1. LastOf(T, l) = 0
    BY <1>3 DEF LastOf, SelectLastInSeq
  <2> QED
    BY <1>1, <1>3, <2>1
<1> QED
  BY <1>2, <1>3

\* It is the one behind which there is no other.
LEMMA LastIs ==
  ASSUME NEW R, NEW l \in Seq(R), NEW T, NEW n \in 0 .. Len(l),
         n > 0 => l[n].type \in T,
         \A i \in n + 1 .. Len(l) : l[i].type \notin T
  PROVE  LastOf(T, l) = n
<1>1. Len(l) \in Nat
  BY LenProperties
<1>2. LastOf(T, l) \in Nat /\ LastOf(T, l) <= Len(l)
  BY LastFacts
<1>3. LastOf(T, l) > 0 => l[LastOf(T, l)].type \in T
  BY LastFacts
<1>4. n > 0 => n <= LastOf(T, l)
  BY <1>1, LastFacts
<1> QED
  BY <1>1, <1>2, <1>3, <1>4

LEMMA LastAppended ==
  ASSUME NEW R, NEW l \in Seq(R), NEW r \in R, NEW T
  PROVE  LastOf(T, l \o <<r>>) = IF r.type \in T THEN Len(l) + 1 ELSE LastOf(T, l)
<1> DEFINE m == l \o <<r>>
<1>1. /\ m \in Seq(R) /\ Len(l) \in Nat /\ DOMAIN l = 1 .. Len(l)
      /\ DOMAIN m = 1 .. Len(l) + 1
      /\ \A i \in 1 .. Len(l) : m[i] = l[i]
      /\ m[Len(l) + 1] = r
  BY Longer
<1>2. Len(m) = Len(l) + 1
  BY <1>1, LenProperties, ConcatProperties
<1> HIDE DEF m
<1>3. CASE r.type \in T
  <2> DEFINE n == Len(l) + 1
  <2>1. /\ n \in 0 .. Len(m) /\ m[n].type \in T
        /\ \A i \in n + 1 .. Len(m) : m[i].type \notin T
    BY <1>1, <1>2, <1>3
  <2> HIDE DEF n
  <2>2. LastOf(T, m) = n
    BY <1>1, <2>1, LastIs
  <2> QED
    BY <1>3, <2>2 DEF n, m
<1>4. CASE r.type \notin T
  <2> DEFINE n == LastOf(T, l)
  <2>1. /\ n \in Nat /\ n <= Len(l)
        /\ n > 0 => l[n].type \in T
        /\ \A i \in 1 .. Len(l) : l[i].type \in T => i <= n
    BY LastFacts
  <2> HIDE DEF n
  <2>2. n > 0 => m[n].type \in T
    BY <1>1, <2>1
  <2>3. \A i \in n + 1 .. Len(m) : m[i].type \notin T
    BY <1>1, <1>2, <1>4, <2>1
  <2>4. LastOf(T, m) = n
    <3>1. n \in 0 .. Len(m)
      BY <1>1, <1>2, <2>1
    <3> QED
      BY <1>1, <2>2, <2>3, <3>1, LastIs
  <2> QED
    BY <1>4, <2>4 DEF n, m
<1> QED
  BY <1>3, <1>4

LEMMA StatusAppends ==
  ASSUME NEW l \in Seq(RecordType), NEW r \in RecordType
  PROVE  AgentStatusOf(l \o <<r>>) =
           IF r.type \in StatusTypes THEN StatusOf(r) ELSE AgentStatusOf(l)
<1> DEFINE m == l \o <<r>>
           n == LastOf(StatusTypes, l)
<1>1. /\ Len(l) \in Nat
      /\ \A i \in 1 .. Len(l) : m[i] = l[i]
      /\ m[Len(l) + 1] = r
  BY Longer
<1>2. LastOf(StatusTypes, m) =
        IF r.type \in StatusTypes THEN Len(l) + 1 ELSE n
  BY LastAppended
<1>3. n \in Nat /\ n <= Len(l)
  BY LastFacts
<1> HIDE DEF m, n
<1>4. CASE r.type \in StatusTypes
  BY <1>1, <1>2, <1>4 DEF AgentStatusOf, m
<1>5. CASE r.type \notin StatusTypes
  <2>1. n > 0 => m[n] = l[n]
    BY <1>1, <1>3
  <2>2. AgentStatusOf(m) = IF n = 0 THEN "pending_init" ELSE StatusOf(m[n])
    BY <1>2, <1>5 DEF AgentStatusOf
  <2>3. AgentStatusOf(l) = IF n = 0 THEN "pending_init" ELSE StatusOf(l[n])
    BY DEF AgentStatusOf, n
  <2> QED
    BY <1>3, <1>5, <2>1, <2>2, <2>3 DEF m
<1> QED
  BY <1>4, <1>5

-----------------------------------------------------------------------------
(* The status between Turns.  A Turn none of whose saves failed goes        *)
(* straight through its places, and when its end has been appended nothing  *)
(* that says something of the agent comes behind it before the Turn is      *)
(* released; a failure is in the rollout while the loop waits for its save. *)

FailureOf(c) ==
  IF c.type = "fail_agent" THEN "agent failed" ELSE "Task capture failed."

PathInv ==
  /\ loop = "reading" => current.type = "resume_turn" /\ Idle
  /\ ~ saveFailed /\ ~ Idle =>
       /\ turn.at \notin {"inspecting", "restarting", "failing", "failed"}
       /\ turn.pendingStart => turn.at = "starting"
StatusInv ==
  ~ saveFailed /\ ~ LoopEnded =>
    /\ loop = "saving_failure" => Idle /\ AgentStatusOf(log) = FailureOf(current)
    /\ Idle /\ loop # "saving_failure" => agentStatus = AgentStatusOf(log)
    /\ ~ Idle /\ turn.at \in {"terminating", "flushing"} =>
         AgentStatusOf(log) = StatusOf(TurnCompleted(turn.id, turn.outcome))

\* Where the Turn is and how it ends stays.
SameWork ==
  /\ turn'.at = turn.at /\ turn'.id = turn.id /\ turn'.outcome = turn.outcome
  /\ ~ Idle => turn'.pendingStart = turn.pendingStart
  /\ Idle' <=> Idle
\* A rejected save is remembered, and the loop does not begin again.
Onward == (saveFailed => saveFailed') /\ (LoopEnded => LoopEnded')

LEMMA SameTurnWork ==
  ASSUME UNCHANGED turn
  PROVE  SameWork
BY DEF SameWork, Idle

LEMMA LoopWork ==
  ASSUME TypeInv, ~ Idle,
         \/ turn' = Cancelled(turn)
         \/ \E c : turn' = Steered(turn, c)
  PROVE  SameWork
<1>1. turn \in TurnType /\ turn.id # "none"
  BY DEF TypeInv, Idle, TurnType, Ids
<1>2. CASE turn' = Cancelled(turn)
  <2> DEFINE e == IF turn.escalation = "none" /\ ~ turn.finishing THEN "armed"
                                                               ELSE turn.escalation
  <2>1. turn' = [turn EXCEPT !.accepting = FALSE, !.aborted = TRUE, !.escalation = e]
    BY <1>1, <1>2 DEF Cancelled, TurnType
  <2> HIDE DEF e
  <2> QED
    BY <1>1, <2>1 DEF SameWork, Idle, NoTurn, TurnType
<1>3. ASSUME NEW c, turn' = Steered(turn, c) PROVE SameWork
  <2> DEFINE steering == Append(turn.steering, [id |-> c.id, source |-> c.source])
             seen == turn.seen \cup {c.id}
  <2>1. turn' = [turn EXCEPT !.steering = steering, !.seen = seen]
    BY <1>1, <1>3 DEF Steered, TurnType
  <2> HIDE DEF steering, seen
  <2> QED
    BY <1>1, <2>1 DEF SameWork, Idle, NoTurn, TurnType
<1> QED
  BY <1>2, <1>3

LEMMA InterruptWork ==
  ASSUME TypeInv, InterruptActiveTurn
  PROVE  SameWork
BY SameTurnWork, LoopWork DEF InterruptActiveTurn

LEMMA PathKept ==
  ASSUME PathInv, SameWork, Onward,
         loop' = "reading" => current'.type = "resume_turn" /\ Idle
  PROVE  PathInv'
BY DEF PathInv, SameWork, Onward

LEMMA StatusKept ==
  ASSUME StatusInv, SameWork, Onward, UNCHANGED agentStatus,
         AgentStatusOf(log') = AgentStatusOf(log),
         loop' = "saving_failure" <=> loop = "saving_failure",
         loop' = "saving_failure" => UNCHANGED current
  PROVE  StatusInv'
<1>1. TurnCompleted(turn'.id, turn'.outcome) = TurnCompleted(turn.id, turn.outcome)
  BY DEF SameWork
<1> QED
  BY <1>1 DEF StatusInv, SameWork, Onward

\* A step of the loop that saves nothing.
LEMMA QuietStatus ==
  ASSUME PathInv, StatusInv, SameWork, UNCHANGED <<log, agentStatus>>,
         saveFailed => saveFailed', ~ LoopEnded,
         loop # "saving_failure", loop' # "saving_failure",
         loop' = "reading" => current'.type = "resume_turn" /\ Idle
  PROVE  PathInv' /\ StatusInv'
BY PathKept, StatusKept DEF Onward

\* A failure that the loop records.
LEMMA FailureStatus ==
  ASSUME IInv, PathInv, StatusInv, NEW c \in Commands, NEW done, Idle,
         loop \in {"receive", "reading"},
         RecordAgentFailure(c, FailureOf(c), done)
  PROVE  PathInv' /\ StatusInv'
<1> USE DEF RecordAgentFailure, NextCommand, Await, LoopEnded
<1>1. SameWork /\ Idle'
  BY SameTurnWork DEF SameWork
<1>2. saveFailed => saveFailed'
  BY DEF AppendItems, SaveRejects
<1>3. PathInv'
  BY <1>1, <1>2, PathKept DEF Onward
<1>4. CASE UNCHANGED log /\ loop' = "receive" /\ UNCHANGED agentStatus
  BY <1>1, <1>2, <1>4, QuietStatus
<1>5. CASE /\ AppendItems(<<AgentError(FailureOf(c))>>)
           /\ loop' = "saving_failure" /\ current' = c
  <2> DEFINE r == AgentError(FailureOf(c))
  <2>1. FailureOf(c) \in Names /\ FailureOf(c) # "failed"
    BY DEF FailureOf, Names
  <2>2. r \in RecordType /\ r.type \in StatusTypes /\ StatusOf(r) = FailureOf(c)
    BY <2>1 DEF AgentError, Rec, RecordType, RecordTypes, Names, Outcomes,
       StatusTypes, StatusOf
  <2>3. log' = log \o <<r>>
    BY <1>5 DEF AppendItems
  <2> HIDE DEF r
  <2>4. AgentStatusOf(log') = FailureOf(c)
    BY <2>2, <2>3, StatusAppends DEF IInv, TypeInv
  <2> QED
    BY <1>1, <1>3, <1>5, <2>4 DEF StatusInv
<1> QED
  BY <1>4, <1>5 DEF SaveRejects, storeVars

\* An input that is routed.
LEMMA RouteStatus ==
  ASSUME IInv, PathInv, StatusInv, NEW c \in Commands, c.type # "fail_agent",
         loop \in {"receive", "reading"}, RouteTurnInput(c)
  PROVE  PathInv' /\ StatusInv'
<1> USE DEF NextCommand, LoopEnded
<1>1. ASSUME NEW answer, AnswerInput(c, answer) PROVE PathInv' /\ StatusInv'
  BY <1>1, SameTurnWork, QuietStatus DEF AnswerInput, storeVars
<1>2. CASE StartTurn(c)
  <2>1. /\ turn'.at = "preparing" /\ turn'.pendingStart = FALSE /\ turn'.id = c.id
        /\ loop' = "receive"
    BY <1>2 DEF StartTurn, NewTurn
  <2>2. ~ Idle'
    BY <2>1, CommandsAssumption DEF Idle, NoTurn
  <2> QED
    BY <2>1, <2>2 DEF PathInv, StatusInv
<1>3. CASE CaptureFails(c) /\ Idle
  <2>1. FailureOf(c) = "Task capture failed."
    BY DEF FailureOf
  <2> QED
    BY <1>3, <2>1, FailureStatus DEF CaptureFails
<1>4. CASE AcceptSteering(c) /\ ~ Idle
  <2>1. SameWork
    BY <1>4, LoopWork DEF AcceptSteering, Steered, IInv
  <2> QED
    BY <1>4, <2>1, QuietStatus DEF AcceptSteering, storeVars
<1> QED
  BY <1>1, <1>2, <1>3, <1>4 DEF RouteTurnInput

LEMMA LoopStatus ==
  ASSUME IInv, PathInv, StatusInv, LoopStep
  PROVE  PathInv' /\ StatusInv'
<1> USE DEF NextCommand, Await, LoopEnded, Receive, bodyVars, storeVars
<1>0. TypeInv
  BY DEF IInv
<1>1. ASSUME NEW c \in Commands, DispatchInput(c) PROVE PathInv' /\ StatusInv'
  BY <1>1, RouteStatus DEF DispatchInput
<1>2. ASSUME NEW c \in Commands, DispatchResume(c) PROVE PathInv' /\ StatusInv'
  <2>1. CASE RouteTurnInput(c)
    BY <1>2, <2>1, RouteStatus DEF DispatchResume
  <2>2. CASE AnswerInput(c, "refused")
    BY <1>2, <2>2, SameTurnWork, QuietStatus DEF DispatchResume, AnswerInput
  <2>3. CASE /\ Idle /\ loop' = "reading" /\ current' = c
             /\ UNCHANGED <<turn, agentStatus, storeVars, saveFailed>>
    BY <1>2, <2>3, SameTurnWork, QuietStatus DEF DispatchResume
  <2> QED
    BY <1>2, <2>1, <2>2, <2>3 DEF DispatchResume
<1>3. ASSUME NEW c \in Commands, DispatchInterrupt(c) PROVE PathInv' /\ StatusInv'
  <2>1. SameWork
    BY <1>0, <1>3, SameTurnWork, InterruptWork DEF DispatchInterrupt
  <2> QED
    BY <1>3, <2>1, QuietStatus DEF DispatchInterrupt
<1>4. ASSUME NEW c \in Commands, DispatchFailAgent(c) PROVE PathInv' /\ StatusInv'
  <2>1. CASE Idle
    <3>1. FailureOf(c) = "agent failed"
      BY <1>4 DEF DispatchFailAgent, FailureOf
    <3> QED
      BY <1>4, <2>1, <3>1, FailureStatus DEF DispatchFailAgent
  <2>2. CASE ~ Idle
    BY <1>4, <2>2, SameTurnWork, QuietStatus DEF DispatchFailAgent, AnswerInput
  <2> QED
    BY <2>1, <2>2
<1>5. ASSUME NEW c \in Commands, DispatchAgentMessage(c) PROVE PathInv' /\ StatusInv'
  BY <1>5, SameTurnWork, QuietStatus DEF DispatchAgentMessage
<1>6. ASSUME NEW c \in Commands, DispatchForkBarrier(c) PROVE PathInv' /\ StatusInv'
  BY <1>0, <1>6, InterruptWork, QuietStatus DEF DispatchForkBarrier
<1>7. ASSUME NEW c \in Commands, DispatchShutdownIfIdle(c) PROVE PathInv' /\ StatusInv'
  BY <1>7, SameTurnWork, QuietStatus DEF DispatchShutdownIfIdle
<1>8. ASSUME NEW c \in Commands, DispatchShutdown(c) PROVE PathInv' /\ StatusInv'
  BY <1>0, <1>8, InterruptWork, QuietStatus DEF DispatchShutdown
<1>9. CASE FailureSaved
  <2>1. SameWork /\ loop' = "receive" /\ (saveFailed => saveFailed')
    <3>1. UNCHANGED turn /\ loop' = "receive"
      BY <1>9 DEF FailureSaved
    <3>2. UNCHANGED saveFailed \/ saveFailed'
      BY Zenon, <1>9 DEF FailureSaved, FlushResolves, SaveRejects
    <3> QED
      BY <3>1, <3>2, SameTurnWork
  <2>2. PathInv'
    BY <1>9, <2>1, PathKept DEF FailureSaved, Onward
  <2>3. CASE saveFailed'
    BY <2>2, <2>3 DEF StatusInv
  <2>4. CASE UNCHANGED log /\ agentStatus' = FailureOf(current) /\ UNCHANGED saveFailed
    <3>1. ~ saveFailed => Idle /\ AgentStatusOf(log) = FailureOf(current)
      BY <1>9 DEF FailureSaved, StatusInv
    <3> QED
      BY <2>1, <2>2, <2>4, <3>1 DEF StatusInv, SameWork
  <2> QED
    BY <1>9, <2>2, <2>3, <2>4 DEF FailureSaved, FlushResolves, SaveRejects, FailureOf
<1>10. CASE StoredRead
  <2>1. current \in Commands /\ current.type = "resume_turn"
    BY <1>0, <1>10 DEF StoredRead, PathInv, TypeInv
  <2>2. CASE RouteTurnInput(current)
    BY <1>10, <2>1, <2>2, RouteStatus DEF StoredRead
  <2>3. CASE \E answer : AnswerInput(current, answer)
    BY <1>10, <2>3, SameTurnWork, QuietStatus DEF StoredRead, AnswerInput
  <2> QED
    BY <1>10, <2>2, <2>3 DEF StoredRead
<1>11. CASE ForkTurnSettled \/ ForkDone \/ LoopSettled
  BY <1>11, SameTurnWork, QuietStatus DEF ForkTurnSettled, ForkDone, LoopSettled
<1>12. CASE ForkFlushed
  BY <1>12, SameTurnWork, QuietStatus DEF ForkFlushed, FlushResolves
<1>13. CASE LoopEnds
  <2>1. SameWork /\ LoopEnded' /\ (saveFailed => saveFailed') /\ loop' # "reading"
    BY <1>13, SameTurnWork DEF LoopEnds, FlushResolves, SaveRejects
  <2> QED
    BY <2>1, PathKept DEF StatusInv, Onward
<1> QED
  BY <1>1, <1>2, <1>3, <1>4, <1>5, <1>6, <1>7, <1>8, <1>9, <1>10, <1>11, <1>12,
     <1>13 DEF LoopStep

\* A step of a closure: the Turn is where it was, and what is appended says
\* nothing of the agent.
LEMMA MutationWork ==
  ASSUME IInv, MutationStep
  PROVE  /\ SameWork /\ Onward /\ UNCHANGED agentStatus
         /\ \/ UNCHANGED log
            \/ \E r \in RecordType : /\ r.type \in {"response_item", "agent_message"}
                                     /\ log' = log \o <<r>>
         /\ \/ UNCHANGED <<loop, current>>
            \/ loop = "recording_message" /\ loop' = "receive"
<1> DEFINE m == mutations[1]
<1>1. /\ mutations # <<>>
      /\ \/ RecordStarts(m) \/ RecordRefused(m) \/ RecordEnds(m) \/ InputSaved(m)
         \/ MessageStarts(m) \/ MessageKnown(m) \/ MessageSaved(m)
         \/ MessageResaved(m) \/ MessageFails(m)
  BY DEF MutationStep, RecordStarts, RecordRefused, RecordEnds, InputSaved,
     MessageStarts, MessageKnown, MessageSaved, MessageResaved, MessageFails, Running
<1>2. /\ m \in MutationType /\ m.id \in Names /\ m.turn \in Names
      /\ m.kind = "message" => loop = "recording_message"
      /\ m.kind # "message" => ~ Idle
  <2>1. 1 \in DOMAIN mutations /\ m \in MutationType
    BY <1>1, HeadFacts DEF IInv
  <2> QED
    BY <2>1 DEF IInv, QueueInv, MutationType
<1>3. ~ Idle => turn \in TurnType /\ turn.id # "none"
  BY DEF IInv, TypeInv, Idle, TurnType, Ids
<1>4. /\ ResponseItem(m.id, m.turn) \in RecordType
      /\ ResponseItem(m.id, m.turn).type = "response_item"
      /\ AgentMessage(m.id) \in RecordType
      /\ AgentMessage(m.id).type = "agent_message"
  BY <1>2 DEF ResponseItem, AgentMessage, Rec, RecordType, RecordTypes, Names, Outcomes
<1> HIDE DEF m
<1>5. ASSUME ~ Idle, turn' = [turn EXCEPT !.inputRecorded = TRUE]
      PROVE  SameWork
  BY <1>3, <1>5 DEF SameWork, Idle, NoTurn, TurnType
<1>6. ASSUME MutationEnds PROVE SameWork
  <2>1. ASSUME ~ Idle, turn' = [turn EXCEPT !.ahead = @ - 1] PROVE SameWork
    BY <1>3, <2>1 DEF SameWork, Idle, NoTurn, TurnType
  <2> QED
    BY <1>6, <2>1, SameTurnWork DEF MutationEnds
<1> USE DEF AppendItems, SaveRejects, AppendResolves, FlushResolves,
            MessageAnswered, NextCommand, loopVars, inputVars, storeVars, Onward,
            LoopEnded
<1>7. SameWork
  BY <1>1, <1>2, <1>5, <1>6, SameTurnWork DEF RecordStarts, RecordRefused,
     RecordEnds, InputSaved, MessageStarts, MessageKnown, MessageSaved,
     MessageResaved, MessageFails
<1>8. \/ UNCHANGED <<loop, current>>
      \/ loop = "recording_message" /\ loop' = "receive"
  BY <1>1, <1>2 DEF RecordStarts, RecordRefused, RecordEnds, InputSaved,
     MessageStarts, MessageKnown, MessageSaved, MessageResaved, MessageFails
<1>9. (UNCHANGED saveFailed \/ saveFailed') /\ UNCHANGED agentStatus
  BY Zenon, <1>1 DEF RecordStarts, RecordRefused, RecordEnds, InputSaved,
     MessageStarts, MessageKnown, MessageSaved, MessageResaved, MessageFails
<1>10. \/ UNCHANGED log
       \/ \E r \in RecordType : /\ r.type \in {"response_item", "agent_message"}
                                /\ log' = log \o <<r>>
  <2>1. \/ UNCHANGED log
        \/ log' = log \o <<ResponseItem(m.id, m.turn)>>
        \/ log' = log \o <<AgentMessage(m.id)>>
    BY Zenon, <1>1 DEF RecordStarts, RecordRefused, RecordEnds, InputSaved,
       MessageStarts, MessageKnown, MessageSaved, MessageResaved, MessageFails
  <2> QED
    BY <1>4, <2>1
<1>11. saveFailed => saveFailed'
  BY Zenon, <1>9
<1>12. Onward
  BY <1>8, <1>11
<1> HIDE DEF Onward
<1> QED
  BY <1>7, <1>8, <1>9, <1>10, <1>12

LEMMA MutationStatus ==
  ASSUME IInv, PathInv, StatusInv, MutationStep
  PROVE  PathInv' /\ StatusInv'
<1>1. AgentStatusOf(log') = AgentStatusOf(log)
  <2>1. ASSUME NEW r \in RecordType, r.type \in {"response_item", "agent_message"},
               log' = log \o <<r>>
        PROVE  AgentStatusOf(log') = AgentStatusOf(log)
    BY <2>1, StatusAppends DEF StatusTypes, IInv, TypeInv
  <2> QED
    BY <2>1, MutationWork
<1>2. SameWork /\ Onward /\ UNCHANGED agentStatus
  BY MutationWork
<1>3. \/ UNCHANGED <<loop, current>>
      \/ loop = "recording_message" /\ loop' = "receive"
  BY MutationWork
<1>4. PathInv'
  BY <1>2, <1>3, PathKept DEF PathInv
<1> QED
  BY <1>1, <1>2, <1>3, <1>4, StatusKept

\* A step of the task: a Turn whose saves succeed does not look for its start
\* again, and is past it when its start is not pending.
LEMMA TaskPath ==
  ASSUME IInv, PathInv, TaskStep
  PROVE  /\ UNCHANGED <<loop, current, agentStatus>>
         /\ saveFailed => saveFailed'
         /\ ~ saveFailed' =>
              /\ turn'.at \notin {"inspecting", "restarting"}
              /\ turn'.pendingStart => turn'.at = "starting"
              /\ log' # log => /\ turn.at = "preparing" /\ turn'.at = "starting"
                               /\ log' = log \o <<TurnStarted(turn.id)>>
<1> USE DEF At, Goto, TaskFrame, SavesForTurn, ChangesTurn, QueuesForTurn,
            AppendItems, SaveRejects, AppendResolves, FlushResolves, storeVars,
            loopVars
<1>1. ~ Idle /\ turn \in TurnType
  BY TaskMoves DEF IInv
<1>2. ~ saveFailed =>
        /\ turn.at \notin {"inspecting", "restarting"}
        /\ turn.pendingStart => turn.at = "starting"
  BY <1>1 DEF PathInv
<1>3. ASSUME NEW outcome \in Outcomes, turn' = Stopped(turn, outcome)
      PROVE  turn'.at = "stopped" /\ turn'.pendingStart = turn.pendingStart
  <2> DEFINE o == IF turn.aborted THEN "interrupted" ELSE outcome
  <2>1. turn' = [turn EXCEPT !.at = "stopped", !.outcome = o]
    BY <1>3 DEF Stopped
  <2> HIDE DEF o
  <2> QED
    BY <1>1, <2>1 DEF TurnType
<1>4. CASE BeginExecution
  <2>1. CASE saveFailed'
    BY <1>4, <2>1 DEF BeginExecution
  <2>2. CASE ~ saveFailed'
    <3>1. /\ turn' = [turn EXCEPT !.at = "starting", !.pendingStart = TRUE]
          /\ log' = log \o <<TurnStarted(turn.id)>>
          /\ UNCHANGED <<loop, current, agentStatus, saveFailed>>
      BY <1>4, <2>2 DEF BeginExecution
    <3> QED
      BY <1>1, <1>4, <2>2, <3>1 DEF BeginExecution, TurnType
  <2> QED
    BY <2>1, <2>2
<1>5. CASE StartSaved
  BY <1>1, <1>5 DEF StartSaved, TurnType
<1>6. CASE StartRejected
  BY <1>6 DEF StartRejected
<1>7. CASE StartInspected \/ StartRetried
  <2>1. UNCHANGED <<loop, current, agentStatus>> /\ (UNCHANGED saveFailed \/ saveFailed')
    BY Zenon, <1>7 DEF StartInspected, StartRetried
  <2>2. saveFailed
    BY <1>2, <1>7 DEF StartInspected, StartRetried
  <2> QED
    BY <2>1, <2>2
<1>8. CASE RecordInitialInput
  BY <1>1, <1>2, <1>8 DEF RecordInitialInput
<1>9. CASE TakeSteering
  BY <1>1, <1>2, <1>9 DEF TakeSteering, TurnType
<1>10. CASE RecordSteering
  BY <1>1, <1>2, <1>10 DEF RecordSteering, TurnType
<1>11. CASE RecordToolResult
  BY <1>1, <1>2, <1>11 DEF RecordToolResult, TurnType
<1>12. CASE TakeSteeringOrComplete
  BY <1>1, <1>2, <1>12 DEF TakeSteeringOrComplete, TurnType
<1>13. CASE TaskReturns \/ PromptDeclined
  BY <1>2, <1>3, <1>13 DEF TaskReturns, PromptDeclined, Outcomes
<1>14. CASE TaskThrows
  <2> DEFINE u == Stopped(turn, "failed")
             o == IF turn.aborted THEN "interrupted" ELSE "failed"
  <2>1. PICK failed : turn' = [u EXCEPT !.cleanupFailed = failed]
    BY <1>14 DEF TaskThrows
  <2>2. u = [turn EXCEPT !.at = "stopped", !.outcome = o]
    BY DEF Stopped
  <2> HIDE DEF u, o
  <2>3. turn'.at = "stopped" /\ turn'.pendingStart = turn.pendingStart
    BY <1>1, <2>1, <2>2 DEF TurnType
  <2> QED
    BY <1>2, <1>14, <2>3 DEF TaskThrows
<1> QED
  BY <1>4, <1>5, <1>6, <1>7, <1>8, <1>9, <1>10, <1>11, <1>12, <1>13, <1>14
     DEF TaskStep

LEMMA TaskStatus ==
  ASSUME IInv, PathInv, StatusInv, TaskStep
  PROVE  PathInv' /\ StatusInv'
<1>1. ~ Idle /\ turn.id # "none" /\ turn'.id = turn.id /\ turn'.at \in TaskPlaces
  BY TaskMoves DEF IInv, SameTurn, TurnType, Ids
<1>2. ~ Idle'
  BY <1>1 DEF Idle, NoTurn
<1>3. UNCHANGED <<loop, current>> /\ (saveFailed => saveFailed')
  BY TaskPath
<1>4. ~ saveFailed' =>
        /\ turn'.at \notin {"inspecting", "restarting"}
        /\ turn'.pendingStart => turn'.at = "starting"
  BY TaskPath
<1>5. PathInv'
  BY <1>1, <1>3, <1>4 DEF PathInv, TaskPlaces
<1>6. StatusInv'
  BY <1>1, <1>2, <1>3 DEF StatusInv, TaskPlaces, LoopEnded
<1> QED
  BY <1>5, <1>6

\* The end of a Turn is the last record when it has been appended.
LEMMA TerminalLast ==
  ASSUME IInv, ~ Idle, log' = log \o TerminalRecords
  PROVE  \E m \in Seq(RecordType) :
           /\ m = log \/ m = log \o <<ResponseItem(Interruption, turn.id)>>
           /\ log' = m \o <<TurnCompleted(turn.id, turn.outcome)>>
<1> DEFINE c == TurnCompleted(turn.id, turn.outcome)
           i == ResponseItem(Interruption, turn.id)
<1>1. turn.id \in Names /\ turn.outcome \in Names
  BY DEF IInv, TypeInv, Idle, TurnType, Ids, Names
<1>2. c \in RecordType /\ i \in RecordType
  BY <1>1 DEF TurnCompleted, ResponseItem, Rec, RecordType, RecordTypes, Names
<1>3. /\ log \in Seq(RecordType)
      /\ <<i>> \in Seq(RecordType) /\ <<c>> \in Seq(RecordType)
  BY <1>2 DEF IInv, TypeInv
<1>4. log \o (<<i>> \o <<c>>) = (log \o <<i>>) \o <<c>>
  BY <1>3, ConcatAssociative
<1>5. <<>> \o <<c>> = <<c>>
  BY <1>3, ConcatEmptySeq
<1>6. log \o <<i>> \in Seq(RecordType)
  BY <1>3, ConcatProperties
<1>7. log' = log \o <<c>> \/ log' = (log \o <<i>>) \o <<c>>
  BY <1>4, <1>5 DEF TerminalRecords
<1> QED
  BY <1>3, <1>6, <1>7

LEMMA SettleStatus ==
  ASSUME IInv, PathInv, StatusInv, SettleStep
  PROVE  PathInv' /\ StatusInv'
<1> USE DEF At, Goto, TaskFrame, SavesForTurn, AppendItems, SaveRejects,
            storeVars, loopVars, ReleaseTurn, LoopEnded
<1>1. ~ Idle /\ turn \in TurnType /\ turn.id # "none"
  BY IdleTurn DEF IInv, SettleStep, TaskSettled, StartFailed,
     StartFailureSaved, AppendTerminal, TerminalSaved, TerminalFlushed,
     TaskPlaces, FinishPlaces, TurnType, Ids
<1>2. UNCHANGED <<loop, current>> /\ loop # "reading"
  BY <1>1 DEF PathInv, SettleStep, TaskSettled, StartFailed, StartFailureSaved,
     AppendTerminal, TerminalSaved, TerminalFlushed
<1>3. UNCHANGED saveFailed \/ saveFailed'
  BY Zenon DEF SettleStep, TaskSettled, StartFailed, StartFailureSaved,
     AppendTerminal, TerminalSaved, TerminalFlushed, AppendResolves, FlushResolves
<1>4. CASE saveFailed'
  BY <1>2, <1>4 DEF PathInv, StatusInv
<1>5. ASSUME ~ saveFailed' /\ ~ LoopEnded
      PROVE  /\ ~ saveFailed /\ loop # "saving_failure"
             /\ turn.at \notin {"failing", "failed"}
             /\ turn.pendingStart => turn.at = "starting"
             /\ turn.at \in {"terminating", "flushing"} =>
                  AgentStatusOf(log) = StatusOf(TurnCompleted(turn.id, turn.outcome))
  BY <1>1, <1>3, <1>5 DEF PathInv, StatusInv
<1>6. ~ saveFailed' =>
        /\ turn.at \notin {"failing", "failed"}
        /\ turn.pendingStart => turn.at = "starting"
  BY <1>1, <1>3 DEF PathInv
<1>7. ASSUME NEW where \in {"terminating", "flushing"},
             turn' = [turn EXCEPT !.at = where]
      PROVE  /\ ~ Idle' /\ turn'.at = where /\ turn'.id = turn.id
             /\ turn'.outcome = turn.outcome /\ turn'.pendingStart = turn.pendingStart
  BY <1>1, <1>7 DEF Idle, NoTurn, TurnType
<1>8. CASE TaskSettled /\ ~ saveFailed'
  <2> DEFINE where == CASE turn.cleanupFailed -> "stuck"
                        [] turn.pendingStart -> "failing"
                        [] OTHER -> "draining"
             pending == turn.pendingStart /\ turn.cleanupFailed
             escalation == IF turn.escalation = "armed" THEN "ended"
                                                        ELSE turn.escalation
  <2>1. turn' = [turn EXCEPT !.accepting = FALSE, !.finishing = TRUE,
                   !.pendingStart = pending, !.ahead = Len(mutations),
                   !.escalation = escalation, !.at = where]
    BY <1>1, <1>8 DEF TaskSettled, TurnType
  <2>2. where \in {"stuck", "draining"} /\ ~ pending
    BY <1>1, <1>6, <1>8 DEF TaskSettled, TurnType
  <2> HIDE DEF where, pending, escalation
  <2>3. ~ Idle' /\ turn'.at = where /\ turn'.pendingStart = pending
    BY <1>1, <2>1 DEF Idle, NoTurn, TurnType
  <2> QED
    BY <1>2, <1>5, <1>8, <2>2, <2>3 DEF PathInv, StatusInv
<1>9. CASE AppendTerminal /\ ~ saveFailed'
  <2>1. turn' = [turn EXCEPT !.at = "terminating"] /\ log' = log \o TerminalRecords
    BY <1>9 DEF AppendTerminal
  <2> DEFINE c == TurnCompleted(turn.id, turn.outcome)
  <2>2. PICK m \in Seq(RecordType) : log' = m \o <<c>>
    BY <1>1, <2>1, TerminalLast
  <2>3. c \in RecordType /\ c.type \in StatusTypes
    BY <1>1 DEF TurnCompleted, Rec, RecordType, RecordTypes, Names, TurnType,
       Ids, StatusTypes
  <2> HIDE DEF c
  <2>4. AgentStatusOf(log') = StatusOf(c)
    BY <2>2, <2>3, StatusAppends
  <2>5. turn.at = "draining"
    BY <1>9 DEF AppendTerminal
  <2> QED
    BY <1>2, <1>5, <1>6, <1>7, <1>9, <2>1, <2>4, <2>5 DEF PathInv, StatusInv, c
<1>10. CASE TerminalSaved /\ ~ saveFailed'
  <2>1. /\ turn' = [turn EXCEPT !.at = "flushing"] /\ UNCHANGED log
        /\ turn.at = "terminating"
    BY <1>10 DEF TerminalSaved, AppendResolves
  <2> QED
    BY <1>2, <1>5, <1>6, <1>7, <1>10, <2>1 DEF PathInv, StatusInv
<1>11. CASE TerminalFlushed /\ ~ saveFailed'
  <2>1. /\ turn.at = "flushing" /\ UNCHANGED log /\ Idle'
        /\ agentStatus' = IF turn.outcome = "failed" THEN "turn failed"
                                                     ELSE turn.outcome
    BY <1>11 DEF TerminalFlushed, FlushResolves, Idle
  <2>2. agentStatus' = StatusOf(TurnCompleted(turn.id, turn.outcome))
    BY <2>1 DEF StatusOf, TurnCompleted, Rec
  <2> QED
    BY <1>2, <1>5, <1>11, <2>1, <2>2 DEF PathInv, StatusInv
<1> QED
  BY <1>4, <1>6, <1>8, <1>9, <1>10, <1>11 DEF SettleStep, StartFailed,
     StartFailureSaved

LEMMA EscalationWork ==
  ASSUME IInv, EscalationStep
  PROVE  SameWork /\ UNCHANGED <<loopVars, agentStatus, storeVars, saveFailed>>
<1>1. ~ Idle /\ turn \in TurnType /\ turn.id # "none"
  BY DEF EscalationStep, EscalationFires, EscalationEnds, IInv, TypeInv, Idle,
     TurnType, Ids
<1>2. PICK escalation, failed :
        turn' = [turn EXCEPT !.escalation = escalation, !.cleanupFailed = failed]
  <2>1. CASE EscalationFires
    <3>1. turn' = [turn EXCEPT !.escalation = "aborting",
                               !.cleanupFailed = turn.cleanupFailed]
      BY <1>1, <2>1 DEF EscalationFires, TurnType
    <3> QED
      BY <3>1
  <2>2. CASE EscalationEnds
    <3>1. PICK failed : turn' = [turn EXCEPT !.escalation = "ended",
                                             !.cleanupFailed = @ \/ failed]
      BY <2>2 DEF EscalationEnds
    <3> DEFINE f == turn.cleanupFailed \/ failed
    <3>2. turn' = [turn EXCEPT !.escalation = "ended", !.cleanupFailed = f]
      BY <1>1, <3>1 DEF TurnType
    <3> QED
      BY <3>2
  <2> QED
    BY <2>1, <2>2 DEF EscalationStep
<1>3. SameWork
  BY <1>1, <1>2 DEF SameWork, Idle, NoTurn, TurnType
<1> QED
  BY <1>3 DEF EscalationStep, EscalationFires, EscalationEnds, ChangesTurn,
     QueuesForTurn, TaskFrame

\* What no Turn and no closure does.
LEMMA OutsideWork ==
  ASSUME CallerStep \/ IdleShutdownSettles \/ UNCHANGED vars
  PROVE  /\ SameWork
         /\ UNCHANGED <<turn, loop, current, agentStatus, log, disk, saveFailed>>
<1>1. UNCHANGED <<turn, loop, current, agentStatus, log, disk, saveFailed>>
  BY DEF CallerStep, SendCommand, Shutdown, ShutdownIfIdle, IdleShutdownSettles,
     bodyVars, storeVars, loopVars, vars
<1> QED
  BY <1>1, SameTurnWork

LEMMA CrashStatus ==
  ASSUME Crash
  PROVE  PathInv' /\ StatusInv'
BY DEF Crash, Constructed, PathInv, StatusInv, Idle

LEMMA StatusInvariance == Spec => [](PathInv /\ StatusInv)
<1>1. Init => PathInv /\ StatusInv
  <2> SUFFICES ASSUME Init PROVE PathInv /\ StatusInv
    OBVIOUS
  <2>1. LastOf(StatusTypes, log) = 0
    <3>1. log \in Seq(RecordType) /\ Len(log) = 0
      BY DEF Init
    <3>2. LastOf(StatusTypes, log) \in Nat /\ LastOf(StatusTypes, log) <= Len(log)
      BY <3>1, LastFacts
    <3> QED
      BY <3>1, <3>2
  <2> QED
    BY <2>1 DEF Init, PathInv, StatusInv, AgentStatusOf, Idle
<1>2. IInv /\ PathInv /\ StatusInv /\ [Next]_vars => PathInv' /\ StatusInv'
  <2> SUFFICES ASSUME IInv, PathInv, StatusInv, [Next]_vars
               PROVE  PathInv' /\ StatusInv'
    OBVIOUS
  <2>1. CASE CallerStep \/ IdleShutdownSettles \/ UNCHANGED vars
    BY <2>1, OutsideWork, PathKept, StatusKept DEF PathInv, Onward, LoopEnded
  <2>2. CASE EscalationStep
    BY <2>2, EscalationWork, PathKept, StatusKept DEF PathInv, Onward, LoopEnded,
       loopVars, storeVars
  <2> QED
    BY <2>1, <2>2, LoopStatus, MutationStatus, TaskStatus, SettleStatus,
       CrashStatus DEF Next
<1> QED
  BY <1>1, <1>2, Invariance, PTL DEF Spec

\* Between Turns the status that #setAgentStatus has shown last is the one that
\* agentStatusFromStoredThread computes from the rollout, for any commands and
\* crashes, as long as no save has failed in the process and no failure is
\* being saved.
THEOREM StatusSurvivesReloadHolds == Spec => []StatusSurvivesReload
<1>1. StatusInv => StatusSurvivesReload
  BY DEF StatusInv, StatusSurvivesReload
<1> QED
  BY <1>1, StatusInvariance, PTL

-----------------------------------------------------------------------------
(* What a continuation follows.  The read of the rollout finds the end of   *)
(* the Turn that ended last, since a Turn is released when its end is in    *)
(* the file, and until the continuation has recorded its start no other     *)
(* Turn ends.                                                               *)

\* The request id of a continuation is nobody else's (createRequestId).
OwnResumptions ==
  \A c, d \in Commands :
    /\ c.type = "resume_turn" /\ d.id = c.id
    /\ d.type \in {"turn_input", "compact", "resume_turn"}
    => d.type = "resume_turn" /\ d.expected = c.expected

\* The last Turn to end in front of place n of the rollout is t.
Follows(l, n, t) ==
  \E e \in 1 .. n - 1 :
    /\ l[e].type = "turn_completed" /\ l[e].turn = t
    /\ \A j \in e + 1 .. n - 1 : l[j].type # "turn_completed"
Resumed(l) ==
  \A c \in Commands : c.type = "resume_turn" =>
    \A i \in 1 .. Len(l) : l[i] = TurnStarted(c.id) => Follows(l, i, c.expected)
Prepared(l) ==
  \A c \in Commands :
    c.type = "resume_turn" /\ turn.at = "preparing" /\ turn.id = c.id =>
      Follows(l, Len(l) + 1, c.expected)

\* An append that has not resolved has numbered its record.
Appending ==
  \A i \in DOMAIN mutations : mutations[i].stage = "appending" =>
    Recorded(ResponseItem(mutations[i].id, mutations[i].turn))
DiskInv ==
  /\ disk \in Nat /\ disk <= Len(log) /\ synced \in Nat
  /\ loop = "saving_failure" => Recorded(AgentError(FailureOf(current)))
  /\ Appending
Ending == turn.at \in {"terminating", "flushing"}
EndInv ==
  \A i \in DOMAIN log : log[i].type = "turn_completed" =>
    i <= disk \/ (Ending /\ log[i] = TurnCompleted(turn.id, turn.outcome))
ResumeInv == DiskInv /\ EndInv /\ Resumed(log) /\ Prepared(log)

LEMMA LongerLen ==
  ASSUME NEW R, NEW l \in Seq(R), NEW r \in R
  PROVE  Len(l) \in Nat /\ Len(l \o <<r>>) = Len(l) + 1
<1>1. <<r>> \in Seq(R) /\ Len(<<r>>) = 1
  OBVIOUS
<1> QED
  BY <1>1, ConcatProperties, LenProperties

LEMMA FollowsAppended ==
  ASSUME NEW l \in Seq(RecordType), NEW r \in RecordType, NEW t,
         NEW n \in 1 .. Len(l) + 1, Follows(l, n, t)
  PROVE  /\ Follows(l \o <<r>>, n, t)
         /\ n = Len(l) + 1 /\ r.type # "turn_completed" =>
              Follows(l \o <<r>>, Len(l \o <<r>>) + 1, t)
<1> DEFINE m == l \o <<r>>
<1>1. /\ Len(l) \in Nat
      /\ \A i \in 1 .. Len(l) : m[i] = l[i]
      /\ m[Len(l) + 1] = r
  BY Longer
<1>2. Len(m) = Len(l) + 1
  BY LongerLen
<1> HIDE DEF m
<1>3. PICK e \in 1 .. n - 1 :
        /\ l[e].type = "turn_completed" /\ l[e].turn = t
        /\ \A j \in e + 1 .. n - 1 : l[j].type # "turn_completed"
  BY DEF Follows
<1>4. /\ e \in 1 .. Len(l) /\ m[e] = l[e]
      /\ \A j \in e + 1 .. n - 1 : j \in 1 .. Len(l) /\ m[j] = l[j]
  BY <1>1
<1>5. Follows(m, n, t)
  BY <1>3, <1>4 DEF Follows
<1>6. ASSUME n = Len(l) + 1, r.type # "turn_completed"
      PROVE  Follows(m, Len(m) + 1, t)
  <2>1. \A j \in e + 1 .. Len(m) : m[j].type # "turn_completed"
    BY <1>1, <1>2, <1>3, <1>4, <1>6
  <2>2. e \in 1 .. Len(m) /\ Len(m) + 1 - 1 = Len(m)
    BY <1>1, <1>2, <1>4
  <2> QED
    BY <1>3, <1>4, <2>1, <2>2 DEF Follows
<1> QED
  BY <1>5, <1>6 DEF m

LEMMA ResumedAppended ==
  ASSUME NEW l \in Seq(RecordType), NEW r \in RecordType, Resumed(l),
         \A c \in Commands : c.type = "resume_turn" /\ r = TurnStarted(c.id) =>
           Follows(l, Len(l) + 1, c.expected)
  PROVE  Resumed(l \o <<r>>)
<1> DEFINE m == l \o <<r>>
<1>1. /\ Len(l) \in Nat
      /\ \A i \in 1 .. Len(l) : m[i] = l[i]
      /\ m[Len(l) + 1] = r
  BY Longer
<1>2. Len(m) = Len(l) + 1
  BY LongerLen
<1> HIDE DEF m
<1> SUFFICES ASSUME NEW c \in Commands, c.type = "resume_turn",
                    NEW i \in 1 .. Len(m), m[i] = TurnStarted(c.id)
             PROVE  Follows(m, i, c.expected)
  BY DEF Resumed, m
<1>3. i \in 1 .. Len(l) + 1
  BY <1>2
<1>4. Follows(l, i, c.expected)
  <2>1. CASE i = Len(l) + 1
    BY <1>1, <2>1
  <2>2. CASE i # Len(l) + 1
    <3>1. i \in 1 .. Len(l) /\ l[i] = TurnStarted(c.id)
      BY <1>1, <1>3, <2>2
    <3> QED
      BY <3>1 DEF Resumed
  <2> QED
    BY <2>1, <2>2
<1> QED
  BY <1>3, <1>4, FollowsAppended DEF m

LEMMA ResumedCut ==
  ASSUME NEW l \in Seq(RecordType), NEW n \in Nat, n <= Len(l), Resumed(l)
  PROVE  Resumed(SubSeq(l, 1, n)) /\ Len(SubSeq(l, 1, n)) = n
<1> DEFINE cut == SubSeq(l, 1, n)
<1>1. /\ Len(l) \in Nat /\ \A i \in 1 .. n : l[i] \in RecordType
  BY LenProperties, ElementOfSeq
<1>2. /\ Len(cut) = n
      /\ \A i \in 1 .. n : cut[i] = l[i]
  BY <1>1, SubSeqProperties
<1> HIDE DEF cut
<1> SUFFICES ASSUME NEW c \in Commands, c.type = "resume_turn",
                    NEW i \in 1 .. n, cut[i] = TurnStarted(c.id)
             PROVE  Follows(cut, i, c.expected)
  BY <1>2 DEF Resumed, cut
<1>3. i \in 1 .. Len(l) /\ l[i] = TurnStarted(c.id)
  BY <1>1, <1>2
<1>4. PICK e \in 1 .. i - 1 :
        /\ l[e].type = "turn_completed" /\ l[e].turn = c.expected
        /\ \A j \in e + 1 .. i - 1 : l[j].type # "turn_completed"
  BY <1>3 DEF Resumed, Follows
<1>5. \A j \in 1 .. i - 1 : j \in 1 .. n
  BY <1>1
<1>6. /\ cut[e] = l[e]
      /\ \A j \in e + 1 .. i - 1 : j \in 1 .. i - 1
  BY <1>2, <1>5
<1>7. \A j \in e + 1 .. i - 1 : cut[j] = l[j]
  BY <1>2, <1>5, <1>6
<1> QED
  BY <1>4, <1>6, <1>7 DEF Follows

\* The prefix in which the read looks holds the end of the last Turn.
LEMMA ResumableFollows ==
  ASSUME NEW l \in Seq(RecordType), NEW n \in Nat, n <= Len(l), NEW t, NEW outcomes,
         \A i \in DOMAIN l : l[i].type = "turn_completed" => i <= n,
         Resumable(SubSeq(l, 1, n), t, outcomes)
  PROVE  Follows(l, Len(l) + 1, t)
<1> DEFINE cut == SubSeq(l, 1, n)
           e == LastOf({"turn_completed"}, cut)
<1>1. /\ Len(l) \in Nat /\ DOMAIN l = 1 .. Len(l)
      /\ \A i \in 1 .. n : l[i] \in RecordType
  BY LenProperties, ElementOfSeq
<1>2. /\ cut \in Seq(RecordType) /\ Len(cut) = n
      /\ \A i \in 1 .. n : cut[i] = l[i]
  BY <1>1, SubSeqProperties
<1>3. e > 0 /\ cut[e].turn = t
  BY DEF Resumable
<1> HIDE DEF cut
<1>4. /\ e \in Nat /\ e <= n
      /\ e > 0 => cut[e].type \in {"turn_completed"}
      /\ \A i \in 1 .. n : cut[i].type \in {"turn_completed"} => i <= e
  BY <1>2, LastFacts
<1> HIDE DEF e
<1>5. /\ e \in 1 .. Len(l) + 1 - 1 /\ l[e].type = "turn_completed" /\ l[e].turn = t
  BY <1>1, <1>2, <1>3, <1>4
<1>6. \A j \in e + 1 .. Len(l) + 1 - 1 : l[j].type # "turn_completed"
  BY <1>1, <1>2, <1>4
<1> QED
  BY <1>5, <1>6 DEF Follows

LEMMA ResumedResumes ==
  ASSUME TypeInv, Resumed(log)
  PROVE  ResumesLastTurn
<1> SUFFICES ASSUME NEW c \in Commands, c.type = "resume_turn",
                    NEW i \in DOMAIN log, log[i] = TurnStarted(c.id)
             PROVE  LET before == SubSeq(log, 1, i - 1)
                        end == LastOf({"turn_completed"}, before)
                    IN end > 0 /\ before[end].turn = c.expected
  BY DEF ResumesLastTurn
<1> DEFINE before == SubSeq(log, 1, i - 1)
<1>1. /\ Len(log) \in Nat /\ DOMAIN log = 1 .. Len(log)
      /\ \A j \in 1 .. Len(log) : log[j] \in RecordType
  BY LenProperties, ElementOfSeq DEF TypeInv
<1>2. PICK e \in 1 .. i - 1 :
        /\ log[e].type = "turn_completed" /\ log[e].turn = c.expected
        /\ \A j \in e + 1 .. i - 1 : log[j].type # "turn_completed"
  BY <1>1 DEF Resumed, Follows
<1>3. /\ i - 1 \in Nat /\ i - 1 <= Len(log)
      /\ \A j \in 1 .. i - 1 : log[j] \in RecordType
  BY <1>1
<1>4. /\ before \in Seq(RecordType) /\ Len(before) = i - 1
      /\ \A j \in 1 .. i - 1 : before[j] = log[j]
  BY <1>1, <1>3, SubSeqProperties
<1> HIDE DEF before
<1>5. /\ e \in 0 .. Len(before) /\ before[e].type \in {"turn_completed"}
      /\ \A j \in e + 1 .. Len(before) : before[j].type \notin {"turn_completed"}
  BY <1>1, <1>2, <1>3, <1>4
<1>6. LastOf({"turn_completed"}, before) = e
  BY <1>4, <1>5, LastIs
<1>7. e > 0 /\ before[e].turn = c.expected
  BY <1>1, <1>2, <1>4
<1> QED
  BY <1>6, <1>7 DEF before

\* A Turn that is ending goes on to end as it does, and a Turn that has not
\* begun was there before.
Carries ==
  /\ Ending => Ending' /\ turn'.id = turn.id /\ turn'.outcome = turn.outcome
  /\ turn'.at = "preparing" => turn.at = "preparing" /\ turn'.id = turn.id

\* What a step writes that neither starts a Turn nor ends one: a record, or
\* the end of a save of what was numbered before.
Between(r) == r.type \notin {"turn_started", "turn_completed"}
Synced(n) == synced' = synced \/ synced' = AtLeast(synced, n)
Writes ==
  \/ /\ UNCHANGED log
     /\ \E n \in 0 .. Len(log) : disk' = AtLeast(disk, n) /\ Synced(n)
  \/ UNCHANGED <<disk, synced>> /\ \E r \in RecordType : Between(r) /\ log' = log \o <<r>>

LEMMA WorkCarries ==
  ASSUME SameWork
  PROVE  Carries
BY DEF SameWork, Carries, Ending

LEMMA NothingWrites ==
  ASSUME TypeInv, DiskInv, UNCHANGED storeVars
  PROVE  Writes
<1>1. disk' = AtLeast(disk, disk) /\ Synced(disk) /\ UNCHANGED log
  BY DEF DiskInv, AtLeast, Synced, storeVars
<1>2. Len(log) \in Nat
  BY LenProperties DEF TypeInv
<1>3. disk \in 0 .. Len(log)
  BY <1>2 DEF DiskInv
<1>4. \E n \in 0 .. Len(log) : disk' = AtLeast(disk, n) /\ Synced(n)
  BY Zenon, <1>1, <1>3
<1> QED
  BY Zenon, <1>1, <1>4 DEF Writes

\* A save of a record that was numbered resolves.
SavedUpTo(record) ==
  /\ Recorded(record) /\ UNCHANGED log
  /\ disk' = AtLeast(disk, Position(record)) /\ Synced(Position(record))
LEMMA SaveWrites ==
  ASSUME TypeInv, NEW record, SavedUpTo(record)
  PROVE  Writes
<1>1. Position(record) \in 0 .. Len(log)
  BY PositionFacts, LenProperties DEF TypeInv, SavedUpTo
<1> QED
  BY <1>1 DEF Writes, SavedUpTo

\* What is recorded stays so.
LEMMA RecordsStay ==
  ASSUME TypeInv, NEW r \in RecordType, log' = log \o <<r>>
  PROVE  Recorded(r)' /\ \A x : Recorded(x) => Recorded(x)'
<1>1. /\ DOMAIN log = 1 .. Len(log) /\ Len(log) \in Nat
      /\ DOMAIN log' = 1 .. Len(log) + 1
      /\ \A i \in 1 .. Len(log) : log'[i] = log[i]
      /\ log'[Len(log) + 1] = r
  BY Longer DEF TypeInv
<1>2. \A i \in DOMAIN log : i \in DOMAIN log' /\ log'[i] = log[i]
  BY <1>1
<1>3. Len(log) + 1 \in DOMAIN log'
  BY <1>1
<1> QED
  BY <1>1, <1>2, <1>3 DEF Recorded, Range

LEMMA WritesStay ==
  ASSUME TypeInv, Writes
  PROVE  \A x : Recorded(x) => Recorded(x)'
<1>1. CASE UNCHANGED log
  BY <1>1 DEF Recorded
<1> QED
  BY <1>1, RecordsStay DEF Writes

\* What such a step keeps.
LEMMA WritesKept ==
  ASSUME TypeInv, ResumeInv, Writes,
         Ending => Ending' /\ turn'.id = turn.id /\ turn'.outcome = turn.outcome,
         Appending',
         loop' = "saving_failure" => Recorded(AgentError(FailureOf(current)))'
  PROVE  DiskInv' /\ EndInv' /\ Resumed(log')
<1> USE DEF ResumeInv
<1>1. /\ DOMAIN log = 1 .. Len(log) /\ Len(log) \in Nat
      /\ disk \in Nat /\ disk <= Len(log) /\ synced \in Nat
  BY LenProperties DEF TypeInv, DiskInv
<1>2. CASE /\ UNCHANGED log
           /\ \E n \in 0 .. Len(log) : disk' = AtLeast(disk, n) /\ Synced(n)
  <2>1. disk' \in Nat /\ disk' <= Len(log) /\ disk <= disk' /\ synced' \in Nat
    BY <1>1, <1>2 DEF AtLeast, Synced
  <2>2. DiskInv'
    BY <1>2, <2>1 DEF DiskInv
  <2>3. ASSUME NEW i \in DOMAIN log, log[i].type = "turn_completed"
        PROVE  i <= disk' \/ (Ending' /\ log[i] = TurnCompleted(turn'.id, turn'.outcome))
    <3>1. i <= disk \/ (Ending /\ log[i] = TurnCompleted(turn.id, turn.outcome))
      BY <2>3 DEF EndInv
    <3> QED
      BY <1>1, <2>1, <3>1
  <2>4. EndInv'
    BY <1>2, <2>3 DEF EndInv
  <2> QED
    BY <1>2, <2>2, <2>4
<1>3. ASSUME NEW r \in RecordType, Between(r), log' = log \o <<r>>,
             UNCHANGED <<disk, synced>>
      PROVE  DiskInv' /\ EndInv' /\ Resumed(log')
  <2>1. /\ DOMAIN log' = 1 .. Len(log) + 1
        /\ \A i \in 1 .. Len(log) : log'[i] = log[i]
        /\ log'[Len(log) + 1] = r /\ Len(log') = Len(log) + 1
    BY <1>3, Longer, LongerLen DEF TypeInv
  <2>2. DiskInv'
    BY <1>1, <1>3, <2>1 DEF DiskInv
  <2>3. ASSUME NEW i \in DOMAIN log', log'[i].type = "turn_completed"
        PROVE  i <= disk \/ (Ending' /\ log'[i] = TurnCompleted(turn'.id, turn'.outcome))
    <3>1. i \in 1 .. Len(log) /\ log'[i] = log[i]
      BY <1>1, <1>3, <2>1, <2>3 DEF Between
    <3>2. i <= disk \/ (Ending /\ log[i] = TurnCompleted(turn.id, turn.outcome))
      BY <1>1, <2>3, <3>1 DEF EndInv
    <3> QED
      BY <3>1, <3>2
  <2>4. EndInv'
    BY <1>3, <2>3 DEF EndInv
  <2>5. Resumed(log')
    <3>1. \A c : r # TurnStarted(c)
      BY <1>3 DEF Between, TurnStarted, Rec
    <3> QED
      BY <1>3, <3>1, ResumedAppended DEF TypeInv
  <2> QED
    BY <2>2, <2>4, <2>5
<1> QED
  BY <1>2, <1>3 DEF Writes

LEMMA ResumeKept ==
  ASSUME TypeInv, ResumeInv, Writes, Carries, Appending',
         loop' = "saving_failure" => Recorded(AgentError(FailureOf(current)))'
  PROVE  ResumeInv'
<1>1. DiskInv' /\ EndInv' /\ Resumed(log')
  BY WritesKept DEF Carries
<1>2. ASSUME NEW c \in Commands, c.type = "resume_turn",
             turn'.at = "preparing", turn'.id = c.id
      PROVE  Follows(log', Len(log') + 1, c.expected)
  <2>1. Follows(log, Len(log) + 1, c.expected)
    BY <1>2 DEF ResumeInv, Prepared, Carries
  <2>2. CASE UNCHANGED log
    BY <2>1, <2>2
  <2>3. ASSUME NEW r \in RecordType, Between(r), log' = log \o <<r>>
        PROVE  Follows(log', Len(log') + 1, c.expected)
    <3>1. log \in Seq(RecordType) /\ Len(log) + 1 \in 1 .. Len(log) + 1
      BY LenProperties DEF TypeInv
    <3>2. r.type # "turn_completed"
      BY <2>3 DEF Between
    <3> QED
      BY <2>1, <2>3, <3>1, <3>2, FollowsAppended
  <2> QED
    BY <2>2, <2>3 DEF Writes
<1>3. Prepared(log)'
  BY <1>2 DEF Prepared
<1> QED
  BY <1>1, <1>3 DEF ResumeInv

\* A step of the loop.
LEMMA LoopSaves ==
  ASSUME IInv, PathInv, ResumeInv, LoopStep, ~ saveFailed'
  PROVE  /\ Writes
         /\ loop' = "saving_failure" => Recorded(AgentError(FailureOf(current)))'
<1> USE DEF Receive, AnswerInput, NextCommand, Await, AppendItems, SaveRejects,
            FlushResolves, bodyVars, storeVars
<1>0. TypeInv /\ DiskInv
  BY DEF IInv, ResumeInv
<1>1. ASSUME UNCHANGED storeVars, loop' # "saving_failure"
      PROVE  /\ Writes
             /\ loop' = "saving_failure" => Recorded(AgentError(FailureOf(current)))'
  BY <1>0, <1>1, NothingWrites
<1>2. ASSUME NEW c \in Commands, NEW done, RecordAgentFailure(c, FailureOf(c), done)
      PROVE  /\ Writes
             /\ loop' = "saving_failure" => Recorded(AgentError(FailureOf(current)))'
  <2>1. CASE UNCHANGED storeVars /\ loop' # "saving_failure"
    BY <1>1, <2>1
  <2>2. CASE /\ log' = log \o <<AgentError(FailureOf(c))>> /\ UNCHANGED <<disk, synced>>
             /\ current' = c
    <3> DEFINE r == AgentError(FailureOf(c))
    <3>1. r \in RecordType /\ Between(r)
      BY DEF AgentError, Rec, FailureOf, RecordType, RecordTypes, Names, Outcomes,
         Between
    <3> HIDE DEF r
    <3>2. Recorded(r)'
      BY <1>0, <2>2, <3>1, RecordsStay DEF r
    <3>3. AgentError(FailureOf(current')) = r
      BY <2>2 DEF r
    <3>4. Writes
      BY <2>2, <3>1 DEF Writes, r
    <3> QED
      BY <3>2, <3>3, <3>4
  <2> QED
    BY <1>2, <2>1, <2>2 DEF RecordAgentFailure
<1>3. ASSUME NEW c \in Commands, c.type # "fail_agent", RouteTurnInput(c)
      PROVE  /\ Writes
             /\ loop' = "saving_failure" => Recorded(AgentError(FailureOf(current)))'
  <2>1. CASE CaptureFails(c)
    <3>1. FailureOf(c) = "Task capture failed."
      BY <1>3 DEF FailureOf
    <3> QED
      BY <1>2, <2>1, <3>1 DEF CaptureFails
  <2>2. CASE ~ CaptureFails(c)
    BY <1>1, <1>3, <2>2 DEF RouteTurnInput, StartTurn, AcceptSteering
  <2> QED
    BY <2>1, <2>2
<1>4. ASSUME NEW c \in Commands,
             \/ DispatchInput(c) \/ DispatchResume(c) \/ DispatchInterrupt(c)
             \/ DispatchFailAgent(c) \/ DispatchAgentMessage(c)
             \/ DispatchForkBarrier(c) \/ DispatchShutdownIfIdle(c)
             \/ DispatchShutdown(c)
      PROVE  /\ Writes
             /\ loop' = "saving_failure" => Recorded(AgentError(FailureOf(current)))'
  <2>1. CASE DispatchInput(c)
    BY <1>3, <2>1 DEF DispatchInput
  <2>2. CASE DispatchResume(c)
    BY <1>1, <1>3, <2>2 DEF DispatchResume
  <2>3. CASE DispatchFailAgent(c)
    <3>1. FailureOf(c) = "agent failed"
      BY <2>3 DEF DispatchFailAgent, FailureOf
    <3> QED
      BY <1>1, <1>2, <2>3, <3>1 DEF DispatchFailAgent
  <2>4. CASE DispatchInterrupt(c)
    BY <1>1, <2>4 DEF DispatchInterrupt
  <2>5. CASE DispatchAgentMessage(c) \/ DispatchForkBarrier(c)
    BY <1>1, <2>5 DEF DispatchAgentMessage, DispatchForkBarrier
  <2>6. CASE DispatchShutdownIfIdle(c) \/ DispatchShutdown(c)
    BY <1>1, <2>6 DEF DispatchShutdownIfIdle, DispatchShutdown
  <2> QED
    BY <1>4, <2>1, <2>2, <2>3, <2>4, <2>5, <2>6
<1>5. CASE FailureSaved
  <2> DEFINE r == AgentError(FailureOf(current))
  <2>1. Recorded(r)
    BY <1>0, <1>5 DEF FailureSaved, DiskInv
  <2>2. SavedUpTo(r) /\ loop' # "saving_failure"
    BY <1>5, <2>1 DEF FailureSaved, FailureOf, SavedUpTo, Synced
  <2> HIDE DEF r
  <2> QED
    BY <1>0, <2>1, <2>2, SaveWrites
<1>6. CASE StoredRead
  <2>1. current \in Commands /\ current.type # "fail_agent"
    BY <1>0, <1>6 DEF StoredRead, PathInv, TypeInv
  <2> QED
    BY <1>1, <1>3, <1>6, <2>1 DEF StoredRead
<1>7. CASE ForkTurnSettled \/ ForkDone \/ LoopSettled
  BY <1>1, <1>7 DEF ForkTurnSettled, ForkDone, LoopSettled
<1>8. CASE ForkFlushed \/ LoopEnds
  <2>1. loop' # "saving_failure"
    BY <1>8 DEF ForkFlushed, LoopEnds
  <2>2. Len(log) \in 0 .. Len(log)
    BY <1>0, LenProperties DEF TypeInv
  <2>3. CASE FlushResolves(Len(log))
    <3>0. UNCHANGED log /\ disk' = AtLeast(disk, Len(log)) /\ Synced(Len(log))
      BY <2>3 DEF Synced
    <3>1. \E n \in 0 .. Len(log) : disk' = AtLeast(disk, n) /\ Synced(n)
      BY Zenon, <2>2, <3>0
    <3> QED
      BY Zenon, <2>1, <3>0, <3>1 DEF Writes
  <2> QED
    BY <1>1, <1>8, <2>1, <2>3 DEF ForkFlushed, LoopEnds
<1> QED
  BY <1>4, <1>5, <1>6, <1>7, <1>8 DEF LoopStep

\* A continuation that starts was read to follow the Turn that ended last; no
\* other Turn has its id.
LEMMA StartPrepared ==
  ASSUME OwnResumptions, IInv, PathInv, ResumeInv, LoopStep, Idle, ~ Idle'
  PROVE  Prepared(log)'
<1> USE DEF Receive, bodyVars
<1>1. ASSUME NEW c \in Commands, RouteTurnInput(c)
      PROVE  StartTurn(c)
  BY <1>1 DEF RouteTurnInput, AnswerInput, CaptureFails, RecordAgentFailure, Idle
<1>2. ASSUME NEW c \in Commands, DispatchInput(c) \/ (loop = "reading" /\ c = current),
             StartTurn(c),
             c.type = "resume_turn" => Follows(log, Len(log) + 1, c.expected)
      PROVE  Prepared(log)'
  <2>1. turn'.id = c.id /\ UNCHANGED log
    BY <1>2 DEF StartTurn, NewTurn, storeVars
  <2>2. c.type \in {"turn_input", "compact", "resume_turn"}
    BY <1>2 DEF DispatchInput, PathInv
  <2>3. ASSUME NEW d \in Commands, d.type = "resume_turn", turn'.id = d.id
        PROVE  Follows(log', Len(log') + 1, d.expected)
    BY <1>2, <2>1, <2>2, <2>3 DEF OwnResumptions
  <2> QED
    BY <2>3 DEF Prepared
<1>3. ASSUME NEW c \in Commands, DispatchInput(c) PROVE Prepared(log)'
  BY <1>1, <1>2, <1>3 DEF DispatchInput
<1>4. CASE StoredRead
  <2>1. current \in Commands /\ loop = "reading"
    BY <1>4 DEF StoredRead, IInv, TypeInv
  <2>2. /\ Resumable(SubSeq(log, 1, disk), current.expected, {"interrupted", "failed"})
        /\ RouteTurnInput(current)
    BY <1>4 DEF StoredRead, AnswerInput, Idle
  <2>3. \A i \in DOMAIN log : log[i].type = "turn_completed" => i <= disk
    BY DEF ResumeInv, EndInv, Ending, Idle, NoTurn
  <2>4. Follows(log, Len(log) + 1, current.expected)
    BY <2>2, <2>3, ResumableFollows DEF ResumeInv, DiskInv, IInv, TypeInv
  <2> QED
    BY <1>1, <1>2, <2>1, <2>2, <2>4
<1>5. ASSUME NEW c \in Commands, DispatchResume(c) PROVE Prepared(log)'
  BY <1>5 DEF DispatchResume, RouteTurnInput, AnswerInput, Idle
<1>6. CASE \E c \in Commands :
             \/ DispatchInterrupt(c) \/ DispatchFailAgent(c)
             \/ DispatchAgentMessage(c) \/ DispatchForkBarrier(c)
             \/ DispatchShutdownIfIdle(c) \/ DispatchShutdown(c)
  BY <1>6 DEF DispatchInterrupt, DispatchFailAgent, DispatchAgentMessage,
     DispatchForkBarrier, DispatchShutdownIfIdle, DispatchShutdown,
     InterruptActiveTurn, RecordAgentFailure, Idle
<1>7. CASE FailureSaved \/ ForkTurnSettled \/ ForkFlushed \/ ForkDone
           \/ LoopSettled \/ LoopEnds
  BY <1>7 DEF FailureSaved, ForkTurnSettled, ForkFlushed, ForkDone, LoopSettled,
     LoopEnds, Idle
<1> QED
  BY <1>3, <1>4, <1>5, <1>6, <1>7 DEF LoopStep

LEMMA LoopResumes ==
  ASSUME OwnResumptions, IInv, PathInv, ResumeInv, LoopStep, ~ saveFailed'
  PROVE  ResumeInv'
<1>1. TypeInv
  BY DEF IInv
<1>2. Writes /\ (loop' = "saving_failure" => Recorded(AgentError(FailureOf(current)))')
  BY LoopSaves
<1>3. Appending'
  <2> SUFFICES ASSUME NEW i \in DOMAIN mutations', mutations'[i].stage = "appending"
               PROVE  Recorded(ResponseItem(mutations[i].id, mutations[i].turn))'
    BY DEF Appending
  <2>1. i \in DOMAIN mutations /\ mutations'[i] = mutations[i]
    <3>1. CASE UNCHANGED mutations
      BY <3>1
    <3>2. ASSUME NEW m \in MutationType, mutations' = mutations \o <<m>>,
                 m.stage = "queued"
          PROVE  i \in DOMAIN mutations /\ mutations'[i] = mutations[i]
      BY <1>1, <3>2, QueueLonger
    <3>3. ASSUME NEW c \in Commands,
                 mutations' = Append(mutations,
                   [kind |-> "message", id |-> c.id, turn |-> "none",
                    stage |-> "queued"])
          PROVE  \E m \in MutationType :
                   m.stage = "queued" /\ mutations' = mutations \o <<m>>
      <4> DEFINE m == [kind |-> "message", id |-> c.id, turn |-> "none",
                       stage |-> "queued"]
      <4>1. m \in MutationType /\ m.stage = "queued"
        BY CommandsAssumption DEF CommandType, MutationType, Names, Outcomes
      <4>2. mutations' = Append(mutations, m)
        BY <3>3
      <4> HIDE DEF m
      <4> QED
        BY <1>1, <4>1, <4>2, AppendIsConcat DEF TypeInv
    <3> QED
      BY <1>1, <3>1, <3>2, <3>3, LoopTurns
  <2> QED
    BY <1>1, <1>2, <2>1, WritesStay DEF ResumeInv, DiskInv, Appending
<1>4. CASE Carries
  BY <1>1, <1>2, <1>3, <1>4, ResumeKept
<1>5. CASE Idle /\ ~ Idle'
  <2>1. ~ Ending
    BY <1>5 DEF Ending, Idle, NoTurn
  <2> QED
    BY <1>1, <1>2, <1>3, <1>5, <2>1, StartPrepared, WritesKept DEF ResumeInv
<1>6. Carries \/ (Idle /\ ~ Idle')
  <2>1. ASSUME NEW c \in Commands, turn' = NewTurn(c) PROVE ~ Idle'
    BY <2>1, CommandsAssumption DEF NewTurn, Idle, NoTurn
  <2> QED
    BY <1>1, <2>1, LoopTurns, SameTurnWork, LoopWork, WorkCarries
<1> QED
  BY <1>4, <1>5, <1>6

\* A closure that goes on to another stage, or ends.
LEMMA StageAppends ==
  ASSUME TypeInv, Appending, mutations # <<>>, NEW stage \in Stages, Stage(stage),
         \A x : Recorded(x) => Recorded(x)',
         stage = "appending" =>
           Recorded(ResponseItem(mutations[1].id, mutations[1].turn))'
  PROVE  Appending'
<1> SUFFICES ASSUME NEW i \in DOMAIN mutations', mutations'[i].stage = "appending"
             PROVE  Recorded(ResponseItem(mutations[i].id, mutations[i].turn))'
  BY DEF Appending
<1>1. /\ i \in DOMAIN mutations
      /\ mutations'[i].id = mutations[i].id /\ mutations'[i].turn = mutations[i].turn
      /\ IF i = 1 THEN stage = "appending" ELSE mutations'[i] = mutations[i]
  BY StageFacts
<1>2. CASE i = 1
  <2>1. ResponseItem(mutations[1].id, mutations[1].turn)'
          = ResponseItem(mutations[1].id, mutations[1].turn)
    BY <1>1, <1>2
  <2> QED
    BY <1>1, <1>2, <2>1
<1>3. CASE i # 1
  BY <1>1, <1>3 DEF Appending
<1> QED
  BY <1>2, <1>3

LEMMA EndAppends ==
  ASSUME TypeInv, Appending, mutations # <<>>, MutationEnds,
         \A x : Recorded(x) => Recorded(x)'
  PROVE  Appending'
<1> SUFFICES ASSUME NEW i \in DOMAIN mutations', mutations'[i].stage = "appending"
             PROVE  Recorded(ResponseItem(mutations[i].id, mutations[i].turn))'
  BY DEF Appending
<1>1. i \in 1 .. Len(mutations) - 1 /\ mutations'[i] = mutations[i + 1]
  BY EndFacts
<1>2. i + 1 \in DOMAIN mutations
  BY <1>1, LenProperties DEF TypeInv
<1>3. Recorded(ResponseItem(mutations[i + 1].id, mutations[i + 1].turn))
  BY <1>1, <1>2 DEF Appending
<1> QED
  BY <1>1, <1>3

LEMMA MutationResumes ==
  ASSUME IInv, ResumeInv, MutationStep, ~ saveFailed'
  PROVE  ResumeInv'
<1> DEFINE m == mutations[1]
           r == ResponseItem(m.id, m.turn)
           a == AgentMessage(m.id)
<1>0. TypeInv /\ DiskInv /\ Appending
  BY DEF IInv, ResumeInv, DiskInv
<1>1. /\ mutations # <<>>
      /\ \/ RecordStarts(m) \/ RecordRefused(m) \/ RecordEnds(m) \/ InputSaved(m)
         \/ MessageStarts(m) \/ MessageKnown(m) \/ MessageSaved(m)
         \/ MessageResaved(m) \/ MessageFails(m)
  BY DEF MutationStep, RecordStarts, RecordRefused, RecordEnds, InputSaved,
     MessageStarts, MessageKnown, MessageSaved, MessageResaved, MessageFails, Running
<1>2. m \in MutationType /\ (m.stage = "appending" => Recorded(r))
  BY <1>0, <1>1, HeadFacts DEF Appending
<1>3. /\ r \in RecordType /\ Between(r) /\ a \in RecordType /\ Between(a)
  <2>1. m.id \in Names /\ m.turn \in Names /\ "none" \in Names
    BY <1>2 DEF MutationType, Names, Outcomes
  <2> HIDE DEF m
  <2> QED
    BY <2>1 DEF ResponseItem, AgentMessage, Rec, RecordType, RecordTypes, Between
<1>4. SameWork /\ (\/ UNCHANGED <<loop, current>>
                   \/ loop = "recording_message" /\ loop' = "receive")
  BY MutationWork
<1> HIDE DEF r, a
<1> USE DEF AppendItems, SaveRejects, AppendResolves, FlushResolves,
            MessageAnswered, storeVars, SavedUpTo, Synced
<1>5. /\ \/ UNCHANGED storeVars
         \/ SavedUpTo(r)
         \/ SavedUpTo(a)
         \/ UNCHANGED <<disk, synced>> /\ log' = log \o <<r>>
         \/ UNCHANGED <<disk, synced>> /\ log' = log \o <<a>>
      /\ \/ UNCHANGED mutations
         \/ MutationEnds
         \/ Stage("flushing")
         \/ Stage("appending") /\ log' = log \o <<r>>
  <2>1. CASE RecordStarts(m)
    BY <2>1 DEF RecordStarts, r
  <2>2. CASE RecordRefused(m)
    BY <2>2 DEF RecordRefused
  <2>3. CASE RecordEnds(m)
    BY <1>2, <2>3 DEF RecordEnds, r
  <2>4. CASE InputSaved(m)
    BY <1>2, <2>4 DEF InputSaved, r
  <2>5. CASE MessageStarts(m)
    BY <2>5 DEF MessageStarts, a
  <2>6. CASE MessageKnown(m) \/ MessageSaved(m) \/ MessageResaved(m)
    BY <2>6 DEF MessageKnown, MessageSaved, MessageResaved, a
  <2>7. CASE MessageFails(m)
    BY <2>7 DEF MessageFails
  <2> QED
    BY <1>1, <2>1, <2>2, <2>3, <2>4, <2>5, <2>6, <2>7
<1> HIDE DEF SavedUpTo, storeVars
<1>6. Writes
  <2>1. ASSUME NEW x \in RecordType, Between(x), UNCHANGED <<disk, synced>>,
               log' = log \o <<x>>
        PROVE  Writes
    BY <2>1 DEF Writes
  <2> QED
    BY <1>0, <1>3, <1>5, <2>1, NothingWrites, SaveWrites
<1>7. \A x : Recorded(x) => Recorded(x)'
  BY <1>0, <1>6, WritesStay
<1>8. Appending'
  <2>1. CASE UNCHANGED mutations
    BY <1>0, <1>7, <2>1 DEF Appending
  <2>2. CASE Stage("appending") /\ log' = log \o <<r>>
    <3>1. PICK x \in RecordType : x = r
      BY <1>3
    <3>2. Recorded(x)'
      BY <1>0, <2>2, <3>1, RecordsStay
    <3>3. r' = x
      BY <1>0, <1>1, <2>2, <3>1, StageFacts, HeadFacts DEF r, Stages
    <3>4. Recorded(r)'
      BY <3>2, <3>3
    <3> QED
      BY <1>0, <1>1, <1>7, <2>2, <3>4, StageAppends DEF Stages, r
  <2>3. CASE MutationEnds
    BY <1>0, <1>1, <1>7, <2>3, EndAppends
  <2>4. CASE Stage("flushing")
    BY <1>0, <1>1, <1>7, <2>4, StageAppends DEF Stages
  <2> QED
    BY <1>5, <2>1, <2>2, <2>3, <2>4
<1>9. loop' = "saving_failure" => Recorded(AgentError(FailureOf(current)))'
  <2>1. loop' = "saving_failure" => UNCHANGED <<loop, current>>
    BY <1>4
  <2> QED
    BY <1>0, <1>7, <2>1 DEF DiskInv
<1> QED
  BY <1>0, <1>4, <1>6, <1>8, <1>9, WorkCarries, ResumeKept

\* A step of the task.
LEMMA TaskSaves ==
  ASSUME IInv, PathInv, TaskStep, ~ saveFailed'
  PROVE  \/ UNCHANGED storeVars
         \/ SavedUpTo(TurnStarted(turn.id))
         \/ UNCHANGED <<disk, synced>> /\ turn.at = "preparing"
            /\ turn'.at = "starting" /\ log' = log \o <<TurnStarted(turn.id)>>
<1> USE DEF At, Goto, SavesForTurn, ChangesTurn, QueuesForTurn, AppendItems,
            SaveRejects, AppendResolves, FlushResolves, storeVars,
            SavedUpTo, Synced
<1>1. ~ Idle /\ turn \in TurnType /\ ~ saveFailed
  BY TaskMoves, TaskPath DEF IInv
<1>2. CASE BeginExecution
  BY <1>1, <1>2 DEF BeginExecution, TurnType
<1>3. CASE StartSaved
  <2>1. /\ turn.at = "starting" /\ UNCHANGED <<log, synced>>
        /\ disk' = AtLeast(disk, Position(TurnStarted(turn.id)))
    BY <1>3 DEF StartSaved
  <2>2. PICK s \in DOMAIN log : StartOf(log, s, turn.id)
    BY <1>1, <2>1 DEF IInv, TurnInv, Begun
  <2>3. /\ log[s] \in RecordType /\ log[s].type = "turn_started"
        /\ log[s].turn = turn.id /\ log[s].id = turn.id
    BY <2>2, LenProperties, ElementOfSeq
       DEF IInv, TypeInv, LogInv, LogOK, RecordOK, StartOf
  <2>4. log[s] = TurnStarted(turn.id)
    BY <2>3 DEF TurnStarted, Rec, RecordType
  <2>5. Recorded(TurnStarted(turn.id))
    BY <2>4 DEF Recorded, Range
  <2> QED
    BY <2>1, <2>5
<1>4. CASE StartRejected
  BY <1>4 DEF StartRejected
<1>5. ~ StartInspected /\ ~ StartRetried
  BY <1>1 DEF StartInspected, StartRetried, PathInv
<1>6. CASE RecordInitialInput \/ TakeSteering \/ RecordSteering \/ RecordToolResult
           \/ TakeSteeringOrComplete \/ TaskReturns \/ PromptDeclined \/ TaskThrows
  BY <1>6 DEF RecordInitialInput, TakeSteering, RecordSteering, RecordToolResult,
     TakeSteeringOrComplete, TaskReturns, PromptDeclined, TaskThrows
<1> QED
  BY <1>2, <1>3, <1>4, <1>5, <1>6 DEF TaskStep

LEMMA TaskResumes ==
  ASSUME IInv, PathInv, ResumeInv, TaskStep, ~ saveFailed'
  PROVE  ResumeInv'
<1> DEFINE r == TurnStarted(turn.id)
<1>1. /\ TypeInv /\ DiskInv /\ Appending /\ ~ Idle /\ turn.id \in Names
      /\ turn.at \in TaskPlaces /\ UNCHANGED <<loop, current>> /\ turn'.id = turn.id
      /\ turn'.at = "preparing" => turn.at = "preparing"
      /\ UNCHANGED mutations \/ QueuesOne
  BY TaskMoves DEF IInv, ResumeInv, DiskInv, SameTurn, TurnType, Ids, Names
<1>2. Carries /\ ~ Ending
  BY <1>1 DEF Carries, Ending, TaskPlaces
<1>3. r \in RecordType /\ r.type = "turn_started"
  BY <1>1 DEF TurnStarted, Rec, RecordType, RecordTypes
<1>4. ASSUME \A x : Recorded(x) => Recorded(x)' PROVE Appending'
  <2> SUFFICES ASSUME NEW i \in DOMAIN mutations', mutations'[i].stage = "appending"
               PROVE  Recorded(ResponseItem(mutations[i].id, mutations[i].turn))'
    BY DEF Appending
  <2>1. i \in DOMAIN mutations /\ mutations'[i] = mutations[i]
    <3>1. CASE UNCHANGED mutations
      BY <3>1
    <3>2. CASE QueuesOne
      <4>1. PICK m \in MutationType :
              mutations' = mutations \o <<m>> /\ m.stage = "queued"
        BY <3>2 DEF QueuesOne
      <4> QED
        BY <1>1, <4>1, QueueLonger
    <3> QED
      BY <1>1, <3>1, <3>2
  <2> QED
    BY <1>1, <1>4, <2>1 DEF Appending
<1>5. CASE Writes
  <2>1. \A x : Recorded(x) => Recorded(x)'
    BY <1>1, <1>5, WritesStay
  <2>2. loop' = "saving_failure" => Recorded(AgentError(FailureOf(current)))'
    BY <1>1, <2>1 DEF DiskInv
  <2> QED
    BY <1>1, <1>2, <1>4, <1>5, <2>1, <2>2, ResumeKept
<1>6. CASE UNCHANGED <<disk, synced>> /\ turn.at = "preparing" /\ turn'.at = "starting"
           /\ log' = log \o <<r>>
  <2> HIDE DEF r
  <2>1. \A x : Recorded(x) => Recorded(x)'
    BY <1>1, <1>3, <1>6, RecordsStay
  <2>2. /\ DOMAIN log = 1 .. Len(log) /\ Len(log) \in Nat
        /\ DOMAIN log' = 1 .. Len(log) + 1 /\ Len(log') = Len(log) + 1
        /\ \A i \in 1 .. Len(log) : log'[i] = log[i]
        /\ log'[Len(log) + 1] = r
    BY <1>1, <1>3, <1>6, Longer, LongerLen DEF TypeInv
  <2>3. DiskInv'
    BY <1>1, <1>4, <1>6, <2>1, <2>2 DEF DiskInv
  <2>4. EndInv'
    BY <1>2, <1>3, <1>6, <2>2 DEF ResumeInv, EndInv
  <2>5. Resumed(log')
    <3>1. ASSUME NEW c \in Commands, c.type = "resume_turn", r = TurnStarted(c.id)
          PROVE  Follows(log, Len(log) + 1, c.expected)
      <4>1. turn.id = c.id
        BY <3>1 DEF r, TurnStarted, Rec
      <4> QED
        BY <1>6, <3>1, <4>1 DEF ResumeInv, Prepared
    <3> QED
      BY <1>1, <1>3, <1>6, <3>1, ResumedAppended DEF ResumeInv, TypeInv
  <2>6. Prepared(log)'
    BY <1>6 DEF Prepared
  <2> QED
    BY <2>3, <2>4, <2>5, <2>6 DEF ResumeInv
<1> QED
  BY <1>1, <1>5, <1>6, TaskSaves, NothingWrites, SaveWrites

\* The end of a Turn is appended, and the Turn is released when it is saved.
LEMMA TerminalResumes ==
  ASSUME IInv, ResumeInv, ~ Idle, turn.at = "draining", log' = log \o TerminalRecords,
         UNCHANGED <<disk, synced, mutations, loop, current>>,
         turn'.at = "terminating", turn'.id = turn.id, turn'.outcome = turn.outcome
  PROVE  ResumeInv'
<1> DEFINE c == TurnCompleted(turn.id, turn.outcome)
           s == ResponseItem(Interruption, turn.id)
<1>1. PICK m \in Seq(RecordType) : (m = log \/ m = log \o <<s>>) /\ log' = m \o <<c>>
  BY TerminalLast
<1>2. c \in RecordType /\ s \in RecordType
  <2>1. turn.id \in Names /\ turn.outcome \in Names
    BY DEF IInv, TypeInv, Idle, TurnType, Ids, Names
  <2> QED
    BY <2>1 DEF TurnCompleted, ResponseItem, Rec, RecordType, RecordTypes, Names
<1>3. /\ \A d : c # TurnStarted(d) /\ s # TurnStarted(d)
      /\ s.type # "turn_completed"
  BY DEF TurnCompleted, ResponseItem, TurnStarted, Rec
<1>4. c = TurnCompleted(turn'.id, turn'.outcome)
  OBVIOUS
<1> HIDE DEF c, s
<1>5. /\ log \in Seq(RecordType) /\ Len(log) \in Nat /\ DOMAIN log = 1 .. Len(log)
      /\ Len(m) \in Nat /\ DOMAIN m = 1 .. Len(m)
      /\ disk \in Nat /\ disk <= Len(log)
  BY LenProperties DEF IInv, TypeInv, ResumeInv, DiskInv
<1>6. /\ Len(log) <= Len(m)
      /\ \A i \in 1 .. Len(log) : m[i] = log[i]
      /\ \A i \in 1 .. Len(m) : i \in 1 .. Len(log) \/ m[i] = s
  <2>1. CASE m = log
    BY <1>5, <2>1
  <2>2. CASE m = log \o <<s>>
    <3>1. /\ Len(m) = Len(log) + 1 /\ m[Len(log) + 1] = s
          /\ \A i \in 1 .. Len(log) : m[i] = log[i]
      BY <1>2, <1>5, <2>2, Longer, LongerLen
    <3> QED
      BY <1>5, <3>1
  <2> QED
    BY <1>1, <2>1, <2>2
<1>7. /\ DOMAIN log' = 1 .. Len(m) + 1 /\ Len(log') = Len(m) + 1
      /\ \A i \in 1 .. Len(m) : log'[i] = m[i]
      /\ log'[Len(m) + 1] = c
  BY <1>1, <1>2, Longer, LongerLen
<1>8. \A x : Recorded(x) => Recorded(x)'
  <2>1. \A i \in DOMAIN log : i \in DOMAIN log' /\ log'[i] = log[i]
    BY <1>5, <1>6, <1>7
  <2> QED
    BY <2>1 DEF Recorded, Range
<1>9. DiskInv'
  <2>1. Appending'
    BY <1>8 DEF ResumeInv, DiskInv, Appending
  <2>2. disk' \in Nat /\ disk' <= Len(log') /\ synced' \in Nat
    BY <1>5, <1>6, <1>7 DEF ResumeInv, DiskInv
  <2>3. loop' = "saving_failure" => Recorded(AgentError(FailureOf(current)))'
    BY <1>8 DEF ResumeInv, DiskInv
  <2> QED
    BY <2>1, <2>2, <2>3 DEF DiskInv
<1>10. EndInv'
  <2>1. ASSUME NEW i \in DOMAIN log', log'[i].type = "turn_completed"
        PROVE  i <= disk \/ log'[i] = c
    <3>1. CASE i = Len(m) + 1
      BY <1>7, <3>1
    <3>2. CASE i # Len(m) + 1
      <4>1. i \in 1 .. Len(m) /\ log'[i] = m[i]
        BY <1>5, <1>7, <3>2
      <4>2. i \in 1 .. Len(log) /\ m[i] = log[i]
        BY <1>3, <1>6, <2>1, <4>1
      <4> QED
        BY <1>5, <2>1, <4>1, <4>2 DEF ResumeInv, EndInv, Ending
    <3> QED
      BY <3>1, <3>2
  <2>2. Ending'
    BY DEF Ending
  <2> QED
    BY <1>4, <2>1, <2>2 DEF EndInv
<1>11. Resumed(log')
  <2>1. Resumed(m)
    BY <1>1, <1>2, <1>3, <1>5, ResumedAppended DEF ResumeInv
  <2> QED
    BY <1>1, <1>2, <1>3, <2>1, ResumedAppended
<1>12. Prepared(log)'
  BY DEF Prepared
<1> QED
  BY <1>9, <1>10, <1>11, <1>12 DEF ResumeInv

LEMMA ReleasedResumes ==
  ASSUME IInv, ResumeInv, TerminalFlushed, ~ saveFailed'
  PROVE  ResumeInv'
<1> DEFINE c == TurnCompleted(turn.id, turn.outcome)
           n == IF Recorded(c) THEN Position(c) ELSE 0
<1>1. /\ turn' = NoTurn /\ UNCHANGED <<log, mutations, loop, current>>
      /\ disk' = AtLeast(disk, n) /\ synced' = AtLeast(synced, n)
  BY DEF TerminalFlushed, FlushResolves, SaveRejects, ReleaseTurn, TaskFrame, loopVars
<1>2. /\ Len(log) \in Nat /\ DOMAIN log = 1 .. Len(log)
      /\ disk \in Nat /\ disk <= Len(log) /\ synced \in Nat
  BY LenProperties DEF IInv, TypeInv, ResumeInv, DiskInv
<1> HIDE DEF c
<1>3. Recorded(c) =>
        /\ Position(c) \in DOMAIN log
        /\ \A j \in DOMAIN log : log[j] = c => j <= Position(c)
  BY PositionFacts DEF IInv
<1>4. n \in Nat /\ n <= Len(log)
  BY <1>2, <1>3
<1>5. \A j \in DOMAIN log : log[j] = c => j <= n
  BY <1>3 DEF Recorded, Range
<1> HIDE DEF n
<1>6. /\ disk' \in Nat /\ disk' <= Len(log) /\ disk <= disk' /\ n <= disk'
      /\ synced' \in Nat
  BY <1>1, <1>2, <1>4 DEF AtLeast
<1>7. DiskInv'
  BY <1>1, <1>6 DEF ResumeInv, DiskInv, Appending, Recorded
<1>8. EndInv'
  <2>1. ASSUME NEW i \in DOMAIN log, log[i].type = "turn_completed" PROVE i <= disk'
    <3>1. i <= disk \/ log[i] = c
      BY <2>1 DEF ResumeInv, EndInv, c
    <3>2. i \in Nat
      BY <1>2
    <3> QED
      BY <1>2, <1>4, <1>5, <1>6, <3>1, <3>2
  <2> QED
    BY <1>1, <2>1 DEF EndInv
<1>9. Resumed(log')
  BY <1>1 DEF ResumeInv
<1>10. Prepared(log)'
  BY <1>1 DEF Prepared, NoTurn
<1> QED
  BY <1>7, <1>8, <1>9, <1>10 DEF ResumeInv

LEMMA SettleResumes ==
  ASSUME IInv, PathInv, ResumeInv, SettleStep, ~ saveFailed'
  PROVE  ResumeInv'
<1> USE DEF At, Goto, TaskFrame, SavesForTurn, AppendItems, SaveRejects,
            AppendResolves, FlushResolves, storeVars, loopVars
<1>0. TypeInv /\ DiskInv
  BY DEF IInv, ResumeInv
<1>1. ~ Idle /\ turn \in TurnType
  BY IdleTurn DEF IInv, SettleStep, TaskSettled, StartFailed,
     StartFailureSaved, AppendTerminal, TerminalSaved, TerminalFlushed,
     TaskPlaces, FinishPlaces
<1>2. UNCHANGED saveFailed \/ saveFailed'
  BY Zenon DEF SettleStep, TaskSettled, StartFailed, StartFailureSaved,
     AppendTerminal, TerminalSaved, TerminalFlushed
<1>3. ~ saveFailed
  BY <1>2
<1>4. turn.at \notin {"failing", "failed"}
  BY <1>1, <1>3 DEF PathInv
<1>5. ASSUME Writes, Carries, UNCHANGED <<mutations, loop, current>>
      PROVE  ResumeInv'
  <2>1. \A x : Recorded(x) => Recorded(x)'
    BY <1>0, <1>5, WritesStay
  <2>2. Appending' /\ (loop' = "saving_failure" => Recorded(AgentError(FailureOf(current)))')
    BY <1>0, <1>5, <2>1 DEF DiskInv, Appending
  <2> QED
    BY <1>0, <1>5, <2>2, ResumeKept
<1>6. CASE TaskSettled
  <2>1. /\ turn.at = "stopped" /\ UNCHANGED <<storeVars, mutations, loop, current>>
    BY <1>6 DEF TaskSettled
  <2> DEFINE where == CASE turn.cleanupFailed -> "stuck"
                        [] turn.pendingStart -> "failing"
                        [] OTHER -> "draining"
             pending == turn.pendingStart /\ turn.cleanupFailed
             escalation == IF turn.escalation = "armed" THEN "ended"
                                                        ELSE turn.escalation
  <2>2. turn' = [turn EXCEPT !.accepting = FALSE, !.finishing = TRUE,
                   !.pendingStart = pending, !.ahead = Len(mutations),
                   !.escalation = escalation, !.at = where]
    BY <1>1, <1>6 DEF TaskSettled, TurnType
  <2>3. where # "preparing"
    BY <1>1 DEF TurnType
  <2> HIDE DEF where, pending, escalation
  <2>4. turn'.at = where
    BY <1>1, <2>2 DEF TurnType
  <2>5. Carries
    BY <2>1, <2>3, <2>4 DEF Carries, Ending
  <2> QED
    BY <1>0, <1>5, <2>1, <2>5, NothingWrites
<1>7. ~ StartFailed /\ ~ StartFailureSaved
  BY <1>4 DEF StartFailed, StartFailureSaved
<1>8. ASSUME NEW where \in {"terminating", "flushing"},
             turn' = [turn EXCEPT !.at = where]
      PROVE  /\ turn'.at = where /\ turn'.id = turn.id
             /\ turn'.outcome = turn.outcome
  BY <1>1, <1>8 DEF TurnType
<1>9. CASE AppendTerminal
  <2>1. /\ turn' = [turn EXCEPT !.at = "terminating"] /\ turn.at = "draining"
        /\ log' = log \o TerminalRecords
        /\ UNCHANGED <<disk, synced, mutations, loop, current>>
    BY <1>9 DEF AppendTerminal
  <2> QED
    BY <1>1, <1>8, <2>1, TerminalResumes
<1>10. CASE TerminalSaved
  <2> DEFINE c == TurnCompleted(turn.id, turn.outcome)
  <2>1. /\ turn' = [turn EXCEPT !.at = "flushing"]
        /\ SavedUpTo(c) /\ UNCHANGED <<mutations, loop, current>>
    BY <1>10 DEF TerminalSaved, SavedUpTo, Synced
  <2>2. Carries
    BY <1>8, <2>1 DEF Carries, Ending
  <2> HIDE DEF c
  <2> QED
    BY <1>0, <1>5, <2>1, <2>2, SaveWrites
<1> QED
  BY <1>6, <1>7, <1>9, <1>10, ReleasedResumes DEF SettleStep

LEMMA CrashResumes ==
  ASSUME IInv, ResumeInv, Crash
  PROVE  ResumeInv'
<1>1. PICK n \in synced .. Len(log) :
        /\ log' = SubSeq(log, 1, n) /\ disk' = n
        /\ mutations' = <<>> /\ turn' = NoTurn /\ loop' = "receive"
        /\ UNCHANGED synced
  BY DEF Crash, Constructed
<1>2. n \in Nat /\ n <= Len(log) /\ log \in Seq(RecordType) /\ synced \in Nat
  BY <1>1, LenProperties DEF IInv, TypeInv, ResumeInv, DiskInv
<1>3. Resumed(log') /\ Len(log') = n
  BY <1>1, <1>2, ResumedCut DEF ResumeInv
<1>4. log' \in Seq(RecordType)
  BY <1>1, <1>2, LenProperties, ElementOfSeq, SubSeqProperties
<1>5. DOMAIN log' = 1 .. n
  BY <1>3, <1>4, LenProperties
<1>6. DiskInv' /\ EndInv'
  BY <1>1, <1>2, <1>3, <1>5 DEF DiskInv, Appending, EndInv
<1>7. Prepared(log)'
  BY <1>1 DEF Prepared, NoTurn
<1> QED
  BY <1>3, <1>6, <1>7 DEF ResumeInv

\* A Session that resumes a Turn (resume_turn) continues the Turn that ended
\* last, although the loop awaits the read of the rollout before it starts the
\* continuation, for any commands and crashes: as long as no save has failed
\* (a Turn whose end was numbered but not saved is missed by the read), and
\* with request ids that no other command uses.
THEOREM ResumesLastTurnHolds ==
  ASSUME OwnResumptions
  PROVE  Spec /\ [](~ saveFailed) => []ResumesLastTurn
<1>1. Init => ResumeInv
  BY DEF Init, ResumeInv, DiskInv, Appending, EndInv, Resumed, Prepared, NoTurn
<1>2. IInv /\ PathInv /\ ResumeInv /\ ~ saveFailed /\ (~ saveFailed)' /\ [Next]_vars
        => ResumeInv'
  <2> SUFFICES ASSUME IInv, PathInv, ResumeInv, ~ saveFailed', [Next]_vars
               PROVE  ResumeInv'
    BY Zenon
  <2>1. ASSUME SameWork, UNCHANGED <<storeVars, mutations, loop, current>>
        PROVE  ResumeInv'
    <3>1. Writes
      BY <2>1, NothingWrites DEF IInv, ResumeInv
    <3>2. /\ Appending'
          /\ loop' = "saving_failure" => Recorded(AgentError(FailureOf(current)))'
      BY <2>1 DEF ResumeInv, DiskInv, Appending, Recorded, storeVars
    <3> QED
      BY <2>1, <3>1, <3>2, WorkCarries, ResumeKept DEF IInv
  <2>2. CASE CallerStep \/ IdleShutdownSettles \/ UNCHANGED vars
    <3>1. UNCHANGED <<storeVars, mutations, loop, current>>
      BY <2>2 DEF CallerStep, SendCommand, Shutdown, ShutdownIfIdle,
         IdleShutdownSettles, bodyVars, vars, loopVars
    <3> QED
      BY <2>1, <2>2, <3>1, OutsideWork
  <2>3. CASE EscalationStep
    <3>1. UNCHANGED mutations
      BY <2>3 DEF EscalationStep, EscalationFires, EscalationEnds, ChangesTurn
    <3> QED
      BY <2>1, <2>3, <3>1, EscalationWork DEF loopVars
  <2> QED
    BY <2>2, <2>3, LoopResumes, MutationResumes, TaskResumes, SettleResumes,
       CrashResumes DEF Next
<1>3. IInv /\ ResumeInv => ResumesLastTurn
  BY ResumedResumes DEF IInv, ResumeInv
<1> QED
  BY <1>1, <1>2, <1>3, Invariance, StatusInvariance, PTL DEF Spec

-----------------------------------------------------------------------------
(* The records that RecordsOf picks.  It is a recursive function; that there  *)
(* is one, and what it makes of a longer rollout, is shown with the smallest *)
(* place where it fails.                                                     *)

Picks(types, but, r) == r.type \in types /\ r.id \notin but
\* f does what the recursive function does up to place n of l.
Picked(f, types, but, l, n) ==
  f = [i \in 0 .. n |->
         IF i = 0 THEN <<>>
         ELSE IF Picks(types, but, l[i]) THEN Append(f[i - 1], l[i]) ELSE f[i - 1]]

LEMMA SmallestNat ==
  ASSUME NEW S \in SUBSET Nat, S # {}
  PROVE  \E n \in S : \A k \in S : n <= k
<1>1. PICK n \in S : \A k \in S : <<k, n>> \notin OpToRel(<, Nat)
  BY ZenonT(30), WFMin, NatLessThanWellFounded
<1>2. \A k \in S : ~ (k < n)
  BY Zenon, <1>1 DEF OpToRel
<1>3. \A k \in S : n <= k
  BY <1>2
<1> QED
  BY Zenon, <1>3

LEMMA PickedUpTo ==
  ASSUME NEW types, NEW but, NEW l, NEW n \in Nat
  PROVE  \E f : Picked(f, types, but, l, n)
<1> DEFINE S == {k \in Nat : ~ \E f : Picked(f, types, but, l, k)}
<1>1. ASSUME S # {} PROVE FALSE
  <2>1. PICK k \in S : \A j \in S : k <= j
    BY <1>1, SmallestNat
  <2>2. CASE k = 0
    <3> DEFINE f == [i \in 0 .. 0 |-> <<>>]
    <3>1. Picked(f, types, but, l, 0)
      BY DEF Picked
    <3> QED
      BY <2>2, <3>1
  <2>3. CASE k # 0
    <3>1. k - 1 \in Nat /\ k - 1 \notin S
      BY <2>1, <2>3
    <3>2. PICK g : Picked(g, types, but, l, k - 1)
      BY <3>1
    <3> DEFINE f == [i \in 0 .. k |->
                       IF i < k THEN g[i]
                       ELSE IF Picks(types, but, l[k]) THEN Append(g[k - 1], l[k])
                                                       ELSE g[k - 1]]
               h == [i \in 0 .. k |->
                       IF i = 0 THEN <<>>
                       ELSE IF Picks(types, but, l[i]) THEN Append(f[i - 1], l[i])
                                                       ELSE f[i - 1]]
    <3>3. \A i \in 0 .. k - 1 : f[i] = g[i]
      OBVIOUS
    <3>4. ASSUME NEW i \in 0 .. k PROVE f[i] = h[i]
      <4>1. CASE i = 0
        <5>1. 0 \in 0 .. k - 1 /\ g[0] = <<>>
          BY <3>1, <3>2 DEF Picked
        <5> QED
          BY <3>3, <4>1, <5>1
      <4>2. CASE i \in 1 .. k - 1
        <5>1. i - 1 \in 0 .. k - 1 /\ i \in 0 .. k - 1 /\ i # 0
          BY <4>2
        <5>2. g[i] = IF Picks(types, but, l[i]) THEN Append(g[i - 1], l[i]) ELSE g[i - 1]
          BY <3>2, <5>1 DEF Picked
        <5>3. f[i] = g[i] /\ f[i - 1] = g[i - 1]
          BY <3>3, <5>1
        <5>4. h[i] = IF Picks(types, but, l[i]) THEN Append(f[i - 1], l[i]) ELSE f[i - 1]
          BY <5>1
        <5> HIDE DEF f, h
        <5> QED
          BY <5>2, <5>3, <5>4
      <4>3. CASE i = k
        <5>1. k - 1 \in 0 .. k - 1 /\ k \in 0 .. k /\ ~ (k < k)
          BY <3>1
        <5>2. f[k] = IF Picks(types, but, l[k]) THEN Append(g[k - 1], l[k]) ELSE g[k - 1]
          BY <5>1
        <5>3. f[k - 1] = g[k - 1]
          BY <3>3, <5>1
        <5>4. h[k] = IF Picks(types, but, l[k]) THEN Append(f[k - 1], l[k]) ELSE f[k - 1]
          BY <2>3, <5>1
        <5> HIDE DEF f, h
        <5> QED
          BY <4>3, <5>2, <5>3, <5>4
      <4> QED
        BY <3>1, <4>1, <4>2, <4>3
    <3>5. f = h
      BY <3>4
    <3>6. Picked(f, types, but, l, k)
      BY <3>5 DEF Picked
    <3> QED
      BY <3>6
  <2> QED
    BY <2>2, <2>3
<1> QED
  BY <1>1

\* Two of them agree where the rollouts do.
LEMMA PickedSame ==
  ASSUME NEW types, NEW but, NEW l, NEW m, NEW n \in Nat, NEW k \in Nat, NEW f, NEW g,
         Picked(f, types, but, l, n), Picked(g, types, but, m, k), n <= k,
         \A i \in 1 .. n : m[i] = l[i]
  PROVE  \A i \in 0 .. n : g[i] = f[i]
<1> DEFINE S == {i \in 0 .. n : g[i] # f[i]}
<1>1. ASSUME S # {} PROVE FALSE
  <2>0. S \in SUBSET Nat
    OBVIOUS
  <2> HIDE DEF S
  <2>1. PICK i \in S : \A j \in S : i <= j
    BY <1>1, <2>0, SmallestNat
  <2>2. i \in 0 .. n /\ i \in 0 .. k /\ g[i] # f[i]
    BY DEF S
  <2>3. i # 0
    BY <2>2 DEF Picked
  <2>4. /\ i - 1 \in 0 .. n /\ i - 1 \in 0 .. k /\ i \in 1 .. n
        /\ i - 1 \notin S
    BY <2>1, <2>2, <2>3
  <2>5. g[i - 1] = f[i - 1] /\ m[i] = l[i]
    BY <2>4 DEF S
  <2>6. g[i] = IF Picks(types, but, m[i]) THEN Append(g[i - 1], m[i]) ELSE g[i - 1]
    BY <2>2, <2>3 DEF Picked
  <2>7. f[i] = IF Picks(types, but, l[i]) THEN Append(f[i - 1], l[i]) ELSE f[i - 1]
    BY <2>2, <2>3 DEF Picked
  <2> QED
    BY <2>2, <2>5, <2>6, <2>7
<1> QED
  BY <1>1

LEMMA RecordsPicked ==
  ASSUME NEW types, NEW but, NEW l
  PROVE  RecordsOf(types, but, l)
           = (CHOOSE f : Picked(f, types, but, l, Len(l)))[Len(l)]
BY DEF RecordsOf, Picked, Picks

\* What is picked from a rollout, when it is empty and when it has one more.
LEMMA RecordsFacts ==
  ASSUME NEW types, NEW but, NEW l \in Seq(RecordType)
  PROVE  /\ RecordsOf(types, but, l) \in Seq(RecordType)
         /\ Len(l) = 0 => RecordsOf(types, but, l) = <<>>
         /\ \A r \in RecordType :
              RecordsOf(types, but, l \o <<r>>)
                = IF Picks(types, but, r) THEN Append(RecordsOf(types, but, l), r)
                                          ELSE RecordsOf(types, but, l)
<1> DEFINE n == Len(l)
           f == CHOOSE f : Picked(f, types, but, l, n)
<1>1. n \in Nat /\ \A i \in 1 .. n : l[i] \in RecordType
  BY LenProperties, ElementOfSeq
<1>2. RecordsOf(types, but, l) = f[n]
  BY RecordsPicked
<1>3. Picked(f, types, but, l, n)
  BY <1>1, PickedUpTo
<1> HIDE DEF f
<1>4. f[0] = <<>>
  BY <1>1, <1>3 DEF Picked
<1>5. f[n] \in Seq(RecordType)
  <2> DEFINE S == {i \in 0 .. n : f[i] \notin Seq(RecordType)}
  <2>1. ASSUME S # {} PROVE FALSE
    <3>0. S \in SUBSET Nat
      BY <1>1
    <3> HIDE DEF S, n
    <3>1. PICK i \in S : \A j \in S : i <= j
      BY <2>1, <3>0, SmallestNat
    <3>2. i # 0 /\ i \in 0 .. n
      <4>1. <<>> \in Seq(RecordType)
        OBVIOUS
      <4> QED
        BY <1>4, <4>1 DEF S
    <3>3. i - 1 \in 0 .. n /\ i - 1 \notin S /\ i \in 0 .. n /\ l[i] \in RecordType
      BY <1>1, <3>1, <3>2
    <3>4. f[i] = IF Picks(types, but, l[i]) THEN Append(f[i - 1], l[i]) ELSE f[i - 1]
      BY <1>3, <3>2, <3>3 DEF Picked
    <3>5. f[i - 1] \in Seq(RecordType)
      BY <3>3 DEF S
    <3>6. f[i] \in Seq(RecordType)
      BY <3>3, <3>4, <3>5
    <3> QED
      BY <3>6 DEF S
  <2>2. n \in 0 .. n
    BY <1>1
  <2> QED
    BY <2>1, <2>2
<1>6. ASSUME NEW r \in RecordType
      PROVE  RecordsOf(types, but, l \o <<r>>)
               = IF Picks(types, but, r) THEN Append(f[n], r) ELSE f[n]
  <2> DEFINE m == l \o <<r>>
             g == CHOOSE g : Picked(g, types, but, m, n + 1)
  <2>1. Len(m) = n + 1 /\ m[n + 1] = r /\ \A i \in 1 .. n : m[i] = l[i]
    BY <1>1, Longer, LongerLen
  <2>2. RecordsOf(types, but, m) = g[n + 1]
    BY <2>1, RecordsPicked
  <2> HIDE DEF m, n
  <2>3. Picked(g, types, but, m, n + 1)
    <3>1. n + 1 \in Nat
      BY <1>1
    <3>2. \E h : Picked(h, types, but, m, n + 1)
      BY <3>1, PickedUpTo
    <3> QED
      BY <3>2
  <2> HIDE DEF g
  <2>4. n \in 0 .. n /\ n + 1 \in 0 .. n + 1 /\ n + 1 # 0 /\ n + 1 - 1 = n
    BY <1>1
  <2>5. g[n] = f[n]
    <3> DEFINE k == n + 1
    <3>1. k \in Nat /\ n <= k /\ \A i \in 1 .. n : m[i] = l[i]
      BY <1>1, <2>1
    <3>2. Picked(g, types, but, m, k)
      BY <2>3
    <3> HIDE DEF k
    <3>3. \A i \in 0 .. n : g[i] = f[i]
      BY <1>1, <1>3, <3>1, <3>2, PickedSame
    <3> QED
      BY <2>4, <3>3
  <2>6. g[n + 1] = IF Picks(types, but, m[n + 1]) THEN Append(g[n], m[n + 1]) ELSE g[n]
    <3> DEFINE h == [i \in 0 .. n + 1 |->
                       IF i = 0 THEN <<>>
                       ELSE IF Picks(types, but, m[i]) THEN Append(g[i - 1], m[i])
                                                       ELSE g[i - 1]]
    <3>1. g = h
      BY <2>3 DEF Picked
    <3>2. h[n + 1] = IF Picks(types, but, m[n + 1]) THEN Append(g[n + 1 - 1], m[n + 1])
                                                    ELSE g[n + 1 - 1]
      BY <2>4
    <3> HIDE DEF h
    <3> QED
      BY <2>4, <3>1, <3>2
  <2> QED
    BY <2>1, <2>2, <2>5, <2>6 DEF m, n
<1> QED
  BY <1>2, <1>4, <1>5, <1>6

\* A second selection that leaves out more makes the first superfluous.
LEMMA RecordsTwice ==
  ASSUME NEW types, NEW but, NEW l \in Seq(RecordType)
  PROVE  RecordsOf(types, but, RecordsOf(types, {}, l)) = RecordsOf(types, but, l)
<1> DEFINE n == Len(l)
           cut(i) == SubSeq(l, 1, i)
           S == {i \in 0 .. n :
                   RecordsOf(types, but, RecordsOf(types, {}, cut(i)))
                     # RecordsOf(types, but, cut(i))}
<1>1. n \in Nat /\ \A i \in 1 .. n : l[i] \in RecordType
  BY LenProperties, ElementOfSeq
<1>2. ASSUME NEW i \in 0 .. n
      PROVE  /\ cut(i) \in Seq(RecordType) /\ Len(cut(i)) = i
             /\ i # 0 => cut(i) = cut(i - 1) \o <<l[i]>>
  <2>1. /\ cut(i) \in Seq(RecordType) /\ Len(cut(i)) = i
        /\ \A j \in 1 .. i : cut(i)[j] = l[j]
    BY <1>1, SubSeqProperties
  <2>2. ASSUME i # 0 PROVE cut(i) = cut(i - 1) \o <<l[i]>>
    <3>1. i - 1 \in 0 .. n /\ l[i] \in RecordType /\ i - 1 + 1 = i
      BY <1>1, <2>2
    <3>2. /\ cut(i - 1) \in Seq(RecordType) /\ Len(cut(i - 1)) = i - 1
          /\ \A j \in 1 .. i - 1 : cut(i - 1)[j] = l[j]
      BY <1>1, <3>1, SubSeqProperties
    <3> DEFINE m == cut(i - 1) \o <<l[i]>>
    <3> HIDE DEF cut
    <3>3. /\ m \in Seq(RecordType) /\ Len(m) = i /\ m[i] = l[i]
          /\ \A j \in 1 .. i - 1 : m[j] = l[j]
      BY <3>1, <3>2, Longer, LongerLen
    <3> HIDE DEF m
    <3>4. \A j \in 1 .. i : m[j] = cut(i)[j]
      BY <2>1, <3>1, <3>3
    <3>5. m = cut(i)
      BY <2>1, <3>3, <3>4, SeqEqual
    <3> QED
      BY <3>5 DEF m
  <2> QED
    BY <2>1, <2>2
<1> HIDE DEF cut
<1>3. ASSUME S # {} PROVE FALSE
  <2>0. S \in SUBSET Nat
    BY <1>1
  <2> HIDE DEF S
  <2>1. PICK i \in S : \A j \in S : i <= j
    BY <1>3, <2>0, SmallestNat
  <2>2. i \in 0 .. n /\ cut(i) \in Seq(RecordType) /\ Len(cut(i)) = i
    BY <1>2 DEF S
  <2>3. CASE i = 0
    <3>1. RecordsOf(types, {}, cut(0)) = <<>> /\ RecordsOf(types, but, cut(0)) = <<>>
      BY <2>2, <2>3, RecordsFacts
    <3>2. <<>> \in Seq(RecordType) /\ Len(<<>>) = 0
      OBVIOUS
    <3>3. RecordsOf(types, but, <<>>) = <<>>
      BY <3>2, RecordsFacts
    <3> QED
      BY <2>3, <3>1, <3>3 DEF S
  <2>4. CASE i # 0
    <3> DEFINE c == cut(i - 1)
               k == RecordsOf(types, {}, c)
    <3>1. /\ i - 1 \in 0 .. n /\ i - 1 \notin S
          /\ l[i] \in RecordType
      BY <1>1, <2>1, <2>2, <2>4
    <3>2. c \in Seq(RecordType) /\ cut(i) = c \o <<l[i]>>
      BY <1>2, <2>2, <2>4, <3>1
    <3>3. RecordsOf(types, but, k) = RecordsOf(types, but, c)
      BY <3>1 DEF S
    <3> HIDE DEF c
    <3>4. /\ RecordsOf(types, but, cut(i))
               = IF Picks(types, but, l[i]) THEN Append(RecordsOf(types, but, c), l[i])
                                            ELSE RecordsOf(types, but, c)
          /\ RecordsOf(types, {}, cut(i))
               = IF Picks(types, {}, l[i]) THEN Append(k, l[i]) ELSE k
          /\ k \in Seq(RecordType)
      BY <3>1, <3>2, RecordsFacts
    <3> HIDE DEF k
    <3>5. Append(k, l[i]) = k \o <<l[i]>>
      BY <3>1, <3>4, AppendIsConcat
    <3>6. RecordsOf(types, but, k \o <<l[i]>>)
            = IF Picks(types, but, l[i]) THEN Append(RecordsOf(types, but, k), l[i])
                                         ELSE RecordsOf(types, but, k)
      BY <3>1, <3>4, RecordsFacts
    <3>7. Picks(types, but, l[i]) => Picks(types, {}, l[i])
      BY DEF Picks
    <3> QED
      BY <2>1, <3>3, <3>4, <3>5, <3>6, <3>7 DEF S
  <2> QED
    BY <2>3, <2>4
<1>4. n \in 0 .. n /\ cut(n) = l
  <2>1. SubSeq(l, 1, Len(l)) = l
    <3>1. /\ SubSeq(l, 1, n) \in Seq(RecordType) /\ Len(SubSeq(l, 1, n)) = n
          /\ \A j \in 1 .. n : SubSeq(l, 1, n)[j] = l[j]
      BY <1>1, SubSeqProperties
    <3> QED
      BY <3>1, SeqEqual
  <2> QED
    BY <1>1, <2>1 DEF cut
<1> QED
  BY <1>3, <1>4

-----------------------------------------------------------------------------
(* The model's history.  One closure runs at a time; the record of a tool    *)
(* result or of steering is in the rollout first and in the history when its *)
(* append has resolved, and meanwhile no other closure writes.  A message    *)
(* whose save is waited for is in both.                                      *)

\* The running closure has numbered a record that it will add to the history.
Behind ==
  /\ mutations # <<>> /\ mutations[1].kind \in {"tool", "steering"}
  /\ mutations[1].stage = "appending"
Added ==
  IF Behind THEN Append(history, ResponseItem(mutations[1].id, mutations[1].turn))
            ELSE history
QueuesInv == \A i \in DOMAIN mutations : i # 1 => mutations[i].stage = "queued"
\* As long as saves succeed: no closure saves again, accepted messages are in
\* the rollout, and what is queued is in both in the same order.
QueuedInv ==
  \A i \in DOMAIN mutations :
    mutations[i].kind # "message" => mutations[i].stage \in {"queued", "appending"}
SavesInv ==
  /\ QueuedInv
  /\ \A id \in accepted : Recorded(AgentMessage(id))
  /\ QueueOrdered(Added) = QueueOrdered(log)
HistoryInv ==
  history \in Seq(RecordType) /\ QueuesInv /\ (~ saveFailed => SavesInv)

\* One more record, in the order of the queue.
Ordered(r) == Picks(Conversation, {Interruption}, r)
LEMMA OrderedFacts ==
  ASSUME NEW l \in Seq(RecordType), NEW r \in RecordType
  PROVE  QueueOrdered(l \o <<r>>)
           = IF Ordered(r) THEN Append(QueueOrdered(l), r) ELSE QueueOrdered(l)
BY RecordsFacts DEF QueueOrdered, Ordered

LEMMA OrderedLonger ==
  ASSUME NEW l \in Seq(RecordType), NEW m \in Seq(RecordType), NEW r \in RecordType,
         QueueOrdered(l) = QueueOrdered(m)
  PROVE  /\ QueueOrdered(Append(l, r)) = QueueOrdered(m \o <<r>>)
         /\ ~ Ordered(r) => /\ QueueOrdered(Append(l, r)) = QueueOrdered(m)
                            /\ QueueOrdered(l) = QueueOrdered(m \o <<r>>)
<1>1. Append(l, r) = l \o <<r>>
  BY AppendIsConcat
<1>2. QueueOrdered(l \o <<r>>)
        = IF Ordered(r) THEN Append(QueueOrdered(l), r) ELSE QueueOrdered(l)
  BY OrderedFacts
<1>3. QueueOrdered(m \o <<r>>)
        = IF Ordered(r) THEN Append(QueueOrdered(m), r) ELSE QueueOrdered(m)
  BY OrderedFacts
<1> QED
  BY <1>1, <1>2, <1>3

\* A step that leaves the history and the running closure alone, and appends
\* at most a record that is not in the queue's order.
LEMMA HistoryKept ==
  ASSUME TypeInv, HistoryInv, UNCHANGED <<history, accepted>>,
         saveFailed => saveFailed', QueuesInv',
         \/ UNCHANGED log
         \/ \E r \in RecordType : ~ Ordered(r) /\ log' = log \o <<r>>,
         \A i \in DOMAIN mutations' :
           \/ i \in DOMAIN mutations /\ mutations'[i] = mutations[i]
           \/ mutations'[i].stage = "queued",
         \A i \in DOMAIN mutations :
           i \in DOMAIN mutations' /\ mutations'[i] = mutations[i],
         DOMAIN mutations' = 1 .. Len(mutations')
  PROVE  HistoryInv'
<1> SUFFICES ASSUME ~ saveFailed' PROVE SavesInv'
  BY DEF HistoryInv
<1>1. history \in Seq(RecordType) /\ SavesInv
  BY DEF HistoryInv
<1>2. /\ Added \in Seq(RecordType) /\ log \in Seq(RecordType)
      /\ Added' = Added
  <2>1. DOMAIN mutations = 1 .. Len(mutations) /\ Len(mutations) \in Nat
    BY LenProperties DEF TypeInv
  <2>2. (mutations # <<>>) => 1 \in DOMAIN mutations /\ mutations[1] \in MutationType
    BY HeadFacts
  <2>3. CASE mutations # <<>>
    <3>1. 1 \in DOMAIN mutations' /\ mutations'[1] = mutations[1]
      BY <2>2, <2>3
    <3>2. mutations' # <<>>
      BY <3>1
    <3>3. ResponseItem(mutations[1].id, mutations[1].turn) \in RecordType
      BY <2>2, <2>3 DEF ResponseItem, Rec, RecordType, RecordTypes, MutationType
    <3>4. Added \in Seq(RecordType)
      BY <1>1, <3>3 DEF Added
    <3>5. Added' = Added
      BY <2>3, <3>1, <3>2 DEF Added, Behind, ResponseItem
    <3> QED
      BY <3>4, <3>5 DEF TypeInv
  <2>4. CASE mutations = <<>>
    <3>1. ~ Behind /\ ~ Behind'
      <4>1. DOMAIN mutations = {}
        BY <2>4
      <4>2. 1 \in DOMAIN mutations' => mutations'[1].stage = "queued"
        BY <4>1
      <4> QED
        BY <2>4, <4>2 DEF Behind
    <3> QED
      BY <1>1, <3>1 DEF Added, TypeInv
  <2> QED
    BY <2>3, <2>4
<1>3. CASE UNCHANGED log
  BY <1>1, <1>2, <1>3 DEF SavesInv, QueuedInv, Recorded
<1>4. ASSUME NEW r \in RecordType, ~ Ordered(r), log' = log \o <<r>>
      PROVE  SavesInv'
  <2>1. \A x : Recorded(x) => Recorded(x)'
    BY <1>4, RecordsStay
  <2>2. QueueOrdered(Added) = QueueOrdered(log \o <<r>>)
    BY <1>1, <1>2, <1>4, OrderedLonger DEF SavesInv
  <2> QED
    BY <1>1, <1>2, <1>4, <2>1, <2>2 DEF SavesInv, QueuedInv
<1> QED
  BY <1>3, <1>4

\* A step that adds a record to both, or an interruption to the history.
LEMMA HistoryAdds ==
  ASSUME TypeInv, HistoryInv, ~ saveFailed, Added \in Seq(RecordType), QueuedInv',
         \A id \in accepted' : id \in accepted \/ Recorded(AgentMessage(id))',
         \/ UNCHANGED log /\ Added' = Added
         \/ \E r \in RecordType : log' = log \o <<r>> /\ Added' = Append(Added, r)
         \/ \E r \in RecordType :
              ~ Ordered(r) /\ UNCHANGED log /\ Added' = Append(Added, r)
  PROVE  SavesInv'
<1>1. SavesInv /\ log \in Seq(RecordType)
  BY DEF HistoryInv, TypeInv
<1>2. CASE UNCHANGED log
  <2>1. \A x : Recorded(x)' <=> Recorded(x)
    BY <1>2 DEF Recorded
  <2>2. QueueOrdered(Added') = QueueOrdered(log)
    <3>1. CASE Added' = Added
      BY <1>1, <3>1 DEF SavesInv
    <3>2. ASSUME NEW r \in RecordType, ~ Ordered(r), Added' = Append(Added, r)
          PROVE  QueueOrdered(Added') = QueueOrdered(log)
      BY <1>1, <3>2, OrderedLonger DEF SavesInv
    <3>3. ASSUME NEW r \in RecordType, log' = log \o <<r>> PROVE FALSE
      <4>1. Len(log') = Len(log) + 1 /\ Len(log) \in Nat
        BY <1>1, <3>3, LongerLen, LenProperties
      <4> QED
        BY <1>2, <4>1
    <3> QED
      BY <3>1, <3>2, <3>3
  <2> QED
    BY <1>1, <1>2, <2>1, <2>2 DEF SavesInv, QueuedInv
<1>3. ASSUME NEW r \in RecordType, log' = log \o <<r>>, Added' = Append(Added, r)
      PROVE  SavesInv'
  <2>1. \A x : Recorded(x) => Recorded(x)'
    BY <1>3, RecordsStay
  <2>2. QueueOrdered(Added') = QueueOrdered(log')
    BY <1>1, <1>3, OrderedLonger DEF SavesInv
  <2> QED
    BY <1>1, <2>1, <2>2 DEF SavesInv, QueuedInv
<1> QED
  BY <1>2, <1>3

\* A closure that ends leaves one that has not begun, if any.
LEMMA EndQueues ==
  ASSUME TypeInv, QueuesInv, mutations # <<>>, MutationEnds
  PROVE  /\ QueuesInv' /\ ~ Behind'
         /\ QueuedInv => QueuedInv'
<1>1. \A i \in DOMAIN mutations' :
        i + 1 \in DOMAIN mutations /\ i + 1 # 1 /\ mutations'[i] = mutations[i + 1]
  BY EndFacts, HeadFacts
<1>2. \A i \in DOMAIN mutations' : mutations'[i].stage = "queued"
  BY <1>1 DEF QueuesInv
<1>3. (mutations' # <<>>) => 1 \in DOMAIN mutations'
  <2>1. mutations' \in Seq(MutationType)
    BY EndFacts
  <2> QED
    BY <2>1, LenProperties, EmptySeq
<1> QED
  BY <1>1, <1>2, <1>3 DEF QueuesInv, Behind, QueuedInv

LEMMA StageQueues ==
  ASSUME TypeInv, QueuesInv, mutations # <<>>, NEW stage \in Stages, Stage(stage)
  PROVE  /\ QueuesInv' /\ mutations' # <<>>
         /\ mutations'[1].kind = mutations[1].kind /\ mutations'[1].id = mutations[1].id
         /\ mutations'[1].turn = mutations[1].turn /\ mutations'[1].stage = stage
         /\ QueuedInv /\ (mutations[1].kind # "message" => stage \in {"queued", "appending"})
              => QueuedInv'
<1>1. 1 \in DOMAIN mutations /\ DOMAIN mutations' = DOMAIN mutations
  BY HeadFacts, StageFacts
<1>2. mutations' # <<>>
  BY <1>1
<1> QED
  BY <1>1, <1>2, StageFacts DEF QueuesInv, QueuedInv

\* What a closure does to the history while saves succeed.
LEMMA MutationAdds ==
  ASSUME IInv, HistoryInv, MutationStep, ~ saveFailed, ~ saveFailed'
  PROVE  SavesInv'
<1> DEFINE m == mutations[1]
           r == ResponseItem(m.id, m.turn)
           a == AgentMessage(m.id)
<1>0. TypeInv /\ QueuesInv /\ SavesInv /\ history \in Seq(RecordType)
  BY DEF IInv, HistoryInv
<1>1. /\ mutations # <<>>
      /\ \/ RecordStarts(m) \/ RecordRefused(m) \/ RecordEnds(m) \/ InputSaved(m)
         \/ MessageStarts(m) \/ MessageKnown(m) \/ MessageSaved(m)
         \/ MessageResaved(m) \/ MessageFails(m)
  BY DEF MutationStep, RecordStarts, RecordRefused, RecordEnds, InputSaved,
     MessageStarts, MessageKnown, MessageSaved, MessageResaved, MessageFails, Running
<1>2. /\ 1 \in DOMAIN mutations /\ m \in MutationType
      /\ m.kind # "message" => m.stage \in {"queued", "appending"}
  BY <1>0, <1>1, HeadFacts DEF SavesInv, QueuedInv
<1>3. r \in RecordType /\ a \in RecordType
  <2>1. m.id \in Names /\ m.turn \in Names /\ "none" \in Names
    BY <1>2 DEF MutationType, Names, Outcomes
  <2> HIDE DEF m
  <2> QED
    BY <2>1 DEF ResponseItem, AgentMessage, Rec, RecordType, RecordTypes
<1>4. /\ Behind <=> m.kind \in {"tool", "steering"} /\ m.stage = "appending"
      /\ Added = IF Behind THEN Append(history, r) ELSE history
      /\ Added \in Seq(RecordType)
  <2>1. /\ Behind <=> m.kind \in {"tool", "steering"} /\ m.stage = "appending"
        /\ Added = IF Behind THEN Append(history, r) ELSE history
    BY <1>1 DEF Behind, Added
  <2> HIDE DEF r
  <2> QED
    BY <1>0, <1>3, <2>1, AppendProperties
<1>5. ASSUME MutationEnds
      PROVE  Added' = history' /\ QueuedInv'
  BY <1>0, <1>1, <1>5, EndQueues DEF Added, SavesInv
<1>6. ASSUME NEW stage \in {"appending", "flushing"}, Stage(stage),
             (m.kind # "message") => stage = "appending"
      PROVE  /\ QueuedInv'
             /\ Added' = IF m.kind \in {"tool", "steering"} /\ stage = "appending"
                         THEN Append(history', r) ELSE history'
  <2>1. /\ QueuedInv' /\ mutations' # <<>>
        /\ mutations'[1].kind = m.kind /\ mutations'[1].id = m.id
        /\ mutations'[1].turn = m.turn /\ mutations'[1].stage = stage
    BY <1>0, <1>1, <1>6, StageQueues DEF Stages, SavesInv
  <2>2. Behind' <=> m.kind \in {"tool", "steering"} /\ stage = "appending"
    BY <2>1 DEF Behind
  <2>3. ResponseItem(mutations'[1].id, mutations'[1].turn) = r
    BY <2>1
  <2>4. Added' = IF Behind' THEN Append(history', ResponseItem(mutations'[1].id, mutations'[1].turn))
                            ELSE history'
    BY DEF Added, ResponseItem, Rec
  <2> QED
    BY <2>1, <2>2, <2>3, <2>4
<1>7. ASSUME UNCHANGED <<log, accepted>>, Added' = Added, QueuedInv' PROVE SavesInv'
  BY <1>0, <1>4, <1>7, HistoryAdds
<1>8. ASSUME NEW x \in RecordType, log' = log \o <<x>>, Added' = Append(Added, x),
             QueuedInv',
             \A id \in accepted' : id \in accepted \/ Recorded(AgentMessage(id))'
      PROVE  SavesInv'
  BY <1>0, <1>4, <1>8, HistoryAdds
<1> USE DEF AppendItems, SaveRejects, AppendResolves, FlushResolves,
            MessageAnswered, storeVars, inputVars
<1>9. CASE RecordStarts(m)
  <2>1. /\ m.kind # "message" /\ m.stage = "queued"
        /\ log' = log \o <<r>> /\ Stage("appending") /\ UNCHANGED accepted
        /\ history' = IF m.kind = "input" THEN Append(history, r) ELSE history
    BY <1>9 DEF RecordStarts
  <2>2. Added = history /\ QueuedInv' /\ Added' = Append(Added, r)
    BY <1>2, <1>4, <1>6, <2>1 DEF MutationType
  <2> HIDE DEF r
  <2> QED
    BY <1>3, <1>8, <2>1, <2>2
<1>10. CASE RecordRefused(m)
  <2>1. m.stage = "queued" /\ MutationEnds /\ UNCHANGED <<history, log, accepted>>
    BY <1>10 DEF RecordRefused
  <2> QED
    BY <1>4, <1>5, <1>7, <2>1
<1>11. CASE RecordEnds(m)
  <2>1. /\ m.stage = "appending" /\ MutationEnds /\ UNCHANGED <<log, accepted>>
        /\ history' = Append(history, r) /\ m.kind \in {"tool", "steering"}
    BY <1>2, <1>11 DEF RecordEnds
  <2> QED
    BY <1>4, <1>5, <1>7, <2>1
<1>12. CASE InputSaved(m)
  <2>1. /\ m.kind = "input" /\ MutationEnds /\ UNCHANGED <<history, log, accepted>>
    BY <1>2, <1>12 DEF InputSaved
  <2> QED
    BY <1>4, <1>5, <1>7, <2>1
<1>13. CASE MessageStarts(m)
  <2>1. m.kind = "message" /\ Stage("flushing")
    BY <1>13 DEF MessageStarts
  <2>2. Added = history /\ Added' = history' /\ QueuedInv'
    BY <1>4, <1>6, <2>1
  <2>3. CASE m.id \in accepted
    BY <1>7, <1>13, <2>2, <2>3 DEF MessageStarts
  <2>4. CASE m.id \notin accepted
    <3>1. /\ accepted' = accepted \cup {m.id} /\ history' = Append(history, a)
          /\ log' = log \o <<a>>
      BY <1>13, <2>4 DEF MessageStarts
    <3>2. PICK d : d = m.id
      OBVIOUS
    <3>3. PICK x \in RecordType : x = a
      BY <1>3
    <3>4. x = AgentMessage(d) /\ accepted' = accepted \cup {d}
          /\ log' = log \o <<x>> /\ Added' = Append(Added, x)
      BY <2>2, <3>1, <3>2, <3>3
    <3>5. Recorded(AgentMessage(d))'
      BY <1>0, <3>4, RecordsStay
    <3> QED
      BY <1>8, <2>2, <3>4, <3>5
  <2> QED
    BY <2>3, <2>4
<1>14. CASE MessageKnown(m)
  <2>1. m.stage = "queued" /\ MutationEnds /\ UNCHANGED <<history, log, accepted>>
    BY <1>14 DEF MessageKnown
  <2> QED
    BY <1>4, <1>5, <1>7, <2>1
<1>15. CASE MessageSaved(m)
  <2>1. /\ m.kind = "message" /\ MutationEnds /\ UNCHANGED <<history, log>>
        /\ accepted' \subseteq accepted
    BY <1>15 DEF MessageSaved
  <2> QED
    BY <1>0, <1>4, <1>5, <2>1, HistoryAdds
<1>16. ~ MessageResaved(m)
  <2>1. m.kind = "message" /\ m.stage = "flushing" => m.id \in accepted
    BY <1>2 DEF IInv, QueueInv
  <2> QED
    BY <1>0, <2>1 DEF MessageResaved, SavesInv
<1>17. ~ MessageFails(m)
  BY DEF MessageFails
<1> QED
  BY <1>1, <1>9, <1>10, <1>11, <1>12, <1>13, <1>14, <1>15, <1>16, <1>17

LEMMA MutationHistory ==
  ASSUME IInv, HistoryInv, MutationStep
  PROVE  HistoryInv'
<1> DEFINE m == mutations[1]
           r == ResponseItem(m.id, m.turn)
           a == AgentMessage(m.id)
<1>0. TypeInv /\ QueuesInv /\ history \in Seq(RecordType)
  BY DEF IInv, HistoryInv
<1>1. /\ mutations # <<>>
      /\ \/ RecordStarts(m) \/ RecordRefused(m) \/ RecordEnds(m) \/ InputSaved(m)
         \/ MessageStarts(m) \/ MessageKnown(m) \/ MessageSaved(m)
         \/ MessageResaved(m) \/ MessageFails(m)
  BY DEF MutationStep, RecordStarts, RecordRefused, RecordEnds, InputSaved,
     MessageStarts, MessageKnown, MessageSaved, MessageResaved, MessageFails, Running
<1>2. r \in RecordType /\ a \in RecordType
  <2>1. m \in MutationType
    BY <1>0, <1>1, HeadFacts
  <2>2. m.id \in Names /\ m.turn \in Names /\ "none" \in Names
    BY <2>1 DEF MutationType, Names, Outcomes
  <2> HIDE DEF m
  <2> QED
    BY <2>2 DEF ResponseItem, AgentMessage, Rec, RecordType, RecordTypes
<1> HIDE DEF m, r, a
<1>3. /\ \/ history' = history
         \/ history' = Append(history, r)
         \/ history' = Append(history, a)
      /\ \/ UNCHANGED mutations
         \/ MutationEnds
         \/ \E stage \in Stages : Stage(stage)
  BY Zenon, <1>1 DEF RecordStarts, RecordRefused, RecordEnds, InputSaved,
     MessageStarts, MessageKnown, MessageSaved, MessageResaved, MessageFails,
     MessageAnswered, r, a, Stages
<1>4. history' \in Seq(RecordType)
  BY <1>0, <1>2, <1>3, AppendProperties
<1>5. QueuesInv'
  <2>1. CASE UNCHANGED mutations
    BY <1>0, <2>1 DEF QueuesInv
  <2> QED
    BY <1>0, <1>1, <1>3, <2>1, EndQueues, StageQueues
<1>6. saveFailed => saveFailed'
  BY MutationWork DEF Onward
<1>7. ~ saveFailed' => SavesInv'
  BY <1>6, MutationAdds
<1> QED
  BY <1>4, <1>5, <1>7 DEF HistoryInv

\* What a step queues that the closures there are do not notice.
Queues ==
  /\ \A i \in DOMAIN mutations' :
       \/ i \in DOMAIN mutations /\ mutations'[i] = mutations[i]
       \/ mutations'[i].stage = "queued"
  /\ \A i \in DOMAIN mutations :
       i \in DOMAIN mutations' /\ mutations'[i] = mutations[i]
LEMMA QueuesKeep ==
  ASSUME TypeInv', QueuesInv, Queues
  PROVE  QueuesInv' /\ DOMAIN mutations' = 1 .. Len(mutations')
<1>1. DOMAIN mutations' = 1 .. Len(mutations')
  BY LenProperties DEF TypeInv
<1> QED
  BY <1>1 DEF QueuesInv, Queues

\* The loop queues messages and appends the statuses of the agent.
LEMMA StatusNotOrdered ==
  ASSUME NEW message \in Names
  PROVE  AgentError(message) \in RecordType /\ ~ Ordered(AgentError(message))
<1>1. AgentError(message) \in RecordType /\ AgentError(message).type = "agent_status"
  BY StatusRecord
<1> QED
  BY <1>1 DEF Ordered, Picks, Conversation

LEMMA LoopHistory ==
  ASSUME IInv, IInv', HistoryInv, LoopStep
  PROVE  HistoryInv'
<1>1. UNCHANGED <<history, accepted>>
  BY Zenon DEF LoopStep, DispatchInput, DispatchResume, DispatchInterrupt,
     DispatchFailAgent, DispatchAgentMessage, DispatchForkBarrier,
     DispatchShutdownIfIdle, DispatchShutdown, FailureSaved, StoredRead,
     ForkTurnSettled, ForkFlushed, ForkDone, LoopSettled, LoopEnds, bodyVars,
     inputVars
<1>2. UNCHANGED saveFailed \/ saveFailed'
  BY Zenon DEF LoopStep, DispatchInput, DispatchResume, DispatchInterrupt,
     DispatchFailAgent, DispatchAgentMessage, DispatchForkBarrier,
     DispatchShutdownIfIdle, DispatchShutdown, FailureSaved, StoredRead,
     ForkTurnSettled, ForkFlushed, ForkDone, LoopSettled, LoopEnds, bodyVars,
     RouteTurnInput, StartTurn, CaptureFails, RecordAgentFailure, AnswerInput,
     AcceptSteering, AppendItems, SaveRejects, FlushResolves
<1>3. Queues
  <2>1. ASSUME NEW k \in DOMAIN mutations',
               ~ (k \in DOMAIN mutations /\ mutations'[k] = mutations[k])
        PROVE  mutations'[k].stage = "queued"
    <3>1. PICK c \in Commands : mutations' = Append(mutations,
            [kind |-> "message", id |-> c.id, turn |-> "none", stage |-> "queued"])
      BY <2>1, LoopTurns DEF IInv
    <3> DEFINE m == [kind |-> "message", id |-> c.id, turn |-> "none",
                     stage |-> "queued"]
    <3>2. m \in MutationType /\ m.stage = "queued" /\ mutations' = Append(mutations, m)
      BY <3>1, CommandsAssumption DEF CommandType, MutationType, Names, Outcomes
    <3> HIDE DEF m
    <3>3. mutations' = mutations \o <<m>>
      BY <3>2, AppendIsConcat DEF IInv, TypeInv
    <3>4. TypeInv
      BY DEF IInv
    <3> QED
      BY <2>1, <3>2, <3>3, <3>4, QueueLonger
  <2> QED
    BY <2>1, LoopQueues DEF Queues
<1>4. \/ UNCHANGED log
      \/ \E x \in RecordType : ~ Ordered(x) /\ log' = log \o <<x>>
  BY LoopTurns, StatusNotOrdered DEF IInv
<1>5. saveFailed => saveFailed'
  BY Zenon, <1>2
<1>6. QueuesInv' /\ DOMAIN mutations' = 1 .. Len(mutations')
  BY <1>3, QueuesKeep DEF IInv, HistoryInv
<1> QED
  BY <1>1, <1>3, <1>4, <1>5, <1>6, HistoryKept DEF IInv, Queues

\* The task queues closures and appends the start of its Turn.
LEMMA TaskHistory ==
  ASSUME IInv, IInv', PathInv, HistoryInv, TaskStep
  PROVE  HistoryInv'
<1>1. UNCHANGED history
  BY Zenon DEF TaskStep, BeginExecution, StartSaved, StartRejected, StartInspected,
     StartRetried, RecordInitialInput, TakeSteering, RecordSteering,
     RecordToolResult, TakeSteeringOrComplete, TaskReturns, PromptDeclined,
     TaskThrows, SavesForTurn, ChangesTurn, QueuesForTurn
<1>2. UNCHANGED accepted /\ (saveFailed => saveFailed')
  BY TaskMoves, TaskPath DEF IInv, inputVars
<1>3. Queues
  <2>1. CASE UNCHANGED mutations
    BY <2>1 DEF Queues
  <2>2. CASE QueuesOne
    <3>1. PICK m \in MutationType :
            mutations' = mutations \o <<m>> /\ m.stage = "queued"
      BY <2>2 DEF QueuesOne
    <3> QED
      BY <3>1, QueueLonger DEF Queues, IInv
  <2> QED
    BY <2>1, <2>2, TaskMoves DEF IInv
<1>4. \/ UNCHANGED log
      \/ \E x \in RecordType : ~ Ordered(x) /\ log' = log \o <<x>>
  <2>1. UNCHANGED log \/ log' = log \o <<TurnStarted(turn.id)>>
    BY TaskMoves DEF IInv
  <2>2. turn.id \in Names
    BY TaskMoves DEF IInv, TurnType, Ids, Names
  <2>3. TurnStarted(turn.id) \in RecordType /\ ~ Ordered(TurnStarted(turn.id))
    BY <2>2 DEF TurnStarted, Rec, RecordType, RecordTypes, Ordered, Picks, Conversation
  <2> QED
    BY <2>1, <2>3
<1>5. QueuesInv' /\ DOMAIN mutations' = 1 .. Len(mutations')
  BY <1>3, QueuesKeep DEF IInv, HistoryInv
<1> QED
  BY <1>1, <1>2, <1>3, <1>4, <1>5, HistoryKept DEF IInv, Queues

\* The end of a Turn is not in the queue's order.
LEMMA EndNotOrdered ==
  ASSUME NEW t \in Names, NEW outcome \in Names
  PROVE  /\ ResponseItem(Interruption, t) \in RecordType
         /\ ~ Ordered(ResponseItem(Interruption, t))
         /\ TurnCompleted(t, outcome) \in RecordType
         /\ ~ Ordered(TurnCompleted(t, outcome))
BY DEF ResponseItem, TurnCompleted, Rec, RecordType, RecordTypes, Ordered, Picks,
   Conversation, Interruption, Names

LEMMA TerminalHistory ==
  ASSUME IInv, IInv', HistoryInv, ~ Idle, log' = log \o TerminalRecords,
         UNCHANGED <<history, accepted, mutations, saveFailed>>
  PROVE  HistoryInv'
<1> SUFFICES ASSUME ~ saveFailed PROVE SavesInv'
  BY Zenon DEF HistoryInv, QueuesInv
<1> DEFINE c == TurnCompleted(turn.id, turn.outcome)
           i == ResponseItem(Interruption, turn.id)
<1>1. /\ log \in Seq(RecordType) /\ log' \in Seq(RecordType)
      /\ TypeInv /\ TypeInv' /\ SavesInv
  BY DEF IInv, TypeInv, HistoryInv
<1>2. turn.id \in Names /\ turn.outcome \in Names
  BY DEF IInv, TypeInv, Idle, TurnType, Ids, Names
<1>3. i \in RecordType /\ ~ Ordered(i) /\ c \in RecordType /\ ~ Ordered(c)
  BY <1>2, EndNotOrdered
<1> HIDE DEF c, i
<1>4. PICK m \in Seq(RecordType) :
        (m = log \/ m = log \o <<i>>) /\ log' = m \o <<c>>
  BY TerminalLast DEF c, i
<1>5. QueueOrdered(log') = QueueOrdered(log)
  <2>1. QueueOrdered(m) = QueueOrdered(log)
    BY <1>1, <1>3, <1>4, OrderedFacts
  <2> QED
    BY <1>1, <1>3, <1>4, <2>1, OrderedFacts
<1>6. \A x : Recorded(x) => Recorded(x)'
  <2>1. /\ DOMAIN m = 1 .. Len(m) /\ Len(m) \in Nat
        /\ DOMAIN log' = 1 .. Len(m) + 1
        /\ \A k \in 1 .. Len(m) : log'[k] = m[k]
    BY <1>3, <1>4, Longer
  <2>2. ASSUME NEW x \in Range(log) PROVE x \in Range(m)
    <3>1. /\ DOMAIN log = 1 .. Len(log) /\ Len(log) \in Nat
          /\ DOMAIN (log \o <<i>>) = 1 .. Len(log) + 1
          /\ \A k \in 1 .. Len(log) : (log \o <<i>>)[k] = log[k]
      BY <1>1, <1>3, Longer
    <3>2. \A k \in DOMAIN log : k \in DOMAIN m /\ m[k] = log[k]
      BY <1>4, <3>1
    <3> QED
      BY <3>2 DEF Range
  <2>3. \A k \in DOMAIN m : k \in DOMAIN log' /\ log'[k] = m[k]
    BY <2>1
  <2>4. ASSUME NEW x \in Range(m) PROVE x \in Range(log')
    BY <2>3 DEF Range
  <2> QED
    BY <2>2, <2>4 DEF Recorded
<1>7. Added' = Added /\ QueuedInv'
  BY <1>1 DEF Added, Behind, ResponseItem, Rec, SavesInv, QueuedInv
<1> QED
  BY <1>1, <1>5, <1>6, <1>7 DEF SavesInv

\* The interruption is in the history when its save has resolved; the Turn
\* has waited for its closures then.
LEMMA InterruptionHistory ==
  ASSUME IInv, HistoryInv, TerminalSaved
  PROVE  HistoryInv'
<1> DEFINE i == ResponseItem(Interruption, turn.id)
<1>1. /\ turn.at = "terminating" /\ UNCHANGED <<mutations, accepted>>
      /\ UNCHANGED history \/ history' = Append(history, i)
      /\ saveFailed' \/ UNCHANGED <<log, saveFailed>>
  BY Zenon DEF TerminalSaved, At, TaskFrame, inputVars, AppendResolves, SaveRejects
<1>2. ~ Idle /\ turn \in TurnType /\ turn.id \in Names /\ "none" \in Names
  BY <1>1, IdleTurn DEF IInv, TaskPlaces, FinishPlaces, TurnType, Ids, Names, Outcomes
<1>3. i \in RecordType /\ ~ Ordered(i)
  BY <1>2, EndNotOrdered
<1> HIDE DEF i
<1>4. history \in Seq(RecordType) /\ history' \in Seq(RecordType) /\ QueuesInv'
  BY <1>1, <1>3, AppendProperties DEF HistoryInv, QueuesInv
<1>5. ASSUME ~ saveFailed' PROVE SavesInv'
  <2>1. ~ saveFailed
    BY Zenon, <1>1, <1>5
  <2>2. UNCHANGED <<log, mutations, accepted>> /\ SavesInv
    BY Zenon, <1>1, <1>5, <2>1 DEF HistoryInv
  <2>3. ~ Behind /\ ~ Behind'
    <3>1. mutations # <<>> => mutations[1].kind = "message"
      <4>1. turn.finishing /\ turn.ahead = 0
        BY <1>1, <1>2 DEF IInv, QueueInv, FinishPlaces
      <4> QED
        BY <4>1, HeadFacts DEF IInv, QueueInv
    <3> QED
      BY <2>2, <3>1 DEF Behind
  <2>4. Added = history /\ Added' = history'
    BY <2>3 DEF Added
  <2>5. QueuedInv'
    BY <2>2 DEF SavesInv, QueuedInv
  <2> QED
    BY <1>1, <1>3, <1>4, <2>1, <2>2, <2>4, <2>5, HistoryAdds DEF IInv
<1> QED
  BY <1>4, <1>5 DEF HistoryInv

LEMMA SettleHistory ==
  ASSUME IInv, IInv', HistoryInv, SettleStep
  PROVE  HistoryInv'
<1>1. ASSUME UNCHANGED <<history, accepted, mutations>>, saveFailed => saveFailed',
             \/ UNCHANGED log
             \/ \E x \in RecordType : ~ Ordered(x) /\ log' = log \o <<x>>
      PROVE  HistoryInv'
  <2>1. Queues
    BY <1>1 DEF Queues
  <2>2. QueuesInv' /\ DOMAIN mutations' = 1 .. Len(mutations')
    BY <2>1, QueuesKeep DEF IInv, HistoryInv
  <2> QED
    BY <1>1, <2>1, <2>2, HistoryKept DEF IInv, Queues
<1> USE DEF TaskFrame, SavesForTurn, AppendItems, SaveRejects, FlushResolves,
            storeVars, inputVars
<1>2. CASE TaskSettled
  BY <1>1, <1>2 DEF TaskSettled
<1>3. CASE StartFailed
  <2>1. /\ UNCHANGED <<history, accepted, mutations>>
        /\ \/ UNCHANGED <<log, saveFailed>>
           \/ UNCHANGED log /\ saveFailed'
           \/ log' = log \o <<AgentError("Turn persistence failed.")>>
              /\ UNCHANGED saveFailed
    BY Zenon, <1>3 DEF StartFailed
  <2>2. saveFailed => saveFailed'
    BY Zenon, <2>1
  <2>3. "Turn persistence failed." \in Names
    BY DEF Names
  <2> QED
    BY <1>1, <2>1, <2>2, <2>3, StatusNotOrdered
<1>4. CASE StartFailureSaved \/ TerminalFlushed
  <2>1. UNCHANGED <<history, accepted, mutations, log>>
        /\ (UNCHANGED saveFailed \/ saveFailed')
    BY Zenon, <1>4 DEF StartFailureSaved, TerminalFlushed
  <2>2. saveFailed => saveFailed'
    BY Zenon, <2>1
  <2> QED
    BY <1>1, <2>1, <2>2
<1>5. CASE AppendTerminal
  <2>1. ~ Idle
    BY <1>5, IdleTurn DEF IInv, AppendTerminal, At, TaskPlaces, FinishPlaces
  <2>2. /\ UNCHANGED <<history, accepted, mutations>>
        /\ \/ UNCHANGED log /\ saveFailed'
           \/ log' = log \o TerminalRecords /\ UNCHANGED saveFailed
    BY Zenon, <1>5 DEF AppendTerminal
  <2> QED
    BY <1>1, <2>1, <2>2, TerminalHistory
<1> QED
  BY <1>2, <1>3, <1>4, <1>5, InterruptionHistory DEF SettleStep

\* What is rebuilt is the rollout's conversation.
LEMMA CrashHistory ==
  ASSUME IInv', Crash
  PROVE  HistoryInv'
<1>1. /\ mutations' = <<>> /\ accepted' = {} /\ history' = ConversationOf(log')
      /\ log' \in Seq(RecordType)
  BY DEF Crash, Constructed, IInv, TypeInv
<1>2. history' \in Seq(RecordType) /\ QueueOrdered(history') = QueueOrdered(log')
  BY <1>1, RecordsFacts, RecordsTwice DEF ConversationOf, QueueOrdered
<1>3. DOMAIN mutations' = {}
  BY <1>1
<1> QED
  BY <1>1, <1>2, <1>3 DEF HistoryInv, QueuesInv, SavesInv, QueuedInv, Added, Behind

\* Between Turns, when no closure runs and as long as no save has failed, what
\* the model has been told (#contextManager) and what the rollout will tell it
\* (ContextManager.fromStoredThread) agree on the order of everything that goes
\* through #contextMutationTail, for any commands and crashes.
THEOREM HistoryFollowsRolloutHolds == Spec => []HistoryFollowsRollout
<1>1. Init => HistoryInv
  <2> SUFFICES ASSUME Init PROVE HistoryInv
    OBVIOUS
  <2>1. history = log /\ history \in Seq(RecordType) /\ DOMAIN mutations = {}
    BY DEF Init
  <2> QED
    BY <2>1 DEF Init, HistoryInv, QueuesInv, SavesInv, QueuedInv, Added, Behind
<1>2. IInv /\ IInv' /\ PathInv /\ HistoryInv /\ [Next]_vars => HistoryInv'
  <2> SUFFICES ASSUME IInv, IInv', PathInv, HistoryInv, [Next]_vars PROVE HistoryInv'
    OBVIOUS
  <2>1. CASE \/ CallerStep \/ IdleShutdownSettles \/ EscalationStep
             \/ UNCHANGED vars
    <3>1. UNCHANGED <<history, accepted, mutations, log, saveFailed>>
      BY <2>1 DEF CallerStep, SendCommand, Shutdown, ShutdownIfIdle,
         IdleShutdownSettles, EscalationStep, EscalationFires, EscalationEnds,
         ChangesTurn, QueuesForTurn, TaskFrame, bodyVars, inputVars, storeVars, vars
    <3>2. Added' = Added
      BY <3>1 DEF Added, Behind, ResponseItem, Rec
    <3>3. SavesInv => SavesInv'
      BY <3>1, <3>2 DEF SavesInv, QueuedInv, Recorded
    <3>4. QueuesInv' /\ history' \in Seq(RecordType)
      BY <3>1 DEF HistoryInv, QueuesInv
    <3> QED
      BY Zenon, <3>1, <3>3, <3>4 DEF HistoryInv
  <2> QED
    BY <2>1, LoopHistory, MutationHistory, TaskHistory, SettleHistory, CrashHistory
       DEF Next
<1>3. IInv /\ HistoryInv => HistoryFollowsRollout
  <2> SUFFICES ASSUME IInv, HistoryInv, mutations = <<>>, ~ saveFailed
               PROVE  QueueOrdered(history) = QueueOrdered(ConversationOf(log))
    BY Zenon DEF HistoryFollowsRollout
  <2>1. QueueOrdered(Added) = QueueOrdered(log) /\ Added = history
    BY DEF HistoryInv, SavesInv, Added, Behind
  <2>2. QueueOrdered(ConversationOf(log)) = QueueOrdered(log)
    BY RecordsTwice DEF QueueOrdered, ConversationOf, IInv, TypeInv
  <2> QED
    BY <2>1, <2>2
<1> QED
  BY <1>1, <1>2, <1>3, Invariance, StatusInvariance, PTL DEF Spec
=============================================================================
