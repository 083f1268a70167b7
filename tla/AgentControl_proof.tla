-------------------------- MODULE AgentControl_proof --------------------------
(***************************************************************************)
(* Theorems about AgentControl, for any tree of agents, any limit and any  *)
(* scripts of calls, failures and crashes.                                 *)
(*                                                                         *)
(* That no waiter sleeps over news needs types alone: every step that      *)
(* brings news to an agent, closes it or unregisters it wakes its waiters. *)
(* That at most Limit children execute needs the slots counted (SlotInv),  *)
(* one registered agent to a path (PlaceInv), a slot held by               *)
(* every worker that executes (HeldInv), and for that a reason why nobody  *)
(* gives the slot away meanwhile (TaskInv): the worker's task is still the *)
(* first of its queue, or a deletion has dropped it, and then the path is  *)
(* closed and nothing is under way to it (CloseInv).                       *)
(* That no execution is announced twice needs that no outcome, restored,   *)
(* queued or delivered, is named by a task's start that has an end         *)
(* (NamesInv).                                                             *)
(* That deletions are whole needs what is below a thread: nobody spawns    *)
(* under one that is not there, and one goes only when nothing has an edge *)
(* to it, is registered on it or is on its way there (GraphInv).           *)
(***************************************************************************)
EXTENDS AgentControl, SequenceTheorems, FiniteSetTheorems,
        WellFoundedInduction, NaturalsInduction, TLAPS

Ids == {"none"} \cup {x.id : x \in Calls}
TaskType == [id : Ids, settled : BOOLEAN, note : Nat]
Phases ==
  {"none", "reserve", "reserving", "checking", "launching", "running",
   "failing", "ended", "naming", "delivering", "delivered", "returning"}
SpawnPhases == {"creating", "linking", "discarding", "created", "rollback",
                "unlinking"}
SendPhases == {"loading", "posting", "steering", "starting"}
DeletePhases == {"messages", "spawns", "runs", "removing"}
CallPhases ==
  Ended \cup SpawnPhases \cup SendPhases \cup DeletePhases
        \cup {"reserving", "joined", "waiting", "woken", "sweeping"}

\* What the calls, the stores and the memory of the process hold.
Fits(x, at) ==
  /\ at \in CallPhases
  /\ at \in SpawnPhases => x.type = "spawn"
  /\ at \in SendPhases => x.type \in {"message", "followup"}
  /\ at \in {"steering", "starting", "joined"} => x.type = "followup"
  /\ at = "reserving" => x.type \in {"spawn", "followup"}
  /\ at \in DeletePhases \cup {"sweeping"} => x.type = "delete"
  /\ at \in {"waiting", "woken"} => x.type = "wait"
CallInv ==
  /\ op \in [Calls -> CallPhases]
  /\ \A x \in Calls : Fits(x, op[x])
StoreInv ==
  /\ exists \subseteq Children /\ edges \subseteq Children
  /\ life \in [Children -> Seq({"started", "prompted", "ended", "failed"})]
  /\ known \in [Children -> SUBSET Ids]
  /\ turn \in [Children -> {"none", "open", "closed", "aborted"}]
  /\ steered \in [Children -> SUBSET Ids]
  /\ ready \in {"no", "linking", "reading", "yes"}
  /\ found \in [Children -> Nat]
WorkerInv ==
  /\ agents \subseteq Agents
  /\ tasks \in [Children -> Seq(TaskType)]
  /\ worker \in [Children -> Phases]
MailInv ==
  /\ updates \in [Agents -> SUBSET Children] /\ mailbox \subseteq Agents
  /\ closing \subseteq Paths /\ doomed \subseteq Children
  /\ listed \in [Calls -> SUBSET Agents]
\* Slots are never more than the limit.
SlotInv ==
  /\ slot \in [Paths -> {"none", "deciding", "held"}]
  /\ seen \in [Paths -> SUBSET Children]
  /\ Cardinality(Reserved) <= Limit

\* Until the tree is restored nothing is registered, called or at work.
ReadyInv ==
  ready # "yes" =>
    /\ \A x \in Calls : ~Running(x)
    /\ \A c \in Children : worker[c] = "none"
    /\ agents = {Root}

\* A path has one registered agent, and only registered agents have workers.
PlaceInv ==
  /\ \A c \in Children : worker[c] # "none" => c \in agents
  /\ \A c, d \in agents \ {Root} : Path[c] = Path[d] => c = d

BaseInv ==
  /\ CallInv /\ StoreInv /\ WorkerInv /\ MailInv /\ SlotInv
  /\ ReadyInv /\ PlaceInv /\ NoLostWakeup

\* Of the deletions in progress none is of a thread whose path, or a path above
\* it, another one has closed, and none has found its thread deleted by another.
DeletionsApart ==
  /\ \A x, y \in Calls :
       op[x] \in DeletePhases /\ op[y] \in DeletePhases /\ x # y =>
         ~Under(y.to, Path[x.to])
  /\ \A x \in Calls : op[x] # "sweeping"

Working == {"checking", "launching", "running"}
\* The task that a worker has taken is still the first of its queue.
Pending(c) == tasks[c] # <<>> /\ ~tasks[c][1].settled
Spawner(x) == x.type = "spawn" /\ Running(x)
\* A path is closed and nothing is on its way to it.
Quiet(path) ==
  /\ path \in closing
  /\ Sending(path) = {}
  /\ \A y \in Calls : Spawner(y) => ~Under(y.to, path)
\* A deletion that did not see the end of the workers has dropped the tasks.
Cut(c) ==
  \E x \in Calls :
    /\ x.type = "delete" /\ op[x] \in {"runs", "failed"}
    /\ Quiet(Path[x.to]) /\ Under(c, Path[x.to])

HeldInv ==
  \A c \in Children : worker[c] \in Working => slot[Path[c]] = "held"

TaskInv ==
  \A c \in Children :
    worker[c] \in Working \cup {"reserving"} => Pending(c) \/ Cut(c)

\* What a deletion has seen stays so.
DeleteInv(x) ==
  /\ op[x] \in DeletePhases => Path[x.to] \in closing
  /\ op[x] \in {"spawns", "runs", "removing"} => Sending(Path[x.to]) = {}
  /\ op[x] \in {"runs", "removing"} => Quiet(Path[x.to])
  /\ op[x] \in {"messages", "spawns", "runs"} => x.to \in agents
  /\ op[x] = "runs" => Subtree(x) \subseteq listed[x]
  /\ op[x] = "removing" =>
       \A c \in agents \ {Root} : ~Under(c, Path[x.to])
CloseInv == \A x \in Calls : DeleteInv(x)

WorkInv == HeldInv /\ TaskInv /\ CloseInv

-----------------------------------------------------------------------------
(* The constants, and what the operators of the model return.              *)

LEMMA Constants ==
  /\ Root \in Agents /\ Children \subseteq Agents /\ Root \notin Children
  /\ \A a \in Agents : a # Root => a \in Children
  /\ \A c \in Children : Path[c] \in Paths /\ Parent[c] \in Agents
  /\ \A c \in Children : PathOf(c) = Path[c]
  /\ \A x \in Calls :
       /\ x.by \in Agents /\ x.to \in Agents /\ x.id \in Ids
       /\ x.type \in {"spawn", "followup", "delete", "prompt"} =>
            x.to \in Children
BY TreeAssumption, CallsAssumption DEF Agents, Paths, PathOf, Ids

LEMMA PathsFinite == IsFiniteSet(Paths)
<1> DEFINE f == [c \in Children |-> Path[c]]
<1>1. f \in Surjection(Children, Paths)
  BY DEF Surjection, Paths
<1> QED
  BY <1>1, FS_Surjection, TreeAssumption

\* Slots are never more than Limit.
LEMMA SlotReserved ==
  ASSUME WorkerInv, SlotInv, NEW p \in Paths, ~Refused(p), Reserve(p)
  PROVE  /\ SlotInv'
         /\ \A q \in Paths : slot[q] # "none" => slot'[q] = slot[q]
<1>1. CASE slot[p] = "none"
  <2>1. slot' = [slot EXCEPT ![p] = "deciding"]
    BY <1>1 DEF Reserve, Ask
  <2>2. seen' = [seen EXCEPT ![p] = {c \in agents \ {Root} : Executing(c)}]
    BY <1>1 DEF Reserve, Ask
  <2>3. Reserved' = Reserved \cup {p}
    BY <1>1, <2>1 DEF Reserved, SlotInv
  <2>4. IsFiniteSet(Reserved)
    BY PathsFinite, FS_Subset DEF Reserved
  <2>5. ~(Cardinality(Reserved) >= Limit)
    BY <1>1 DEF Refused, Full
  <2>6. Cardinality(Reserved) \in Nat /\ Limit \in Nat
    BY <2>4, FS_CardinalityType, BoundsAssumption
  <2>7. Cardinality(Reserved \cup {p}) =
          IF p \in Reserved THEN Cardinality(Reserved)
          ELSE Cardinality(Reserved) + 1
    BY <2>4, FS_AddElement
  <2>8. Cardinality(Reserved') <= Limit
    <3>1. Cardinality(Reserved') <= Cardinality(Reserved) + 1
      BY <2>3, <2>6, <2>7
    <3>2. Cardinality(Reserved') \in Nat
      BY <2>3, <2>6, <2>7
    <3> QED
      BY <2>5, <2>6, <3>1, <3>2 DEF SlotInv
  <2>9. \A c \in agents \ {Root} : c \in Children
    BY Constants DEF WorkerInv
  <2> QED
    BY <1>1, <2>1, <2>2, <2>8, <2>9 DEF SlotInv
<1>2. CASE slot[p] # "none"
  BY <1>2 DEF Reserve, slotVars, SlotInv, Reserved
<1> QED
  BY <1>1, <1>2

LEMMA FewerSlots ==
  ASSUME SlotInv, Reserved' \subseteq Reserved,
         slot' \in [Paths -> {"none", "deciding", "held"}],
         seen' \in [Paths -> SUBSET Children]
  PROVE  SlotInv'
<1>1. IsFiniteSet(Reserved)
  BY PathsFinite, FS_Subset DEF Reserved
<1>2. /\ Cardinality(Reserved) \in Nat /\ Limit \in Nat
      /\ Cardinality(Reserved') \in Nat
      /\ Cardinality(Reserved') <= Cardinality(Reserved)
  BY <1>1, FS_Subset, FS_CardinalityType, BoundsAssumption
<1> QED
  BY <1>2 DEF SlotInv

LEMMA SlotReleased ==
  ASSUME SlotInv, NEW p \in Paths, NEW skipped, ReleaseBut(p, skipped)
  PROVE  /\ SlotInv'
         /\ \A q \in Paths : q # p => slot'[q] = slot[q]
<1>1. \E at \in {slot[p], "none"} : slot' = [slot EXCEPT ![p] = at]
  BY DEF ReleaseBut
<1>2. Reserved' \subseteq Reserved
  BY <1>1 DEF Reserved, SlotInv
<1>3. UNCHANGED seen
  BY DEF ReleaseBut
<1>4. slot' \in [Paths -> {"none", "deciding", "held"}]
  BY <1>1 DEF SlotInv
<1> QED
  BY <1>1, <1>2, <1>3, <1>4, FewerSlots DEF SlotInv

\* A call moves on, and others may be woken.
LEMMA CallMoves ==
  ASSUME CallInv, NEW x \in Calls, NEW at, Fits(x, at),
         op' = [op EXCEPT ![x] = at]
  PROVE  /\ CallInv' /\ op'[x] = at
         /\ \A y \in Calls : y # x => op'[y] = op[y]
BY DEF CallInv, Fits

LEMMA CallsWake ==
  ASSUME CallInv, NEW some, op' = Woken(op, some)
  PROVE  /\ CallInv'
         /\ \A y \in Calls :
              \/ op'[y] = op[y] /\ ~(op[y] = "waiting" /\ y.by \in some)
              \/ op[y] = "waiting" /\ op'[y] = "woken"
<1>1. \A y \in Calls : op'[y] = IF op[y] = "waiting" /\ y.by \in some
                                THEN "woken" ELSE op[y]
  BY DEF Woken
<1>2. op' \in [Calls -> CallPhases]
  <2>1. "woken" \in CallPhases
    BY DEF CallPhases
  <2> QED
    BY <2>1 DEF Woken, CallInv
<1>3. \A y \in Calls : Fits(y, op'[y])
  BY <1>1 DEF CallInv, Fits, CallPhases, SpawnPhases, SendPhases, DeletePhases
<1> QED
  BY <1>1, <1>2, <1>3 DEF CallInv

LEMMA CallMovesAndWakes ==
  ASSUME CallInv, NEW x \in Calls, NEW at, Fits(x, at), at # "waiting",
         NEW some, op' = Woken([op EXCEPT ![x] = at], some)
  PROVE  /\ CallInv' /\ op'[x] = at
         /\ \A y \in Calls : y # x =>
              \/ op'[y] = op[y] /\ ~(op[y] = "waiting" /\ y.by \in some)
              \/ op[y] = "waiting" /\ op'[y] = "woken"
<1>1. \A y \in Calls : op'[y] = IF y = x THEN at
                                ELSE IF op[y] = "waiting" /\ y.by \in some
                                THEN "woken" ELSE op[y]
  BY DEF Woken, CallInv
<1>2. op' \in [Calls -> CallPhases]
  <2>1. "woken" \in CallPhases /\ at \in CallPhases
    BY DEF CallPhases, Fits
  <2> QED
    BY <2>1 DEF Woken, CallInv
<1>3. ASSUME NEW y \in Calls PROVE Fits(y, op'[y])
  <2>1. CASE y = x
    BY <1>1, <2>1
  <2>2. CASE y # x
    BY <1>1, <2>2
       DEF CallInv, Fits, CallPhases, SpawnPhases, SendPhases, DeletePhases
  <2> QED
    BY <2>1, <2>2
<1> QED
  BY <1>1, <1>2, <1>3 DEF CallInv

LEMMA StartedFacts ==
  ASSUME WorkerInv, NEW some, NEW queues
  PROVE  /\ Started(some, queues) \in [Children -> Phases]
         /\ \A c \in Children :
              \/ Started(some, queues)[c] = worker[c]
              \/ /\ Started(some, queues)[c] = "reserve"
                 /\ worker[c] = "none" /\ c \in some
BY DEF Started, WorkerInv, Phases

\* Steps that register nobody keep one agent to a path.
LEMMA PlaceKept ==
  ASSUME PlaceInv, UNCHANGED agents,
         \A c \in Children :
           worker'[c] # "none" => worker[c] # "none" \/ c \in agents
  PROVE  PlaceInv'
BY DEF PlaceInv

\* Steps that bring no news and close nothing let the waiters wait.
LEMMA WaitersKept ==
  ASSUME NoLostWakeup, UNCHANGED <<updates, mailbox, agents, closing>>,
         \A y \in Calls : op'[y] = "waiting" => op[y] = "waiting"
  PROVE  NoLostWakeup'
BY DEF NoLostWakeup, Live, Closing

LEMMA LastTerminalType ==
  ASSUME StoreInv, NEW c \in Children
  PROVE  /\ LastTerminal(c) \in Nat /\ LastTerminal(c) <= Len(life[c])
         /\ LastTerminal(c) > 0 => life[c][LastTerminal(c)] \notin Starts
<1> DEFINE n == Len(life[c])
           I == {i \in 1 .. n : life[c][i] \notin Starts}
           J == {n - i : i \in I}
<1>1. n \in Nat
  BY LenProperties DEF StoreInv
<1>2. CASE I # {}
  <2>1. J \subseteq Nat /\ J # {}
    <3>1. \A i \in I : n - i \in Nat
      BY <1>1
    <3> HIDE DEF n, I
    <3> QED
      BY <3>1, <1>2
  <2>2. PICK k \in J : \A j \in J : <<j, k>> \notin OpToRel(<, Nat)
    BY <2>1, NatLessThanWellFounded, WFMin
  <2>3. \A j \in J : ~(j < k)
    BY <2>1, <2>2 DEF OpToRel
  <2>4. PICK i \in I : k = n - i
    BY <2>2
  <2>5. \A j \in I : i >= j
    <3>1. \A j \in I : n - j \in J /\ j \in Nat
      BY <1>1
    <3>2. i \in Nat /\ k = n - i
      BY <2>4
    <3>3. \A j \in I : ~(n - j < n - i)
      BY <2>3, <3>1, <3>2
    <3> HIDE DEF n, I, J
    <3> QED
      BY <1>1, <3>1, <3>2, <3>3
  <2>6. Max(I) \in I
    BY <2>5 DEF Max
  <2>7. LastTerminal(c) = Max(I)
    BY <1>2 DEF LastTerminal, SelectLastInSeq
  <2> QED
    BY <1>1, <2>6, <2>7
<1>3. CASE I = {}
  <2>1. LastTerminal(c) = 0
    BY <1>3 DEF LastTerminal, SelectLastInSeq
  <2> QED
    BY <1>1, <2>1
<1> QED
  BY <1>2, <1>3

LEMMA Queues ==
  /\ <<>> \in Seq(TaskType)
  /\ \A q \in Seq(TaskType) :
       /\ \A t \in TaskType :
            /\ Append(q, t) \in Seq(TaskType) /\ Append(q, t) # <<>>
            /\ q # <<>> => Append(q, t)[1] = q[1]
            /\ q = <<>> => Append(q, t)[1] = t
       /\ q # <<>> => /\ 1 \in DOMAIN q /\ q[1] \in TaskType
                      /\ Head(q) = q[1] /\ Tail(q) \in Seq(TaskType)
                      /\ \A t \in TaskType : [q EXCEPT ![1] = t] \in Seq(TaskType)
<1>1. <<>> \in Seq(TaskType)
  BY EmptySeq
<1>2. ASSUME NEW q \in Seq(TaskType), NEW t \in TaskType
      PROVE  /\ Append(q, t) \in Seq(TaskType) /\ Append(q, t) # <<>>
             /\ q # <<>> => Append(q, t)[1] = q[1]
             /\ q = <<>> => Append(q, t)[1] = t
  BY <1>2
<1>3. ASSUME NEW q \in Seq(TaskType), q # <<>>
      PROVE  /\ 1 \in DOMAIN q /\ q[1] \in TaskType
             /\ Head(q) = q[1] /\ Tail(q) \in Seq(TaskType)
             /\ \A t \in TaskType : [q EXCEPT ![1] = t] \in Seq(TaskType)
  <2>1. Len(q) \in Nat \ {0} /\ DOMAIN q = 1 .. Len(q) /\ 1 \in 1 .. Len(q)
    BY <1>3, EmptySeq, LenProperties
  <2> QED
    BY <1>3, <2>1, ExceptSeq, ElementOfSeq, HeadTailProperties
<1> QED
  BY <1>1, <1>2, <1>3

LEMMA NextRemovedFacts ==
  ASSUME StoreInv, NEW c \in Children, NEW d \in NextRemoved(c)
  PROVE  d \in Children /\ (d = c \/ (d \in edges /\ c \in Above[d]))
BY DEF NextRemoved, Deepest, Descendants, StoreInv

\* The first task of a queue is settled or named.
LEMMA SettledType ==
  ASSUME WorkerInv, NEW c \in Children
  PROVE  /\ tasks[c] \in Seq(TaskType)
         /\ tasks[c] # <<>> =>
              /\ [tasks[c] EXCEPT ![1].settled = TRUE] \in Seq(TaskType)
              /\ \A n \in Nat : [tasks[c] EXCEPT ![1].note = n] \in Seq(TaskType)
<1>1. tasks[c] \in Seq(TaskType)
  BY DEF WorkerInv
<1>2. ASSUME tasks[c] # <<>>
      PROVE  /\ [tasks[c] EXCEPT ![1].settled = TRUE] \in Seq(TaskType)
             /\ \A n \in Nat : [tasks[c] EXCEPT ![1].note = n] \in Seq(TaskType)
  <2>1. /\ tasks[c][1] \in TaskType
        /\ \A t \in TaskType : [tasks[c] EXCEPT ![1] = t] \in Seq(TaskType)
    BY <1>1, <1>2, Queues
  <2>2. /\ [tasks[c][1] EXCEPT !.settled = TRUE] \in TaskType
        /\ \A n \in Nat : [tasks[c][1] EXCEPT !.note = n] \in TaskType
    BY <2>1 DEF TaskType
  <2>3. [tasks[c] EXCEPT ![1].settled = TRUE] =
          [tasks[c] EXCEPT ![1] = [tasks[c][1] EXCEPT !.settled = TRUE]]
    OBVIOUS
  <2>4. \A n \in Nat : [tasks[c] EXCEPT ![1].note = n] =
          [tasks[c] EXCEPT ![1] = [tasks[c][1] EXCEPT !.note = n]]
    OBVIOUS
  <2> QED
    BY <2>1, <2>2, <2>3, <2>4
<1> QED
  BY <1>1, <1>2

LEMMA Records ==
  ASSUME StoreInv
  PROVE  \A c \in Children :
           /\ Len(life[c]) \in Nat
           /\ \A r \in {"started", "prompted", "ended", "failed"} :
                [life EXCEPT ![c] = Append(@, r)]
                  \in [Children -> Seq({"started", "prompted", "ended", "failed"})]
           /\ [life EXCEPT ![c] = <<>>]
                \in [Children -> Seq({"started", "prompted", "ended", "failed"})]
           /\ [life EXCEPT ![c] = <<"failed">>]
                \in [Children -> Seq({"started", "prompted", "ended", "failed"})]
<1> DEFINE Record == {"started", "prompted", "ended", "failed"}
<1>1. \A q \in Seq(Record), r \in Record : Append(q, r) \in Seq(Record)
  OBVIOUS
<1>2. <<>> \in Seq(Record) /\ <<"failed">> \in Seq(Record)
  BY EmptySeq
<1>3. \A c \in Children : life[c] \in Seq(Record)
  BY DEF StoreInv
<1>4. \A c \in Children : Len(life[c]) \in Nat
  BY <1>3, LenProperties
<1> QED
  BY <1>1, <1>2, <1>3, <1>4 DEF StoreInv

-----------------------------------------------------------------------------
(* The tree.  The agents above a child are those that a chain of parents   *)
(* leads to, so Above is the function that its recursive definition says,  *)
(* and what is above a child has a path that leads to the child's.         *)

Chain(c, n, s) ==
  /\ s \in [0 .. n -> Agents] /\ s[0] = c
  /\ \A i \in 0 .. n - 1 : s[i] \in Children /\ s[i + 1] = Parent[s[i]]
Reached ==
  [c \in Children |->
     {a \in Agents : \E n \in Nat \ {0} : \E s : Chain(c, n, s) /\ s[n] = a}]

LEMMA ReachedStep ==
  \A c \in Children :
    Reached[c] = IF Parent[c] = Root THEN {Root}
                 ELSE {Parent[c]} \cup Reached[Parent[c]]
<1> TAKE c \in Children
<1>1. /\ Parent[c] \in Agents /\ c \in Agents /\ Root \notin Children
      /\ Parent[c] # Root => Parent[c] \in Children
  BY TreeAssumption DEF Agents
<1>2. Parent[c] \in Reached[c]
  <2> DEFINE s == [i \in 0 .. 1 |-> IF i = 0 THEN c ELSE Parent[c]]
  <2>1. Chain(c, 1, s) /\ s[1] = Parent[c] /\ s \in [0 .. 1 -> Agents]
    BY <1>1 DEF Chain
  <2> QED
    BY <1>1, <2>1 DEF Reached
<1>3. ASSUME NEW a \in Reached[c]
      PROVE  \/ a = Parent[c]
             \/ Parent[c] \in Children /\ a \in Reached[Parent[c]]
  <2>0. PICK n \in Nat \ {0} : \E s : Chain(c, n, s) /\ s[n] = a
    BY <1>3 DEF Reached
  <2>1. PICK s : Chain(c, n, s) /\ s[n] = a
    BY <2>0
  <2>2. s[0] = c /\ s[1] = Parent[c] /\ a \in Agents
    BY <2>1 DEF Chain
  <2>3. CASE n = 1
    BY <2>1, <2>2, <2>3
  <2>4. CASE n # 1
    <3> DEFINE r == [i \in 0 .. n - 1 |-> s[i + 1]]
    <3>1. s[1] \in Children
      BY <2>1, <2>4 DEF Chain
    <3>2. n - 1 \in Nat \ {0} /\ r \in [0 .. n - 1 -> Agents]
      BY <2>1, <2>4 DEF Chain
    <3>3. Chain(Parent[c], n - 1, r)
      BY <2>1, <2>2, <2>4, <3>2 DEF Chain
    <3>4. r[n - 1] = a
      BY <2>1, <2>4
    <3> QED
      BY <2>2, <3>1, <3>2, <3>3, <3>4 DEF Reached
  <2> QED
    BY <2>3, <2>4
<1>4. ASSUME Parent[c] \in Children, NEW a \in Reached[Parent[c]]
      PROVE  a \in Reached[c]
  <2>0. PICK n \in Nat \ {0} : \E s : Chain(Parent[c], n, s) /\ s[n] = a
    BY <1>4 DEF Reached
  <2>1. PICK s : Chain(Parent[c], n, s) /\ s[n] = a
    BY <2>0
  <2> DEFINE r == [i \in 0 .. n + 1 |-> IF i = 0 THEN c ELSE s[i - 1]]
  <2>2. n + 1 \in Nat \ {0} /\ r \in [0 .. n + 1 -> Agents] /\ r[n + 1] = a
    BY <1>1, <2>1 DEF Chain
  <2>3. Chain(c, n + 1, r)
    <3>1. ASSUME NEW i \in 0 .. n
          PROVE  r[i] \in Children /\ r[i + 1] = Parent[r[i]]
      <4>1. CASE i = 0
        BY <2>1, <4>1 DEF Chain
      <4>2. CASE i # 0
        <5>1. i - 1 \in 0 .. n - 1 /\ (i - 1) + 1 = i
          BY <4>2
        <5>2. s[i - 1] \in Children /\ s[i] = Parent[s[i - 1]]
          BY <2>1, <5>1 DEF Chain
        <5> QED
          BY <4>2, <5>1, <5>2
      <4> QED
        BY <4>1, <4>2
    <3>2. r[0] = c /\ (n + 1) - 1 = n
      OBVIOUS
    <3> QED
      BY <2>2, <3>1, <3>2 DEF Chain
  <2> QED
    BY <1>4, <2>1, <2>2, <2>3 DEF Reached
<1> QED
  BY <1>1, <1>2, <1>3, <1>4

LEMMA AboveStep ==
  \A c \in Children :
    Above[c] = IF Parent[c] = Root THEN {Root}
               ELSE {Parent[c]} \cup Above[Parent[c]]
<1> DEFINE F(f) == [c \in Children |->
                     IF Parent[c] = Root THEN {Root}
                     ELSE {Parent[c]} \cup f[Parent[c]]]
<1>1. Reached = F(Reached)
  BY ReachedStep DEF Reached
<1>2. Above = CHOOSE f : f = F(f)
  BY DEF Above
<1>3. Above = F(Above)
  BY <1>1, <1>2
<1> QED
  BY <1>3

LEMMA PrefixMeans ==
  ASSUME NEW S, NEW q \in Seq(S), NEW t \in Seq(S)
  PROVE  IsPrefix(q, t) <=> /\ Len(q) <= Len(t)
                            /\ \A i \in 1 .. Len(q) : q[i] = t[i]
<1>1. Len(q) \in Nat /\ Len(t) \in Nat
  BY LenProperties
<1>2. SubSeq(q, 1, Len(q)) = q
  BY SubSeqFull
<1>3. CASE Len(q) <= Len(t)
  <2>1. SubSeq(t, 1, Len(q)) = [i \in 1 .. Len(q) |-> t[i]]
    BY <1>1, <1>3
  <2>2. q = [i \in 1 .. Len(q) |-> q[i]]
    BY <1>1
  <2> QED
    BY <1>2, <1>3, <2>1, <2>2 DEF IsPrefix
<1>4. CASE ~(Len(q) <= Len(t))
  BY <1>4 DEF IsPrefix
<1> QED
  BY <1>3, <1>4

Names == UNION {Range(Path[c]) : c \in Children}

LEMMA PathsAreNames ==
  \A c \in Children :
    Path[c] \in Seq(Names) /\ Len(Path[c]) \in Nat \ {0}
<1> SUFFICES ASSUME NEW c \in Children
             PROVE  Path[c] \in Seq(Names) /\ Len(Path[c]) \in Nat \ {0}
  OBVIOUS
<1>1. Path[c] \in Seq(Range(Path[c])) /\ Path[c] # <<>>
  BY TreeAssumption
<1>2. Range(Path[c]) \subseteq Names
  BY DEF Names
<1>3. Path[c] \in Seq(Names)
  BY <1>1, <1>2
<1>4. Len(Path[c]) \in Nat /\ Len(Path[c]) # 0
  BY <1>1, EmptySeq, LenProperties
<1> QED
  BY <1>3, <1>4

LEMMA PrefixTransitive ==
  ASSUME NEW a \in Children, NEW b \in Children, NEW c \in Children,
         IsPrefix(Path[a], Path[b]), IsPrefix(Path[b], Path[c])
  PROVE  IsPrefix(Path[a], Path[c])
<1>1. /\ Path[a] \in Seq(Names) /\ Path[b] \in Seq(Names)
      /\ Path[c] \in Seq(Names)
      /\ Len(Path[a]) \in Nat /\ Len(Path[b]) \in Nat /\ Len(Path[c]) \in Nat
  BY PathsAreNames
<1>2. /\ Len(Path[a]) <= Len(Path[b])
      /\ \A i \in 1 .. Len(Path[a]) : Path[a][i] = Path[b][i]
  BY <1>1, PrefixMeans
<1>3. /\ Len(Path[b]) <= Len(Path[c])
      /\ \A i \in 1 .. Len(Path[b]) : Path[b][i] = Path[c][i]
  BY <1>1, PrefixMeans
<1>4. /\ Len(Path[a]) <= Len(Path[c])
      /\ \A i \in 1 .. Len(Path[a]) : Path[a][i] = Path[c][i]
  BY <1>1, <1>2, <1>3
<1> QED
  BY <1>1, <1>4, PrefixMeans

LEMMA ParentPath ==
  ASSUME NEW c \in Children, Parent[c] \in Children
  PROVE  /\ IsPrefix(Path[Parent[c]], Path[c])
         /\ Len(Path[Parent[c]]) < Len(Path[c])
<1>1. /\ Path[c] \in Seq(Names) /\ Len(Path[c]) \in Nat \ {0}
      /\ Path[Parent[c]] \in Seq(Names) /\ Len(Path[Parent[c]]) \in Nat
  BY PathsAreNames
<1>2. Path[Parent[c]] = SubSeq(Path[c], 1, Len(Path[c]) - 1)
  BY TreeAssumption DEF Front, PathOf
<1> DEFINE n == Len(Path[c]) - 1
<1>3. /\ Len(Path[Parent[c]]) = n
      /\ \A i \in 1 .. n : Path[Parent[c]][i] = Path[c][i]
  BY <1>1, <1>2
<1> QED
  BY <1>1, <1>3, PrefixMeans

\* What is above a child has a path that leads to the child's.
LEMMA AbovePaths ==
  ASSUME NEW d \in Children, NEW a \in Above[d], a # Root
  PROVE  /\ a \in Children /\ IsPrefix(Path[a], Path[d])
         /\ Len(Path[a]) < Len(Path[d])
<1> DEFINE Good(c, b) == /\ b \in Children /\ IsPrefix(Path[b], Path[c])
                         /\ Len(Path[b]) < Len(Path[c])
           Bad == {c \in Children : \E b \in Above[c] : b # Root /\ ~Good(c, b)}
           Lengths == {Len(Path[c]) : c \in Bad}
<1>1. Lengths \subseteq Nat
  BY PathsAreNames
<1>2. ASSUME Lengths # {} PROVE FALSE
  <2>1. PICK k \in Lengths : \A j \in Lengths : <<j, k>> \notin OpToRel(<, Nat)
    BY <1>1, <1>2, NatLessThanWellFounded, WFMin
  <2>2. \A j \in Lengths : ~(j < k)
    BY <1>1, <2>1 DEF OpToRel
  <2>3. PICK c \in Bad : k = Len(Path[c])
    BY <2>1
  <2>4. PICK b \in Above[c] : b # Root /\ ~Good(c, b)
    BY <2>3
  <2>5. Parent[c] \in Children /\ (b = Parent[c] \/ b \in Above[Parent[c]])
    <3>1. c \in Children /\ b \in Above[c] /\ b # Root
      BY <2>4
    <3>2. Parent[c] = Root \/ Parent[c] \in Children
      BY <3>1, TreeAssumption DEF Agents
    <3>3. Above[c] = IF Parent[c] = Root THEN {Root}
                     ELSE {Parent[c]} \cup Above[Parent[c]]
      BY <3>1, AboveStep
    <3> QED
      BY <3>1, <3>2, <3>3
  <2>6. Good(c, Parent[c])
    BY <2>5, ParentPath
  <2>7. b # Parent[c]
    BY <2>4, <2>6
  <2>8. Parent[c] \notin Bad
    BY <2>2, <2>3, <2>6
  <2>9. Good(Parent[c], b)
    BY <2>4, <2>5, <2>7, <2>8
  <2>10. Good(c, b)
    BY <2>3, <2>5, <2>6, <2>9, PrefixTransitive, PathsAreNames
  <2> QED
    BY <2>4, <2>10
<1>3. Bad = {}
  BY <1>2
<1> QED
  BY <1>3
-----------------------------------------------------------------------------
(* The steps keep what holds of any deletions.                             *)

\* A spawn takes its path and a slot.
LEMMA BaseSpawn ==
  ASSUME BaseInv, NEW x \in Calls, Spawn(x)
  PROVE  BaseInv'
<1> USE DEF SpawnFrame, SendFrame, CallFrame, WorkFrame, SessionFrame,
        WaitFrame, DeleteFrame, RestoreFrame, SessionStep, storeVars,
        turnVars, restoreVars, slotVars, workVars, mailVars, closeVars,
        history, To, Goes, Calling, Fails
<1>1. PICK at \in {"reserving", "creating", "failed"} : op' = [op EXCEPT ![x] = at]
  BY DEF Spawn, BaseInv, CallInv
<1>2. Fits(x, at)
  BY <1>1 DEF Spawn, BaseInv, CallInv, Fits, Ended, CallPhases, SpawnPhases,
      SendPhases, DeletePhases
<1>3. /\ CallInv' /\ op'[x] \in {"reserving", "creating", "failed"}
      /\ \A y \in Calls : y # x => op'[y] = op[y]
  BY <1>1, <1>2, CallMoves DEF BaseInv
<1>4. SlotInv'
  <2>1. x.to \in Children /\ Path[x.to] \in Paths
    BY Constants DEF Spawn
  <2>2. \/ UNCHANGED slotVars
        \/ ~Refused(Path[x.to]) /\ Reserve(Path[x.to])
    BY DEF Spawn
  <2> QED
    BY <2>1, <2>2, SlotReserved DEF BaseInv, SlotInv, Reserved
<1>5. CallInv'
  BY <1>3
<1>6. StoreInv'
  BY DEF Spawn, BaseInv, StoreInv
<1>7. WorkerInv'
  BY DEF Spawn, BaseInv, WorkerInv
<1>8. MailInv'
  BY DEF Spawn, BaseInv, MailInv
<1>9. SlotInv'
  BY <1>4
<1>10. ReadyInv'
  BY DEF Spawn, BaseInv, ReadyInv, Running, Ended
<1>11. PlaceInv'
  BY <1>3, PlaceKept DEF Spawn, BaseInv, Ended
<1>12. NoLostWakeup'
  BY <1>3, WaitersKept DEF Spawn, BaseInv, Ended
<1> QED
  BY <1>5, <1>6, <1>7, <1>8, <1>9, <1>10, <1>11, <1>12 DEF BaseInv

\* A message or a follow-up is sent.
LEMMA BaseSend ==
  ASSUME BaseInv, NEW x \in Calls, Send(x)
  PROVE  BaseInv'
<1> USE DEF SpawnFrame, SendFrame, CallFrame, WorkFrame, SessionFrame,
        WaitFrame, DeleteFrame, RestoreFrame, SessionStep, storeVars,
        turnVars, restoreVars, slotVars, workVars, mailVars, closeVars,
        history, To, Goes, Calling, Fails
<1>1. PICK at \in {"failed", "joined", "loading"} : op' = [op EXCEPT ![x] = at]
  BY DEF Send, BaseInv, CallInv
<1>2. Fits(x, at)
  BY <1>1 DEF Send, BaseInv, CallInv, Fits, Ended, CallPhases, SpawnPhases,
      SendPhases, DeletePhases
<1>3. /\ CallInv' /\ op'[x] \in {"failed", "joined", "loading"}
      /\ \A y \in Calls : y # x => op'[y] = op[y]
  BY <1>1, <1>2, CallMoves DEF BaseInv
<1>4. CallInv'
  BY <1>3
<1>5. StoreInv'
  BY DEF Send, BaseInv, StoreInv
<1>6. WorkerInv'
  BY DEF Send, BaseInv, WorkerInv
<1>7. MailInv'
  BY DEF Send, BaseInv, MailInv
<1>8. SlotInv'
  BY DEF Send, BaseInv, SlotInv, Reserved
<1>9. ReadyInv'
  BY DEF Send, BaseInv, ReadyInv, Running, Ended
<1>10. PlaceInv'
  BY <1>3, PlaceKept DEF Send, BaseInv, Ended
<1>11. NoLostWakeup'
  BY <1>3, WaitersKept DEF Send, BaseInv, Ended
<1> QED
  BY <1>4, <1>5, <1>6, <1>7, <1>8, <1>9, <1>10, <1>11 DEF BaseInv

\* An agent waits.
LEMMA BaseWait ==
  ASSUME BaseInv, NEW x \in Calls, Wait(x)
  PROVE  BaseInv'
<1> USE DEF SpawnFrame, SendFrame, CallFrame, WorkFrame, SessionFrame,
        WaitFrame, DeleteFrame, RestoreFrame, SessionStep, storeVars,
        turnVars, restoreVars, slotVars, workVars, mailVars, closeVars,
        history, To, Goes, Calling, Fails
<1>1. PICK at \in {"failed", "done", "waiting"} : op' = [op EXCEPT ![x] = at]
  BY DEF Wait, BaseInv, CallInv
<1>2. Fits(x, at)
  BY <1>1 DEF Wait, BaseInv, CallInv, Fits, Ended, CallPhases, SpawnPhases,
      SendPhases, DeletePhases
<1>3. /\ CallInv' /\ op'[x] \in {"failed", "done", "waiting"}
      /\ \A y \in Calls : y # x => op'[y] = op[y]
  BY <1>1, <1>2, CallMoves DEF BaseInv
<1>4. /\ worker' \in [Children -> Phases]
      /\ \A d \in Children : worker'[d] # "none" =>
           worker[d] # "none" \/ d \in agents
  BY StartedFacts DEF Wait, BaseInv, WorkerInv, PlaceInv
<1>5. CallInv'
  BY <1>3
<1>6. StoreInv'
  BY DEF Wait, BaseInv, StoreInv
<1>7. WorkerInv'
  BY <1>4 DEF Wait, BaseInv, WorkerInv
<1>8. MailInv'
  BY Constants DEF Wait, Drain, BaseInv, MailInv
<1>9. SlotInv'
  BY DEF Wait, BaseInv, SlotInv, Reserved
<1>10. ReadyInv'
  BY DEF Wait, BaseInv, ReadyInv, Running, Ended
<1>11. PlaceInv'
  BY <1>3, <1>4, PlaceKept DEF Wait, BaseInv, Ended
<1>12. NoLostWakeup'
  <2>1. CASE op'[x] = "waiting"
    <3>1. updates[x.by] = {} /\ x.by \notin mailbox /\ Live(x.by) /\ UNCHANGED mailVars
      BY <1>1, <1>3, <2>1 DEF Wait, BaseInv, CallInv
    <3> QED
      BY <1>3, <3>1 DEF Wait, BaseInv, NoLostWakeup, Live, Closing
  <2>2. CASE op'[x] # "waiting"
    <3>1. \A y \in Calls : op'[y] = "waiting" => op[y] = "waiting"
      BY <1>3, <2>2
    <3>2. \/ UNCHANGED mailVars
          \/ updates' = [updates EXCEPT ![x.by] = {}] /\ mailbox' = mailbox \ {x.by}
      BY DEF Wait, Drain
    <3>3. UNCHANGED <<agents, closing>>
      BY DEF Wait
    <3> QED
      BY <3>1, <3>2, <3>3, Constants DEF BaseInv, MailInv, NoLostWakeup, Live, Closing
  <2> QED
    BY <2>1, <2>2
<1> QED
  BY <1>5, <1>6, <1>7, <1>8, <1>9, <1>10, <1>11, <1>12 DEF BaseInv

\* A path is closed.
LEMMA BaseDelete ==
  ASSUME BaseInv, NEW x \in Calls, Delete(x)
  PROVE  BaseInv'
<1> USE DEF SpawnFrame, SendFrame, CallFrame, WorkFrame, SessionFrame,
        WaitFrame, DeleteFrame, RestoreFrame, SessionStep, storeVars,
        turnVars, restoreVars, slotVars, workVars, mailVars, closeVars,
        history, To, Goes, Calling, Fails
<1>1. \/ /\ CallInv' /\ UNCHANGED <<agents, closing, doomed>>
         /\ \A y \in Calls : op'[y] = "waiting" => op[y] = "waiting"
      \/ /\ CallInv' /\ ~Taken(x.to) /\ x.to \in exists
         /\ agents' = agents \cup {x.to}
         /\ closing' = closing \cup {Path[x.to]}
         /\ doomed' = doomed \cup {x.to}
         /\ \A y \in Calls :
              op'[y] = "waiting" => op[y] = "waiting" /\ y.by \notin Below(x)
  <2>1. Fits(x, "failed") /\ Fits(x, "messages") /\ Fits(x, "sweeping")
    BY DEF Delete, Fits, Ended, CallPhases, SpawnPhases, SendPhases,
           DeletePhases
  <2>2. CASE Taken(x.to) \/ x.to \notin exists
    <3>1. /\ UNCHANGED <<agents, closing, doomed>>
          /\ \E at \in {"failed", "sweeping"} : op' = [op EXCEPT ![x] = at]
      BY <2>2 DEF Delete
    <3>2. CallInv' /\ \A y \in Calls : op'[y] = "waiting" => op[y] = "waiting"
      BY <2>1, <3>1, CallMoves DEF BaseInv
    <3> QED
      BY <3>1, <3>2
  <2>3. CASE ~Taken(x.to) /\ x.to \in exists
    <3>1. /\ op' = Woken([op EXCEPT ![x] = "messages"], Below(x))
          /\ agents' = agents \cup {x.to}
          /\ closing' = closing \cup {Path[x.to]}
          /\ doomed' = doomed \cup {x.to}
      BY <2>3 DEF Delete
    <3>2. /\ CallInv'
          /\ \A y \in Calls :
               op'[y] = "waiting" => op[y] = "waiting" /\ y.by \notin Below(x)
      BY ZenonT(30), <2>1, <3>1, CallMovesAndWakes DEF BaseInv
    <3> QED
      BY <2>3, <3>1, <3>2
  <2> QED
    BY <2>2, <2>3
<1>2. x.to \in Children /\ PathOf(x.to) = Path[x.to]
  BY Constants, CallsAssumption DEF Delete, Agents
<1>3. CallInv'
  BY <1>1
<1>4. StoreInv'
  BY DEF Delete, BaseInv, StoreInv
<1>5. WorkerInv'
  BY <1>1, <1>2, Constants DEF Delete, BaseInv, WorkerInv
<1>6. MailInv'
  <2>1. UNCHANGED <<updates, mailbox, listed>>
    BY DEF Delete
  <2> QED
    BY <1>1, <1>2, <2>1, Constants DEF BaseInv, MailInv
<1>7. SlotInv'
  BY DEF Delete, BaseInv, SlotInv, Reserved
<1>8. ReadyInv'
  BY DEF Delete, BaseInv, ReadyInv, Running, Ended
<1>9. PlaceInv'
  BY <1>1, <1>2 DEF Delete, Taken, BaseInv, PlaceInv
<1>10. NoLostWakeup'
  <2>1. ASSUME NEW y \in Calls, op'[y] = "waiting"
        PROVE  op[y] = "waiting" /\ Live(y.by)
    BY <1>1, <2>1 DEF BaseInv, NoLostWakeup
  <2>2. ASSUME NEW y \in Calls, op'[y] = "waiting"
        PROVE  \/ closing' = closing
               \/ /\ ~IsPrefix(Path[x.to], PathOf(y.by))
                  /\ closing' = closing \cup {Path[x.to]}
    BY <1>1, <1>2, <2>1, <2>2 DEF Below, Under, Live
  <2>3. UNCHANGED <<updates, mailbox>> /\ agents \subseteq agents'
    BY <1>1 DEF Delete
  <2> QED
    BY <2>1, <2>2, <2>3 DEF BaseInv, NoLostWakeup, Live, Closing
<1> QED
  BY <1>3, <1>4, <1>5, <1>6, <1>7, <1>8, <1>9, <1>10 DEF BaseInv

\* A Turn that nobody in the tree asked for.
LEMMA BaseDirect ==
  ASSUME BaseInv, NEW x \in Calls, DirectTurn(x)
  PROVE  BaseInv'
<1> USE DEF SpawnFrame, SendFrame, CallFrame, WorkFrame, SessionFrame,
        WaitFrame, DeleteFrame, RestoreFrame, SessionStep, storeVars,
        turnVars, restoreVars, slotVars, workVars, mailVars, closeVars,
        history, To, Goes, Calling, Fails
<1>1. PICK at \in {"done"} : op' = [op EXCEPT ![x] = at]
  BY DEF DirectTurn, BaseInv, CallInv
<1>2. Fits(x, at)
  BY <1>1 DEF DirectTurn, BaseInv, CallInv, Fits, Ended, CallPhases,
      SpawnPhases, SendPhases, DeletePhases
<1>3. /\ CallInv' /\ op'[x] \in {"done"}
      /\ \A y \in Calls : y # x => op'[y] = op[y]
  BY <1>1, <1>2, CallMoves DEF BaseInv
<1>4. CallInv'
  BY <1>3
<1>5. StoreInv'
  BY Records, Constants DEF DirectTurn, BaseInv, StoreInv
<1>6. WorkerInv'
  BY DEF DirectTurn, BaseInv, WorkerInv
<1>7. MailInv'
  BY DEF DirectTurn, BaseInv, MailInv
<1>8. SlotInv'
  BY DEF DirectTurn, BaseInv, SlotInv, Reserved
<1>9. ReadyInv'
  BY DEF DirectTurn, BaseInv, ReadyInv, Running, Ended
<1>10. PlaceInv'
  BY <1>3, PlaceKept DEF DirectTurn, BaseInv, Ended
<1>11. NoLostWakeup'
  BY <1>3, WaitersKept DEF DirectTurn, BaseInv, Ended
<1> QED
  BY <1>4, <1>5, <1>6, <1>7, <1>8, <1>9, <1>10, <1>11 DEF BaseInv

\* The thread of a child is created.
LEMMA BaseCreate ==
  ASSUME BaseInv, NEW x \in Calls, CreateThread(x)
  PROVE  BaseInv'
<1> USE DEF SpawnFrame, SendFrame, CallFrame, WorkFrame, SessionFrame,
        WaitFrame, DeleteFrame, RestoreFrame, SessionStep, storeVars,
        turnVars, restoreVars, slotVars, workVars, mailVars, closeVars,
        history, To, Goes, Calling, Fails
<1>1. PICK at \in {"linking", "failed"} : op' = [op EXCEPT ![x] = at]
  BY DEF CreateThread, SpawnEnds, ReleaseIdle, BaseInv, CallInv
<1>2. Fits(x, at)
  BY <1>1 DEF CreateThread, SpawnEnds, ReleaseIdle, BaseInv, CallInv, Fits,
      Ended, CallPhases, SpawnPhases, SendPhases, DeletePhases
<1>3. /\ CallInv' /\ op'[x] \in {"linking", "failed"}
      /\ \A y \in Calls : y # x => op'[y] = op[y]
  BY <1>1, <1>2, CallMoves DEF BaseInv
<1>4. SlotInv'
  <2>1. x.to \in Children /\ Path[x.to] \in Paths
    BY Constants DEF CreateThread, SpawnEnds, ReleaseIdle, BaseInv, CallInv, Fits, Ended, CallPhases, SpawnPhases, SendPhases, DeletePhases
  <2>2. UNCHANGED slotVars \/ ReleaseBut(Path[x.to], Root)
    BY DEF CreateThread, SpawnEnds, ReleaseIdle
  <2> QED
    BY <2>1, <2>2, SlotReleased DEF BaseInv, SlotInv, Reserved
<1>5. CallInv'
  BY <1>3
<1>6. StoreInv'
  BY Constants DEF CreateThread, BaseInv, StoreInv, CallInv, Fits, Ended,
      CallPhases, SpawnPhases, SendPhases, DeletePhases
<1>7. WorkerInv'
  BY DEF CreateThread, SpawnEnds, ReleaseIdle, BaseInv, WorkerInv
<1>8. MailInv'
  BY DEF CreateThread, SpawnEnds, ReleaseIdle, BaseInv, MailInv
<1>9. SlotInv'
  BY <1>4
<1>10. ReadyInv'
  BY DEF CreateThread, SpawnEnds, ReleaseIdle, BaseInv, ReadyInv, Running,
      Ended
<1>11. PlaceInv'
  BY <1>3, PlaceKept DEF CreateThread, SpawnEnds, ReleaseIdle, BaseInv, Ended
<1>12. NoLostWakeup'
  BY <1>3, WaitersKept DEF CreateThread, SpawnEnds, ReleaseIdle, BaseInv,
      Ended
<1> QED
  BY <1>5, <1>6, <1>7, <1>8, <1>9, <1>10, <1>11, <1>12 DEF BaseInv

\* The thread joins the tree.
LEMMA BaseLink ==
  ASSUME BaseInv, NEW x \in Calls, LinkThread(x)
  PROVE  BaseInv'
<1> USE DEF SpawnFrame, SendFrame, CallFrame, WorkFrame, SessionFrame,
        WaitFrame, DeleteFrame, RestoreFrame, SessionStep, storeVars,
        turnVars, restoreVars, slotVars, workVars, mailVars, closeVars,
        history, To, Goes, Calling, Fails
<1>1. PICK at \in {"created", "discarding"} : op' = [op EXCEPT ![x] = at]
  BY DEF LinkThread, BaseInv, CallInv
<1>2. Fits(x, at)
  BY <1>1 DEF LinkThread, BaseInv, CallInv, Fits, Ended, CallPhases,
      SpawnPhases, SendPhases, DeletePhases
<1>3. /\ CallInv' /\ op'[x] \in {"created", "discarding"}
      /\ \A y \in Calls : y # x => op'[y] = op[y]
  BY <1>1, <1>2, CallMoves DEF BaseInv
<1>4. CallInv'
  BY <1>3
<1>5. StoreInv'
  BY ZenonT(30), Constants DEF LinkThread, BaseInv, StoreInv, CallInv, Fits, Ended,
      CallPhases, SpawnPhases, SendPhases, DeletePhases
<1>6. WorkerInv'
  BY DEF LinkThread, BaseInv, WorkerInv
<1>7. MailInv'
  BY DEF LinkThread, BaseInv, MailInv
<1>8. SlotInv'
  BY DEF LinkThread, BaseInv, SlotInv, Reserved
<1>9. ReadyInv'
  BY DEF LinkThread, BaseInv, ReadyInv, Running, Ended
<1>10. PlaceInv'
  BY <1>3, PlaceKept DEF LinkThread, BaseInv, Ended
<1>11. NoLostWakeup'
  BY <1>3, WaitersKept DEF LinkThread, BaseInv, Ended
<1> QED
  BY <1>4, <1>5, <1>6, <1>7, <1>8, <1>9, <1>10, <1>11 DEF BaseInv

\* A thread without an edge is discarded.
LEMMA BaseDiscard ==
  ASSUME BaseInv, NEW x \in Calls, DiscardChild(x)
  PROVE  BaseInv'
<1> USE DEF SpawnFrame, SendFrame, CallFrame, WorkFrame, SessionFrame,
        WaitFrame, DeleteFrame, RestoreFrame, SessionStep, storeVars,
        turnVars, restoreVars, slotVars, workVars, mailVars, closeVars,
        history, To, Goes, Calling, Fails
<1>1. PICK at \in {"failed"} : op' = [op EXCEPT ![x] = at]
  BY DEF DiscardChild, SpawnEnds, ReleaseIdle, BaseInv, CallInv
<1>2. Fits(x, at)
  BY <1>1 DEF DiscardChild, SpawnEnds, ReleaseIdle, BaseInv, CallInv, Fits,
      Ended, CallPhases, SpawnPhases, SendPhases, DeletePhases
<1>3. /\ CallInv' /\ op'[x] \in {"failed"}
      /\ \A y \in Calls : y # x => op'[y] = op[y]
  BY <1>1, <1>2, CallMoves DEF BaseInv
<1>4. SlotInv'
  <2>1. x.to \in Children /\ Path[x.to] \in Paths
    BY Constants DEF DiscardChild, SpawnEnds, ReleaseIdle, BaseInv, CallInv, Fits, Ended, CallPhases, SpawnPhases, SendPhases, DeletePhases
  <2>2. UNCHANGED slotVars \/ ReleaseBut(Path[x.to], Root)
    BY DEF DiscardChild, SpawnEnds, ReleaseIdle
  <2> QED
    BY <2>1, <2>2, SlotReleased DEF BaseInv, SlotInv, Reserved
<1>5. CallInv'
  BY <1>3
<1>6. StoreInv'
  BY DEF DiscardChild, SpawnEnds, ReleaseIdle, BaseInv, StoreInv
<1>7. WorkerInv'
  BY DEF DiscardChild, SpawnEnds, ReleaseIdle, BaseInv, WorkerInv
<1>8. MailInv'
  BY DEF DiscardChild, SpawnEnds, ReleaseIdle, BaseInv, MailInv
<1>9. SlotInv'
  BY <1>4
<1>10. ReadyInv'
  BY DEF DiscardChild, SpawnEnds, ReleaseIdle, BaseInv, ReadyInv, Running,
      Ended
<1>11. PlaceInv'
  BY <1>3, PlaceKept DEF DiscardChild, SpawnEnds, ReleaseIdle, BaseInv, Ended
<1>12. NoLostWakeup'
  BY <1>3, WaitersKept DEF DiscardChild, SpawnEnds, ReleaseIdle, BaseInv,
      Ended
<1> QED
  BY <1>5, <1>6, <1>7, <1>8, <1>9, <1>10, <1>11, <1>12 DEF BaseInv

\* A child is registered.
LEMMA BaseRegister ==
  ASSUME BaseInv, NEW x \in Calls, RegisterChild(x)
  PROVE  BaseInv'
<1> USE DEF SpawnFrame, SendFrame, CallFrame, WorkFrame, SessionFrame,
        WaitFrame, DeleteFrame, RestoreFrame, SessionStep, storeVars,
        turnVars, restoreVars, slotVars, workVars, mailVars, closeVars,
        history, To, Goes, Calling, Fails
<1>1. /\ x.type = "spawn" /\ x.to \in Children
      /\ Task("none") \in TaskType
  BY Constants DEF RegisterChild, Task, TaskType, Ids, BaseInv, CallInv,
      Fits, Ended, CallPhases, SpawnPhases, SendPhases, DeletePhases
<1>2. \/ /\ agents' = agents \cup {x.to} /\ op'[x] = "done"
         /\ tasks' = [tasks EXCEPT ![x.to] = Append(@, Task("none"))]
         /\ worker' = Started({x.to}, tasks')
      \/ UNCHANGED <<agents, workVars>>
  BY DEF RegisterChild, Enqueue, BaseInv, CallInv
<1>3. PICK at \in {"rollback", "done"} : op' = [op EXCEPT ![x] = at]
  BY DEF RegisterChild, Enqueue, Task, BaseInv, CallInv
<1>4. Fits(x, at)
  BY <1>3 DEF RegisterChild, Enqueue, Task, BaseInv, CallInv, Fits, Ended,
      CallPhases, SpawnPhases, SendPhases, DeletePhases
<1>5. /\ CallInv' /\ op'[x] \in {"rollback", "done"}
      /\ \A y \in Calls : y # x => op'[y] = op[y]
  BY <1>3, <1>4, CallMoves DEF BaseInv
<1>6. CallInv'
  BY <1>5
<1>7. StoreInv'
  BY DEF RegisterChild, Enqueue, Task, BaseInv, StoreInv
<1>8. WorkerInv'
  <2>1. Append(tasks[x.to], Task("none")) \in Seq(TaskType)
    BY <1>1, Queues DEF BaseInv, WorkerInv
  <2>2. tasks' \in [Children -> Seq(TaskType)]
    BY <1>2, <2>1 DEF BaseInv, WorkerInv
  <2>3. Started({x.to}, tasks') \in [Children -> Phases]
    BY StartedFacts DEF BaseInv
  <2> QED
    BY <1>1, <1>2, <2>2, <2>3, Constants DEF BaseInv, WorkerInv
<1>9. MailInv'
  BY DEF RegisterChild, Enqueue, Task, BaseInv, MailInv
<1>10. SlotInv'
  BY DEF RegisterChild, Enqueue, Task, BaseInv, SlotInv, Reserved
<1>11. ReadyInv'
  BY DEF RegisterChild, Enqueue, Task, BaseInv, ReadyInv, Running, Ended
<1>12. PlaceInv'
  <2>1. CASE UNCHANGED <<agents, workVars>>
    BY <2>1, PlaceKept DEF BaseInv
  <2>2. CASE agents' = agents \cup {x.to} /\ op'[x] = "done"
    <3>1. ~Taken(x.to)
      BY <2>2 DEF RegisterChild, BaseInv, CallInv
    <3>2. \A d \in Children : worker'[d] # "none" => worker[d] # "none" \/ d = x.to
      BY <1>2, StartedFacts DEF BaseInv
    <3> QED
      BY <2>2, <3>1, <3>2 DEF BaseInv, PlaceInv, Taken
  <2> QED
    BY <1>2, <2>1, <2>2
<1>13. NoLostWakeup'
  BY <1>2, <1>5 DEF RegisterChild, BaseInv, NoLostWakeup, Live, Closing
<1> QED
  BY <1>6, <1>7, <1>8, <1>9, <1>10, <1>11, <1>12, <1>13 DEF BaseInv

\* A child whose path was closed is removed.
LEMMA BaseRollback ==
  ASSUME BaseInv, NEW x \in Calls, RollbackChild(x)
  PROVE  BaseInv'
<1> USE DEF SpawnFrame, SendFrame, CallFrame, WorkFrame, SessionFrame,
        WaitFrame, DeleteFrame, RestoreFrame, SessionStep, storeVars,
        turnVars, restoreVars, slotVars, workVars, mailVars, closeVars,
        history, To, Goes, Calling, Fails
<1>1. /\ CallInv'
      /\ \A y \in Calls : op'[y] # op[y] => op'[y] \in {"unlinking", "failed"}
      /\ op[x] \notin Ended /\ \A y \in Calls : op[y] \in Ended => op'[y] = op[y]
  <2>1. CASE op' = [op EXCEPT ![x] = "unlinking"]
    BY <2>1 DEF RollbackChild, BaseInv, CallInv, Fits, Ended, CallPhases, SpawnPhases, SendPhases, DeletePhases
  <2>2. CASE op' = [op EXCEPT ![x] = "failed"]
    BY <2>2 DEF RollbackChild, BaseInv, CallInv, Fits, Ended, CallPhases, SpawnPhases, SendPhases, DeletePhases
  <2>3. CASE op' = [y \in Calls |->
                      IF y = x \/ (op[y] = "spawns" /\ Under(x.to, PathOf(y.to)))
                      THEN "failed" ELSE op[y]]
    BY <2>3 DEF RollbackChild, BaseInv, CallInv, Fits, Ended, CallPhases, SpawnPhases, SendPhases, DeletePhases
  <2> QED
    BY <2>1, <2>2, <2>3 DEF RollbackChild, RollbackFails, SpawnEnds, ReleaseIdle
<1>2. SlotInv'
  <2>1. x.to \in Children /\ Path[x.to] \in Paths
    BY Constants DEF RollbackChild, RollbackFails, SpawnEnds, ReleaseIdle, BaseInv, CallInv, Fits, Ended, CallPhases, SpawnPhases, SendPhases, DeletePhases
  <2>2. UNCHANGED slotVars \/ ReleaseBut(Path[x.to], Root)
    BY DEF RollbackChild, RollbackFails, SpawnEnds, ReleaseIdle
  <2> QED
    BY <2>1, <2>2, SlotReleased DEF BaseInv, SlotInv, Reserved
<1>3. CallInv'
  BY <1>1
<1>4. StoreInv'
  BY DEF RollbackChild, RollbackFails, SpawnEnds, ReleaseIdle, BaseInv,
      StoreInv
<1>5. WorkerInv'
  BY DEF RollbackChild, RollbackFails, SpawnEnds, ReleaseIdle, BaseInv,
      WorkerInv
<1>6. MailInv'
  BY DEF RollbackChild, RollbackFails, SpawnEnds, ReleaseIdle, BaseInv,
      MailInv
<1>7. SlotInv'
  BY <1>2
<1>8. ReadyInv'
  BY DEF RollbackChild, RollbackFails, SpawnEnds, ReleaseIdle, BaseInv,
      ReadyInv, Running, Ended
<1>9. PlaceInv'
  BY <1>1, PlaceKept DEF RollbackChild, RollbackFails, SpawnEnds,
      ReleaseIdle, BaseInv, Ended
<1>10. NoLostWakeup'
  BY <1>1, WaitersKept DEF RollbackChild, RollbackFails, SpawnEnds,
      ReleaseIdle, BaseInv, Ended
<1> QED
  BY <1>3, <1>4, <1>5, <1>6, <1>7, <1>8, <1>9, <1>10 DEF BaseInv

\* A repeated follow-up shares the receipt.
LEMMA BaseJoin ==
  ASSUME BaseInv, NEW x \in Calls, JoinEnds(x)
  PROVE  BaseInv'
<1> USE DEF SpawnFrame, SendFrame, CallFrame, WorkFrame, SessionFrame,
        WaitFrame, DeleteFrame, RestoreFrame, SessionStep, storeVars,
        turnVars, restoreVars, slotVars, workVars, mailVars, closeVars,
        history, To, Goes, Calling, Fails
<1>1. PICK at \in {"failed", "done"} : op' = [op EXCEPT ![x] = at]
  BY DEF JoinEnds, BaseInv, CallInv
<1>2. Fits(x, at)
  BY <1>1 DEF JoinEnds, BaseInv, CallInv, Fits, Ended, CallPhases,
      SpawnPhases, SendPhases, DeletePhases
<1>3. /\ CallInv' /\ op'[x] \in {"failed", "done"}
      /\ \A y \in Calls : y # x => op'[y] = op[y]
  BY <1>1, <1>2, CallMoves DEF BaseInv
<1>4. CallInv'
  BY <1>3
<1>5. StoreInv'
  BY DEF JoinEnds, BaseInv, StoreInv
<1>6. WorkerInv'
  BY DEF JoinEnds, BaseInv, WorkerInv
<1>7. MailInv'
  BY DEF JoinEnds, BaseInv, MailInv
<1>8. SlotInv'
  BY DEF JoinEnds, BaseInv, SlotInv, Reserved
<1>9. ReadyInv'
  BY DEF JoinEnds, BaseInv, ReadyInv, Running, Ended
<1>10. PlaceInv'
  BY <1>3, PlaceKept DEF JoinEnds, BaseInv, Ended
<1>11. NoLostWakeup'
  BY <1>3, WaitersKept DEF JoinEnds, BaseInv, Ended
<1> QED
  BY <1>4, <1>5, <1>6, <1>7, <1>8, <1>9, <1>10, <1>11 DEF BaseInv

\* The recipient is loaded.
LEMMA BaseLoad ==
  ASSUME BaseInv, NEW x \in Calls, LoadRecipient(x)
  PROVE  BaseInv'
<1> USE DEF SpawnFrame, SendFrame, CallFrame, WorkFrame, SessionFrame,
        WaitFrame, DeleteFrame, RestoreFrame, SessionStep, storeVars,
        turnVars, restoreVars, slotVars, workVars, mailVars, closeVars,
        history, To, Goes, Calling, Fails
<1>1. PICK at \in {"failed", "steering", "posting"} : op' = [op EXCEPT ![x] = at]
  BY DEF LoadRecipient, BaseInv, CallInv
<1>2. Fits(x, at)
  BY <1>1 DEF LoadRecipient, BaseInv, CallInv, Fits, Ended, CallPhases,
      SpawnPhases, SendPhases, DeletePhases
<1>3. /\ CallInv' /\ op'[x] \in {"failed", "steering", "posting"}
      /\ \A y \in Calls : y # x => op'[y] = op[y]
  BY <1>1, <1>2, CallMoves DEF BaseInv
<1>4. CallInv'
  BY <1>3
<1>5. StoreInv'
  BY DEF LoadRecipient, BaseInv, StoreInv
<1>6. WorkerInv'
  BY DEF LoadRecipient, BaseInv, WorkerInv
<1>7. MailInv'
  BY DEF LoadRecipient, BaseInv, MailInv
<1>8. SlotInv'
  BY DEF LoadRecipient, BaseInv, SlotInv, Reserved
<1>9. ReadyInv'
  BY DEF LoadRecipient, BaseInv, ReadyInv, Running, Ended
<1>10. PlaceInv'
  BY <1>3, PlaceKept DEF LoadRecipient, BaseInv, Ended
<1>11. NoLostWakeup'
  BY <1>3, WaitersKept DEF LoadRecipient, BaseInv, Ended
<1> QED
  BY <1>4, <1>5, <1>6, <1>7, <1>8, <1>9, <1>10, <1>11 DEF BaseInv

\* A message arrives.
LEMMA BaseDeliver ==
  ASSUME BaseInv, NEW x \in Calls, DeliverMessage(x)
  PROVE  BaseInv'
<1> USE DEF SpawnFrame, SendFrame, CallFrame, WorkFrame, SessionFrame,
        WaitFrame, DeleteFrame, RestoreFrame, SessionStep, storeVars,
        turnVars, restoreVars, slotVars, workVars, mailVars, closeVars,
        history, To, Goes, Calling, Fails
<1>1. \/ /\ op'[x] = "done" /\ Arrives(x) /\ CallInv'
         /\ mailbox' = mailbox \cup {x.to} /\ UNCHANGED updates
         /\ \A y \in Calls : y # x =>
              \/ op'[y] = op[y] /\ ~(op[y] = "waiting" /\ y.by = x.to)
              \/ op[y] = "waiting" /\ op'[y] = "woken"
      \/ /\ UNCHANGED mailVars /\ CallInv'
         /\ op'[x] \in {"starting", "reserving", "failed"}
         /\ \A y \in Calls : y # x => op'[y] = op[y]
  <2>1. CASE Arrives(x)
    <3>1. Fits(x, "done")
      BY DEF Fits, Ended, CallPhases, SpawnPhases, SendPhases, DeletePhases
    <3>2. /\ op' = Woken([op EXCEPT ![x] = "done"], {x.to})
          /\ mailbox' = mailbox \cup {x.to} /\ UNCHANGED updates
      BY <2>1 DEF Arrives
    <3>3. /\ CallInv' /\ op'[x] = "done"
          /\ \A y \in Calls : y # x =>
               \/ op'[y] = op[y] /\ ~(op[y] = "waiting" /\ y.by \in {x.to})
               \/ op[y] = "waiting" /\ op'[y] = "woken"
      BY <3>1, <3>2, CallMovesAndWakes DEF BaseInv
    <3> QED
      BY <2>1, <3>2, <3>3
  <2>2. ASSUME NEW at \in {"starting", "reserving", "failed"},
               UNCHANGED mailVars, op' = [op EXCEPT ![x] = at],
               at # "failed" => op[x] = "steering"
        PROVE  /\ CallInv' /\ op'[x] = at
               /\ \A y \in Calls : y # x => op'[y] = op[y]
    <3>1. Fits(x, at)
      BY <2>2 DEF BaseInv, CallInv, Fits, Ended, CallPhases, SpawnPhases, SendPhases, DeletePhases
    <3> QED
      BY <2>2, <3>1, CallMoves DEF BaseInv
  <2>3. Arrives(x) \/ /\ UNCHANGED mailVars
                      /\ \E at \in {"starting", "reserving", "failed"} :
                           /\ op' = [op EXCEPT ![x] = at]
                           /\ at # "failed" => op[x] = "steering"
    BY DEF DeliverMessage
  <2> QED
    BY <2>1, <2>2, <2>3
<1>2. CallInv'
  BY <1>1
<1>3. StoreInv'
  BY Constants DEF DeliverMessage, BaseInv, StoreInv
<1>4. WorkerInv'
  BY DEF DeliverMessage, BaseInv, WorkerInv
<1>5. MailInv'
  BY <1>1, Constants DEF DeliverMessage, BaseInv, MailInv
<1>6. SlotInv'
  BY DEF DeliverMessage, BaseInv, SlotInv, Reserved
<1>7. ReadyInv'
  BY DEF DeliverMessage, BaseInv, ReadyInv, Running, Ended
<1>8. PlaceInv'
  BY <1>1, PlaceKept DEF DeliverMessage, BaseInv, Ended
<1>9. NoLostWakeup'
  <2>1. UNCHANGED <<agents, closing>> /\ UNCHANGED updates
    BY <1>1 DEF DeliverMessage
  <2>2. ASSUME NEW y \in Calls, op'[y] = "waiting"
        PROVE  op[y] = "waiting" /\ (y.by \in mailbox' => y.by \in mailbox)
    BY <1>1, <2>2
  <2> QED
    BY <2>1, <2>2 DEF BaseInv, NoLostWakeup, Live, Closing
<1> QED
  BY <1>2, <1>3, <1>4, <1>5, <1>6, <1>7, <1>8, <1>9 DEF BaseInv

\* A follow-up is taken by a Turn or asks for a slot.
LEMMA BaseSteer ==
  ASSUME BaseInv, NEW x \in Calls, SteerChild(x)
  PROVE  BaseInv'
<1> USE DEF SpawnFrame, SendFrame, CallFrame, WorkFrame, SessionFrame,
        WaitFrame, DeleteFrame, RestoreFrame, SessionStep, storeVars,
        turnVars, restoreVars, slotVars, workVars, mailVars, closeVars,
        history, To, Goes, Calling, Fails
<1>1. \/ /\ op'[x] = "done" /\ Arrives(x) /\ CallInv'
         /\ mailbox' = mailbox \cup {x.to} /\ UNCHANGED updates
         /\ \A y \in Calls : y # x =>
              \/ op'[y] = op[y] /\ ~(op[y] = "waiting" /\ y.by = x.to)
              \/ op[y] = "waiting" /\ op'[y] = "woken"
      \/ /\ UNCHANGED mailVars /\ CallInv'
         /\ op'[x] \in {"starting", "reserving", "failed"}
         /\ \A y \in Calls : y # x => op'[y] = op[y]
  <2>1. CASE Arrives(x)
    <3>1. Fits(x, "done")
      BY DEF Fits, Ended, CallPhases, SpawnPhases, SendPhases, DeletePhases
    <3>2. /\ op' = Woken([op EXCEPT ![x] = "done"], {x.to})
          /\ mailbox' = mailbox \cup {x.to} /\ UNCHANGED updates
      BY <2>1 DEF Arrives
    <3>3. /\ CallInv' /\ op'[x] = "done"
          /\ \A y \in Calls : y # x =>
               \/ op'[y] = op[y] /\ ~(op[y] = "waiting" /\ y.by \in {x.to})
               \/ op[y] = "waiting" /\ op'[y] = "woken"
      BY <3>1, <3>2, CallMovesAndWakes DEF BaseInv
    <3> QED
      BY <2>1, <3>2, <3>3
  <2>2. ASSUME NEW at \in {"starting", "reserving", "failed"},
               UNCHANGED mailVars, op' = [op EXCEPT ![x] = at],
               at # "failed" => op[x] = "steering"
        PROVE  /\ CallInv' /\ op'[x] = at
               /\ \A y \in Calls : y # x => op'[y] = op[y]
    <3>1. Fits(x, at)
      BY <2>2 DEF BaseInv, CallInv, Fits, Ended, CallPhases, SpawnPhases, SendPhases, DeletePhases
    <3> QED
      BY <2>2, <3>1, CallMoves DEF BaseInv
  <2>3. Arrives(x) \/ /\ UNCHANGED mailVars
                      /\ \E at \in {"starting", "reserving", "failed"} :
                           /\ op' = [op EXCEPT ![x] = at]
                           /\ at # "failed" => op[x] = "steering"
    BY DEF SteerChild
  <2> QED
    BY <2>1, <2>2, <2>3
<1>2. SlotInv'
  <2>1. x.to \in Children /\ Path[x.to] \in Paths
    BY Constants DEF SteerChild, BaseInv, CallInv, Fits, Ended, CallPhases, SpawnPhases, SendPhases, DeletePhases
  <2>2. \/ ReleaseBut(Path[x.to], Root)
        \/ ~Refused(Path[x.to]) /\ Reserve(Path[x.to])
    BY DEF SteerChild, ReleaseIdle
  <2> QED
    BY <2>1, <2>2, SlotReleased, SlotReserved DEF BaseInv
<1>3. CallInv'
  BY <1>1
<1>4. StoreInv'
  <2>1. \/ UNCHANGED steered
        \/ \E b \in BOOLEAN :
             steered' = [steered EXCEPT ![x.to] =
                           IF b THEN @ \cup {x.id} ELSE @]
    BY Zenon DEF SteerChild
  <2>2. UNCHANGED <<storeVars, turn, restoreVars>>
    BY DEF SteerChild
  <2>3. x.id \in Ids
    BY DEF Ids
  <2>4. steered' \in [Children -> SUBSET Ids]
    <3>1. steered \in [Children -> SUBSET Ids]
      BY DEF BaseInv, StoreInv
    <3>2. ASSUME NEW b \in BOOLEAN
          PROVE  [steered EXCEPT ![x.to] = IF b THEN @ \cup {x.id} ELSE @]
                   \in [Children -> SUBSET Ids]
      BY <2>3, <3>1
    <3> QED
      BY <2>1, <3>1, <3>2
  <2> QED
    BY <2>2, <2>4 DEF BaseInv, StoreInv
<1>5. WorkerInv'
  BY DEF SteerChild, BaseInv, WorkerInv
<1>6. MailInv'
  BY <1>1, Constants DEF SteerChild, BaseInv, MailInv
<1>7. SlotInv'
  BY <1>2
<1>8. ReadyInv'
  BY DEF SteerChild, BaseInv, ReadyInv, Running, Ended
<1>9. PlaceInv'
  BY <1>1, PlaceKept DEF SteerChild, BaseInv, Ended
<1>10. NoLostWakeup'
  <2>1. UNCHANGED <<agents, closing>> /\ UNCHANGED updates
    BY <1>1 DEF SteerChild
  <2>2. ASSUME NEW y \in Calls, op'[y] = "waiting"
        PROVE  op[y] = "waiting" /\ (y.by \in mailbox' => y.by \in mailbox)
    BY <1>1, <2>2
  <2> QED
    BY <2>1, <2>2 DEF BaseInv, NoLostWakeup, Live, Closing
<1> QED
  BY <1>3, <1>4, <1>5, <1>6, <1>7, <1>8, <1>9, <1>10 DEF BaseInv

\* A follow-up is queued.
LEMMA BaseFollowup ==
  ASSUME BaseInv, NEW x \in Calls, StartFollowup(x)
  PROVE  BaseInv'
<1> USE DEF SpawnFrame, SendFrame, CallFrame, WorkFrame, SessionFrame,
        WaitFrame, DeleteFrame, RestoreFrame, SessionStep, storeVars,
        turnVars, restoreVars, slotVars, workVars, mailVars, closeVars,
        history, To, Goes, Calling, Fails
<1>1. /\ x.to \in Children /\ Task(x.id) \in TaskType
  BY Constants DEF StartFollowup, Task, TaskType, BaseInv, CallInv, Fits,
      Ended, CallPhases, SpawnPhases, SendPhases, DeletePhases
<1>2. \/ UNCHANGED workVars
      \/ /\ x.to \in agents
         /\ tasks' = [tasks EXCEPT ![x.to] = Append(@, Task(x.id))]
         /\ worker' = Started({x.to}, tasks')
  BY DEF StartFollowup, Enqueue, Live
<1>3. PICK at \in {"done", "failed"} : op' = [op EXCEPT ![x] = at]
  BY DEF StartFollowup, Enqueue, ReleaseIdle, BaseInv, CallInv
<1>4. Fits(x, at)
  BY <1>3 DEF StartFollowup, Enqueue, ReleaseIdle, BaseInv, CallInv, Fits,
      Ended, CallPhases, SpawnPhases, SendPhases, DeletePhases
<1>5. /\ CallInv' /\ op'[x] \in {"done", "failed"}
      /\ \A y \in Calls : y # x => op'[y] = op[y]
  BY <1>3, <1>4, CallMoves DEF BaseInv
<1>6. SlotInv'
  <2>1. x.to \in Children /\ Path[x.to] \in Paths
    BY Constants DEF StartFollowup, ReleaseIdle, BaseInv, CallInv, Fits, Ended, CallPhases, SpawnPhases, SendPhases, DeletePhases
  <2>2. UNCHANGED slotVars \/ ReleaseBut(Path[x.to], Root)
    BY DEF StartFollowup, ReleaseIdle
  <2> QED
    BY <2>1, <2>2, SlotReleased DEF BaseInv, SlotInv, Reserved
<1>7. /\ worker' \in [Children -> Phases]
      /\ \A d \in Children : worker'[d] # "none" =>
           worker[d] # "none" \/ d \in agents
  BY <1>2, StartedFacts DEF BaseInv, WorkerInv, PlaceInv
<1>8. CallInv'
  BY <1>5
<1>9. StoreInv'
  BY DEF StartFollowup, Enqueue, ReleaseIdle, BaseInv, StoreInv
<1>10. WorkerInv'
  <2>1. Append(tasks[x.to], Task(x.id)) \in Seq(TaskType)
    BY <1>1, Queues DEF BaseInv, WorkerInv
  <2>2. tasks' \in [Children -> Seq(TaskType)]
    BY <1>2, <2>1 DEF BaseInv, WorkerInv
  <2> QED
    BY <1>7, <2>2 DEF StartFollowup, BaseInv, WorkerInv
<1>11. MailInv'
  BY DEF StartFollowup, Enqueue, ReleaseIdle, BaseInv, MailInv
<1>12. SlotInv'
  BY <1>6
<1>13. ReadyInv'
  BY DEF StartFollowup, Enqueue, ReleaseIdle, BaseInv, ReadyInv, Running,
      Ended
<1>14. PlaceInv'
  BY <1>5, <1>7, PlaceKept DEF StartFollowup, Enqueue, ReleaseIdle, BaseInv,
      Ended
<1>15. NoLostWakeup'
  BY <1>5, WaitersKept DEF StartFollowup, Enqueue, ReleaseIdle, BaseInv,
      Ended
<1> QED
  BY <1>8, <1>9, <1>10, <1>11, <1>12, <1>13, <1>14, <1>15 DEF BaseInv

\* A wait returns.
LEMMA BaseWaitEnds ==
  ASSUME BaseInv, NEW x \in Calls, WaitEnds(x)
  PROVE  BaseInv'
<1> USE DEF SpawnFrame, SendFrame, CallFrame, WorkFrame, SessionFrame,
        WaitFrame, DeleteFrame, RestoreFrame, SessionStep, storeVars,
        turnVars, restoreVars, slotVars, workVars, mailVars, closeVars,
        history, To, Goes, Calling, Fails
<1>1. PICK at \in {"done"} : op' = [op EXCEPT ![x] = at]
  BY DEF WaitEnds, BaseInv, CallInv
<1>2. Fits(x, at)
  BY <1>1 DEF WaitEnds, BaseInv, CallInv, Fits, Ended, CallPhases,
      SpawnPhases, SendPhases, DeletePhases
<1>3. /\ CallInv' /\ op'[x] \in {"done"}
      /\ \A y \in Calls : y # x => op'[y] = op[y]
  BY <1>1, <1>2, CallMoves DEF BaseInv
<1>4. CallInv'
  BY <1>3
<1>5. StoreInv'
  BY DEF WaitEnds, BaseInv, StoreInv
<1>6. WorkerInv'
  BY DEF WaitEnds, BaseInv, WorkerInv
<1>7. MailInv'
  BY Constants DEF WaitEnds, Drain, BaseInv, MailInv
<1>8. SlotInv'
  BY DEF WaitEnds, BaseInv, SlotInv, Reserved
<1>9. ReadyInv'
  BY DEF WaitEnds, BaseInv, ReadyInv, Running, Ended
<1>10. PlaceInv'
  BY <1>3, PlaceKept DEF WaitEnds, BaseInv, Ended
<1>11. NoLostWakeup'
  <2>1. \A y \in Calls : op'[y] = "waiting" => op[y] = "waiting"
    BY <1>3
  <2>2. \/ UNCHANGED mailVars
        \/ updates' = [updates EXCEPT ![x.by] = {}] /\ mailbox' = mailbox \ {x.by}
    BY DEF WaitEnds, Drain
  <2>3. UNCHANGED <<agents, closing>>
    BY DEF WaitEnds
  <2> QED
    BY <2>1, <2>2, <2>3, Constants DEF BaseInv, MailInv, NoLostWakeup, Live, Closing
<1> QED
  BY <1>4, <1>5, <1>6, <1>7, <1>8, <1>9, <1>10, <1>11 DEF BaseInv

\* The messages under a path have settled.
LEMMA BaseMessages ==
  ASSUME BaseInv, NEW x \in Calls, MessagesSettle(x)
  PROVE  BaseInv'
<1> USE DEF SpawnFrame, SendFrame, CallFrame, WorkFrame, SessionFrame,
        WaitFrame, DeleteFrame, RestoreFrame, SessionStep, storeVars,
        turnVars, restoreVars, slotVars, workVars, mailVars, closeVars,
        history, To, Goes, Calling, Fails
<1>1. PICK at \in {"spawns"} : op' = [op EXCEPT ![x] = at]
  BY DEF MessagesSettle, BaseInv, CallInv
<1>2. Fits(x, at)
  BY <1>1 DEF MessagesSettle, BaseInv, CallInv, Fits, Ended, CallPhases,
      SpawnPhases, SendPhases, DeletePhases
<1>3. /\ CallInv' /\ op'[x] \in {"spawns"}
      /\ \A y \in Calls : y # x => op'[y] = op[y]
  BY <1>1, <1>2, CallMoves DEF BaseInv
<1>4. CallInv'
  BY <1>3
<1>5. StoreInv'
  BY DEF MessagesSettle, BaseInv, StoreInv
<1>6. WorkerInv'
  BY DEF MessagesSettle, BaseInv, WorkerInv
<1>7. MailInv'
  BY DEF MessagesSettle, BaseInv, MailInv
<1>8. SlotInv'
  BY DEF MessagesSettle, BaseInv, SlotInv, Reserved
<1>9. ReadyInv'
  BY DEF MessagesSettle, BaseInv, ReadyInv, Running, Ended
<1>10. PlaceInv'
  BY <1>3, PlaceKept DEF MessagesSettle, BaseInv, Ended
<1>11. NoLostWakeup'
  BY <1>3, WaitersKept DEF MessagesSettle, BaseInv, Ended
<1> QED
  BY <1>4, <1>5, <1>6, <1>7, <1>8, <1>9, <1>10, <1>11 DEF BaseInv

\* The spawns under a path have settled.
LEMMA BaseSpawns ==
  ASSUME BaseInv, NEW x \in Calls, SpawnsSettle(x)
  PROVE  BaseInv'
<1> USE DEF SpawnFrame, SendFrame, CallFrame, WorkFrame, SessionFrame,
        WaitFrame, DeleteFrame, RestoreFrame, SessionStep, storeVars,
        turnVars, restoreVars, slotVars, workVars, mailVars, closeVars,
        history, To, Goes, Calling, Fails
<1>1. PICK at \in {"runs", "failed"} : op' = [op EXCEPT ![x] = at]
  BY DEF SpawnsSettle, BaseInv, CallInv
<1>2. Fits(x, at)
  BY <1>1 DEF SpawnsSettle, BaseInv, CallInv, Fits, Ended, CallPhases,
      SpawnPhases, SendPhases, DeletePhases
<1>3. /\ CallInv' /\ op'[x] \in {"runs", "failed"}
      /\ \A y \in Calls : y # x => op'[y] = op[y]
  BY <1>1, <1>2, CallMoves DEF BaseInv
<1>4. CallInv'
  BY <1>3
<1>5. StoreInv'
  BY DEF SpawnsSettle, BaseInv, StoreInv
<1>6. WorkerInv'
  BY Queues DEF SpawnsSettle, BaseInv, WorkerInv
<1>7. MailInv'
  BY DEF SpawnsSettle, Subtree, BaseInv, WorkerInv, MailInv
<1>8. SlotInv'
  BY DEF SpawnsSettle, BaseInv, SlotInv, Reserved
<1>9. ReadyInv'
  BY DEF SpawnsSettle, BaseInv, ReadyInv, Running, Ended
<1>10. PlaceInv'
  BY <1>3, PlaceKept DEF SpawnsSettle, BaseInv, Ended
<1>11. NoLostWakeup'
  BY <1>3, WaitersKept DEF SpawnsSettle, BaseInv, Ended
<1> QED
  BY <1>4, <1>5, <1>6, <1>7, <1>8, <1>9, <1>10, <1>11 DEF BaseInv

\* A subtree leaves the registry.
LEMMA BaseUnregister ==
  ASSUME BaseInv, NEW x \in Calls, Unregister(x)
  PROVE  BaseInv'
<1> USE DEF SpawnFrame, SendFrame, CallFrame, WorkFrame, SessionFrame,
        WaitFrame, DeleteFrame, RestoreFrame, SessionStep, storeVars,
        turnVars, restoreVars, slotVars, workVars, mailVars, closeVars,
        history, To, Goes, Calling, Fails
<1>1. Fits(x, "removing") /\ Fits(x, "failed")
  BY DEF Unregister, BaseInv, CallInv, Fits, Ended, CallPhases, SpawnPhases,
      SendPhases, DeletePhases
<1>2. PICK some \in SUBSET Subtree(x) :
        /\ agents' = agents \ some
        /\ updates' = [a \in Agents |-> IF a \in some THEN {} ELSE updates[a]]
        /\ mailbox' = mailbox \ some
        /\ \E at \in {"removing", "failed"} :
             op' = Woken([op EXCEPT ![x] = at], some)
        /\ slot' \in [Paths -> {"none", "deciding", "held"}]
        /\ \A p \in Paths : slot'[p] \in {slot[p], "none"}
        /\ tasks' = [c \in Children |-> IF c \in some THEN <<>> ELSE tasks[c]]
  <2>1. PICK some \in Unregistered(x) :
          /\ agents' = agents \ some
          /\ updates' = [a \in Agents |-> IF a \in some THEN {} ELSE updates[a]]
          /\ mailbox' = mailbox \ some
          /\ op' = Woken([op EXCEPT ![x] = IF Blocked(x) = {} THEN "removing"
                                           ELSE "failed"], some)
          /\ slot' = [p \in Paths |->
                        IF p \in {Path[c] : c \in some} /\ Spawning(p)' = {}
                                                      /\ PendingFollowups(p)' = {}
                        THEN "none" ELSE slot[p]]
          /\ tasks' = [c \in Children |->
                         IF c \in some THEN <<>> ELSE tasks[c]]
    BY Zenon DEF Unregister
  <2>2. some \in SUBSET Subtree(x)
    BY DEF Unregistered
  <2>3. \E at \in {"removing", "failed"} : op' = Woken([op EXCEPT ![x] = at], some)
    <3>1. CASE Blocked(x) = {}
      BY <2>1, <3>1
    <3>2. CASE Blocked(x) # {}
      BY <2>1, <3>2
    <3> QED
      BY <3>1, <3>2
  <2>4. /\ slot' \in [Paths -> {"none", "deciding", "held"}]
        /\ \A p \in Paths : slot'[p] \in {slot[p], "none"}
    BY <2>1 DEF BaseInv, SlotInv
  <2> QED
    BY <2>1, <2>2, <2>3, <2>4
<1>3. /\ CallInv' /\ op'[x] \in {"removing", "failed"}
      /\ \A y \in Calls : y # x =>
           \/ op'[y] = op[y] /\ ~(op[y] = "waiting" /\ y.by \in some)
           \/ op[y] = "waiting" /\ op'[y] = "woken"
  <2>1. PICK at \in {"removing", "failed"} :
          op' = Woken([op EXCEPT ![x] = at], some)
    BY <1>2
  <2>2. Fits(x, at) /\ at # "waiting"
    BY <1>1
  <2> QED
    BY <2>1, <2>2, CallMovesAndWakes DEF BaseInv
<1>4. SlotInv'
  BY <1>2, FewerSlots DEF Unregister, BaseInv, SlotInv, Reserved
<1>5. StoreInv'
  BY DEF Unregister, BaseInv, StoreInv
<1>6. WorkerInv'
  BY <1>2, Queues DEF Unregister, BaseInv, WorkerInv
<1>7. MailInv'
  BY <1>2 DEF Unregister, BaseInv, MailInv
<1>8. ReadyInv'
  BY <1>2 DEF Unregister, Subtree, BaseInv, ReadyInv, Running, Ended
<1>9. PlaceInv'
  <2>1. UNCHANGED worker /\ \A c \in some : worker[c] = "none"
    BY <1>2 DEF Unregister
  <2> QED
    BY <1>2, <2>1 DEF BaseInv, PlaceInv
<1>10. NoLostWakeup'
  <2>1. ASSUME NEW y \in Calls, op'[y] = "waiting"
        PROVE  op[y] = "waiting" /\ y.by \notin some
    BY <1>3, <2>1
  <2>2. UNCHANGED closing
    BY DEF Unregister
  <2> QED
    BY <1>2, <2>1, <2>2, Constants, CallsAssumption
    DEF BaseInv, MailInv, NoLostWakeup, Live, Closing
<1> QED
  BY <1>3, <1>4, <1>5, <1>6, <1>7, <1>8, <1>9, <1>10 DEF BaseInv

\* A thread of a subtree is removed.
LEMMA BaseRemove ==
  ASSUME BaseInv, NEW x \in Calls, RemoveNext(x)
  PROVE  BaseInv'
<1> USE DEF SpawnFrame, SendFrame, CallFrame, WorkFrame, SessionFrame,
        WaitFrame, DeleteFrame, RestoreFrame, SessionStep, storeVars,
        turnVars, restoreVars, slotVars, workVars, mailVars, closeVars,
        history, To, Goes, Calling, Fails
<1>1. PICK at \in {"removing", "sweeping", "done", "failed"} :
        op' = [op EXCEPT ![x] = at]
  BY DEF RemoveNext, RemoveRollout, RemoveEdges, BaseInv, CallInv
<1>2. Fits(x, at)
  BY <1>1 DEF RemoveNext, RemoveRollout, RemoveEdges, BaseInv, CallInv, Fits,
      Ended, CallPhases, SpawnPhases, SendPhases, DeletePhases
<1>3. /\ CallInv' /\ op'[x] \in {"removing", "sweeping", "done", "failed"}
      /\ \A y \in Calls : y # x => op'[y] = op[y]
  BY <1>1, <1>2, CallMoves DEF BaseInv
<1>4. CallInv'
  BY <1>3
<1>5. StoreInv'
  <2>1. x.to \in Children
    BY Constants DEF RemoveNext, BaseInv, CallInv, Fits, DeletePhases
  <2>2. UNCHANGED life \/ \E d \in Children : life' = [life EXCEPT ![d] = <<>>]
    BY <2>1, NextRemovedFacts DEF RemoveNext, RemoveRollout, RemoveEdges, BaseInv
  <2>3. life' \in [Children -> Seq({"started", "prompted", "ended", "failed"})]
    BY <2>2, Records DEF BaseInv, StoreInv
  <2> QED
    BY <2>3 DEF RemoveNext, RemoveRollout, RemoveEdges, BaseInv, StoreInv
<1>6. WorkerInv'
  BY DEF RemoveNext, RemoveRollout, RemoveEdges, BaseInv, WorkerInv
<1>7. MailInv'
  BY DEF RemoveNext, RemoveRollout, RemoveEdges, BaseInv, MailInv
<1>8. SlotInv'
  BY DEF RemoveNext, RemoveRollout, RemoveEdges, BaseInv, SlotInv, Reserved
<1>9. ReadyInv'
  BY DEF RemoveNext, RemoveRollout, RemoveEdges, BaseInv, ReadyInv, Running,
      Ended
<1>10. PlaceInv'
  BY <1>3, PlaceKept DEF RemoveNext, RemoveRollout, RemoveEdges, BaseInv,
      Ended
<1>11. NoLostWakeup'
  <2>1. closing' \subseteq closing /\ UNCHANGED <<updates, mailbox, agents>>
    BY DEF RemoveNext, RemoveRollout, RemoveEdges
  <2> QED
    BY <1>3, <2>1 DEF BaseInv, NoLostWakeup, Live, Closing
<1> QED
  BY <1>4, <1>5, <1>6, <1>7, <1>8, <1>9, <1>10, <1>11 DEF BaseInv

\* A reservation is answered.
LEMMA BaseDecide ==
  ASSUME BaseInv, NEW p \in Paths, Decide(p)
  PROVE  BaseInv'
<1> USE DEF SpawnFrame, SendFrame, CallFrame, WorkFrame, SessionFrame,
        WaitFrame, DeleteFrame, RestoreFrame, SessionStep, storeVars,
        turnVars, restoreVars, slotVars, workVars, mailVars, closeVars,
        history, To, Goes, Calling, Fails
<1>1. PICK admitted : slot[p] = "deciding" /\ Answer(p, admitted)
  BY DEF Decide
<1>2. UNCHANGED <<storeVars, turnVars, restoreVars, agents, tasks, mailVars,
                     closeVars>>
  BY DEF Decide
<1>3. /\ CallInv'
      /\ \A y \in Calls : op[y] # "reserving" \/ Path[y.to] # p =>
           op'[y] = op[y] \/ (op[y] = "waiting" /\ op'[y] = "woken")
      /\ \A y \in Calls : op[y] = "reserving" => op'[y] # "waiting"
      /\ \A y \in Calls : op[y] \in Ended => op'[y] = op[y]
  <2> DEFINE moved == [y \in Calls |->
                         IF op[y] = "reserving" /\ Path[y.to] = p
                         THEN IF ~admitted THEN "failed"
                              ELSE IF y.type = "spawn" THEN "creating"
                              ELSE "starting"
                         ELSE op[y]]
             some == IF admitted THEN {}
                     ELSE {Parent[d] : d \in {c \in Children : worker[c] = "reserving"
                                                         /\ Path[c] = p}}
  <2>1. op' = Woken(moved, some)
    BY <1>1 DEF Answer, Woken
  <2>2. \A y \in Calls : /\ moved[y] \in CallPhases /\ Fits(y, moved[y])
                         /\ moved[y] # "waiting" \/ op[y] = "waiting"
    BY DEF BaseInv, CallInv, Fits, Ended, CallPhases, SpawnPhases, SendPhases, DeletePhases
  <2>3. \A y \in Calls : op[y] # "reserving" \/ Path[y.to] # p => moved[y] = op[y]
    OBVIOUS
  <2>4. moved \in [Calls -> CallPhases]
    BY <2>2
  <2>5. \A y \in Calls : op[y] = "reserving" /\ Path[y.to] = p =>
          moved[y] \in {"failed", "creating", "starting"}
    OBVIOUS
  <2> HIDE DEF moved, some
  <2>6. \A y \in Calls : op'[y] = IF moved[y] = "waiting" /\ y.by \in some
                                  THEN "woken" ELSE moved[y]
    BY <2>1 DEF Woken
  <2>7. op' \in [Calls -> CallPhases]
    BY <2>1, <2>4 DEF Woken, CallPhases
  <2>8. ASSUME NEW y \in Calls PROVE Fits(y, op'[y])
    BY <2>2, <2>6 DEF Fits, Ended, CallPhases, SpawnPhases, SendPhases, DeletePhases
  <2> QED
    BY <2>3, <2>5, <2>6, <2>7, <2>8 DEF CallInv, Ended
<1>4. /\ worker' \in [Children -> Phases]
      /\ \A d \in Children : worker'[d] # "none" => worker[d] # "none"
  BY <1>1 DEF Answer, BaseInv, WorkerInv, Phases
<1>5. SlotInv'
  <2>1. /\ slot' = [slot EXCEPT ![p] = IF admitted THEN "held" ELSE "none"]
        /\ seen' = [seen EXCEPT ![p] = {}]
    BY <1>1 DEF Answer
  <2>2. Reserved' \subseteq Reserved
    BY <1>1, <2>1 DEF Reserved, BaseInv, SlotInv
  <2> QED
    BY <2>1, <2>2, FewerSlots DEF BaseInv, SlotInv
<1>6. CallInv'
  BY <1>3
<1>7. StoreInv'
  BY <1>2 DEF BaseInv, StoreInv
<1>8. WorkerInv'
  BY <1>2, <1>4 DEF BaseInv, WorkerInv
<1>9. MailInv'
  BY <1>2 DEF BaseInv, MailInv
<1>10. SlotInv'
  BY <1>5
<1>11. ReadyInv'
  <2>1. CASE ready = "yes"
    BY <1>2, <2>1 DEF ReadyInv
  <2>2. CASE ready # "yes"
    <3>1. \A x \in Calls : op[x] \in Ended
      BY <2>2 DEF BaseInv, ReadyInv, Running
    <3> QED
      BY <1>2, <1>3, <1>4, <2>2, <3>1 DEF BaseInv, ReadyInv, Running
  <2> QED
    BY <2>1, <2>2
<1>12. PlaceInv'
  BY <1>2, <1>3, <1>4, PlaceKept DEF BaseInv
<1>13. NoLostWakeup'
  BY <1>2, <1>3, WaitersKept DEF BaseInv
<1> QED
  BY <1>6, <1>7, <1>8, <1>9, <1>10, <1>11, <1>12, <1>13 DEF BaseInv

\* A worker looks for its next task.
LEMMA BaseNext ==
  ASSUME BaseInv, NEW c \in Children, NextTask(c)
  PROVE  BaseInv'
<1> USE DEF SpawnFrame, SendFrame, CallFrame, WorkFrame, SessionFrame,
        WaitFrame, DeleteFrame, RestoreFrame, SessionStep, storeVars,
        turnVars, restoreVars, slotVars, workVars, mailVars, closeVars,
        history, To, Goes, Calling, Fails
<1>1. /\ CallInv'
      /\ \A y \in Calls : op'[y] = op[y] \/ (op[y] = "waiting" /\ op'[y] = "woken")
  <2>1. op' = op \/ op' = Woken(op, {Parent[c]})
    BY DEF NextTask, Rejects, ReleaseIdle
  <2> QED
    BY <2>1, CallsWake DEF BaseInv, CallInv
<1>2. SlotInv'
  <2>1. \/ UNCHANGED slotVars \/ ReleaseBut(Path[c], Root)
        \/ ~Refused(Path[c]) /\ Reserve(Path[c])
    BY DEF NextTask, ReleaseIdle
  <2> QED
    BY <2>1, Constants, SlotReleased, SlotReserved DEF BaseInv, SlotInv, Reserved
<1>3. PICK phase \in {"returning", "naming", "delivering", "none", "checking", "reserving"} : worker' = [worker EXCEPT ![c] = phase]
  BY DEF NextTask, Rejects, ReleaseIdle
<1>4. /\ worker' \in [Children -> Phases]
      /\ \A d \in Children : worker'[d] # "none" => worker[d] # "none"
  BY <1>3 DEF NextTask, Rejects, ReleaseIdle, BaseInv, WorkerInv, Phases
<1>5. CallInv'
  BY <1>1
<1>6. StoreInv'
  BY DEF NextTask, Rejects, ReleaseIdle, BaseInv, StoreInv
<1>7. WorkerInv'
  BY <1>4 DEF NextTask, Rejects, ReleaseIdle, BaseInv, WorkerInv
<1>8. MailInv'
  BY DEF NextTask, Rejects, ReleaseIdle, BaseInv, MailInv
<1>9. SlotInv'
  BY <1>2
<1>10. ReadyInv'
  BY DEF NextTask, Rejects, ReleaseIdle, BaseInv, ReadyInv, Running, Ended
<1>11. PlaceInv'
  BY <1>1, <1>4, PlaceKept DEF NextTask, Rejects, ReleaseIdle, BaseInv, Ended
<1>12. NoLostWakeup'
  BY <1>1, WaitersKept DEF NextTask, Rejects, ReleaseIdle, BaseInv, Ended
<1> QED
  BY <1>5, <1>6, <1>7, <1>8, <1>9, <1>10, <1>11, <1>12 DEF BaseInv

\* A worker has its slot.
LEMMA BaseCheck ==
  ASSUME BaseInv, NEW c \in Children, CheckTask(c)
  PROVE  BaseInv'
<1> USE DEF SpawnFrame, SendFrame, CallFrame, WorkFrame, SessionFrame,
        WaitFrame, DeleteFrame, RestoreFrame, SessionStep, storeVars,
        turnVars, restoreVars, slotVars, workVars, mailVars, closeVars,
        history, To, Goes, Calling, Fails
<1>1. SlotInv'
  <2>1. UNCHANGED slotVars \/ ReleaseBut(Path[c], c)
    BY DEF CheckTask
  <2> QED
    BY <2>1, Constants, SlotReleased DEF BaseInv, SlotInv, Reserved
<1>2. PICK phase \in {"returning", "launching"} : worker' = [worker EXCEPT ![c] = phase]
  BY DEF CheckTask
<1>3. /\ worker' \in [Children -> Phases]
      /\ \A d \in Children : worker'[d] # "none" => worker[d] # "none"
  BY <1>2 DEF CheckTask, BaseInv, WorkerInv, Phases
<1>4. CallInv'
  BY DEF CheckTask, BaseInv, CallInv
<1>5. StoreInv'
  BY DEF CheckTask, BaseInv, StoreInv
<1>6. WorkerInv'
  BY <1>3 DEF CheckTask, BaseInv, WorkerInv
<1>7. MailInv'
  BY DEF CheckTask, BaseInv, MailInv
<1>8. SlotInv'
  BY <1>1
<1>9. ReadyInv'
  BY DEF CheckTask, BaseInv, ReadyInv, Running, Ended
<1>10. PlaceInv'
  BY <1>3, PlaceKept DEF CheckTask, BaseInv, Ended
<1>11. NoLostWakeup'
  BY WaitersKept DEF CheckTask, BaseInv, Ended
<1> QED
  BY <1>4, <1>5, <1>6, <1>7, <1>8, <1>9, <1>10, <1>11 DEF BaseInv

\* A Turn is started for a task.
LEMMA BaseLaunch ==
  ASSUME BaseInv, NEW c \in Children, LaunchTask(c)
  PROVE  BaseInv'
<1> USE DEF SpawnFrame, SendFrame, CallFrame, WorkFrame, SessionFrame,
        WaitFrame, DeleteFrame, RestoreFrame, SessionStep, storeVars,
        turnVars, restoreVars, slotVars, workVars, mailVars, closeVars,
        history, To, Goes, Calling, Fails
<1>1. PICK phase \in {"running", "failing"} : worker' = [worker EXCEPT ![c] = phase]
  BY DEF LaunchTask
<1>2. /\ worker' \in [Children -> Phases]
      /\ \A d \in Children : worker'[d] # "none" => worker[d] # "none"
  BY <1>1 DEF LaunchTask, BaseInv, WorkerInv, Phases
<1>3. CallInv'
  BY DEF LaunchTask, BaseInv, CallInv
<1>4. StoreInv'
  <2>1. tasks[c] # <<>> => Head(tasks[c]).id \in Ids
    <3>1. tasks[c] # <<>> => Head(tasks[c]) \in TaskType
      BY Queues DEF BaseInv, WorkerInv
    <3> QED
      BY <3>1 DEF TaskType
  <2> QED
    <3>1. /\ UNCHANGED life \/ life' = [life EXCEPT ![c] = Append(@, "started")]
          /\ UNCHANGED turn \/ turn' = [turn EXCEPT ![c] = "open"]
      BY DEF LaunchTask
    <3>3. UNCHANGED known
          \/ /\ tasks[c] # <<>>
             /\ known' = [known EXCEPT ![c] = @ \union {Head(tasks[c]).id}]
      BY DEF LaunchTask
    <3>2. UNCHANGED <<exists, edges, steered, ready, found>>
      BY DEF LaunchTask
    <3> QED
      <4>1. life' \in [Children -> Seq({"started", "prompted", "ended", "failed"})]
        <5>1. [life EXCEPT ![c] = Append(@, "started")]
                \in [Children -> Seq({"started", "prompted", "ended", "failed"})]
          BY Records DEF BaseInv
        <5>2. life \in [Children -> Seq({"started", "prompted", "ended", "failed"})]
          BY DEF BaseInv, StoreInv
        <5> QED
          BY <3>1, <5>1, <5>2
      <4>2. turn' \in [Children -> {"none", "open", "closed", "aborted"}]
        BY <3>1 DEF BaseInv, StoreInv
      <4>3. known' \in [Children -> SUBSET Ids]
        <5>1. known \in [Children -> SUBSET Ids]
          BY DEF BaseInv, StoreInv
        <5>2. tasks[c] # <<>> =>
                [known EXCEPT ![c] = @ \union {Head(tasks[c]).id}]
                  \in [Children -> SUBSET Ids]
          BY <2>1, <5>1
        <5> QED
          BY <3>3, <5>1, <5>2
      <4> QED
        BY <3>2, <4>1, <4>2, <4>3 DEF BaseInv, StoreInv
<1>5. WorkerInv'
  BY <1>2 DEF LaunchTask, BaseInv, WorkerInv
<1>6. MailInv'
  BY DEF LaunchTask, BaseInv, MailInv
<1>7. SlotInv'
  BY DEF LaunchTask, BaseInv, SlotInv, Reserved
<1>8. ReadyInv'
  BY DEF LaunchTask, BaseInv, ReadyInv, Running, Ended
<1>9. PlaceInv'
  BY <1>2, PlaceKept DEF LaunchTask, BaseInv, Ended
<1>10. NoLostWakeup'
  BY WaitersKept DEF LaunchTask, BaseInv, Ended
<1> QED
  BY <1>3, <1>4, <1>5, <1>6, <1>7, <1>8, <1>9, <1>10 DEF BaseInv

\* A task that could not be launched fails.
LEMMA BaseFail ==
  ASSUME BaseInv, NEW c \in Children, FailTask(c)
  PROVE  BaseInv'
<1> USE DEF SpawnFrame, SendFrame, CallFrame, WorkFrame, SessionFrame,
        WaitFrame, DeleteFrame, RestoreFrame, SessionStep, storeVars,
        turnVars, restoreVars, slotVars, workVars, mailVars, closeVars,
        history, To, Goes, Calling, Fails
<1>1. /\ CallInv'
      /\ \A y \in Calls : op'[y] = op[y] \/ (op[y] = "waiting" /\ op'[y] = "woken")
  <2>1. op' = op \/ op' = Woken(op, {Parent[c]})
    BY DEF FailTask, Dies, Rejects
  <2> QED
    BY <2>1, CallsWake DEF BaseInv, CallInv
<1>2. SlotInv'
  <2>1. UNCHANGED slotVars \/ ReleaseBut(Path[c], c)
    BY DEF FailTask, Dies
  <2> QED
    BY <2>1, Constants, SlotReleased DEF BaseInv, SlotInv, Reserved
<1>3. PICK phase \in {"ended", "none"} : worker' = [worker EXCEPT ![c] = phase]
  BY DEF FailTask, Dies, Rejects
<1>4. /\ worker' \in [Children -> Phases]
      /\ \A d \in Children : worker'[d] # "none" => worker[d] # "none"
  BY <1>3 DEF FailTask, Dies, Rejects, BaseInv, WorkerInv, Phases
<1>5. CallInv'
  BY <1>1
<1>6. StoreInv'
  <2>1. UNCHANGED life \/ life' = [life EXCEPT ![c] = Append(@, "failed")]
    BY DEF FailTask
  <2>2. UNCHANGED <<exists, edges, known, turn, steered, ready, found>>
    BY DEF FailTask
  <2> QED
    BY ZenonT(30), <2>1, <2>2, Records DEF BaseInv, StoreInv
<1>7. WorkerInv'
  BY <1>4 DEF FailTask, Dies, Rejects, BaseInv, WorkerInv
<1>8. MailInv'
  BY DEF FailTask, Dies, Rejects, BaseInv, MailInv
<1>9. SlotInv'
  BY <1>2
<1>10. ReadyInv'
  BY DEF FailTask, Dies, Rejects, BaseInv, ReadyInv, Running, Ended
<1>11. PlaceInv'
  BY <1>1, <1>4, PlaceKept DEF FailTask, Dies, Rejects, BaseInv, Ended
<1>12. NoLostWakeup'
  BY <1>1, WaitersKept DEF FailTask, Dies, Rejects, BaseInv, Ended
<1> QED
  BY <1>5, <1>6, <1>7, <1>8, <1>9, <1>10, <1>11, <1>12 DEF BaseInv

\* The outcome of a task is known.
LEMMA BaseSettle ==
  ASSUME BaseInv, NEW c \in Children, SettleTask(c)
  PROVE  BaseInv'
<1> USE DEF SpawnFrame, SendFrame, CallFrame, WorkFrame, SessionFrame,
        WaitFrame, DeleteFrame, RestoreFrame, SessionStep, storeVars,
        turnVars, restoreVars, slotVars, workVars, mailVars, closeVars,
        history, To, Goes, Calling, Fails
<1>1. SlotInv'
  <2>1. UNCHANGED slotVars \/ ReleaseBut(Path[c], Root)
    BY DEF SettleTask, ReleaseIdle
  <2> QED
    BY <2>1, Constants, SlotReleased DEF BaseInv, SlotInv, Reserved
<1>2. PICK phase \in {"naming"} : worker' = [worker EXCEPT ![c] = phase]
  BY DEF SettleTask, ReleaseIdle
<1>3. /\ worker' \in [Children -> Phases]
      /\ \A d \in Children : worker'[d] # "none" => worker[d] # "none"
  BY <1>2 DEF SettleTask, ReleaseIdle, BaseInv, WorkerInv, Phases
<1>4. CallInv'
  BY DEF SettleTask, ReleaseIdle, BaseInv, CallInv
<1>5. StoreInv'
  BY DEF SettleTask, ReleaseIdle, BaseInv, StoreInv
<1>6. WorkerInv'
  BY <1>3, SettledType DEF SettleTask, BaseInv, WorkerInv
<1>7. MailInv'
  BY DEF SettleTask, ReleaseIdle, BaseInv, MailInv
<1>8. SlotInv'
  BY <1>1
<1>9. ReadyInv'
  BY DEF SettleTask, ReleaseIdle, BaseInv, ReadyInv, Running, Ended
<1>10. PlaceInv'
  BY <1>3, PlaceKept DEF SettleTask, ReleaseIdle, BaseInv, Ended
<1>11. NoLostWakeup'
  BY WaitersKept DEF SettleTask, ReleaseIdle, BaseInv, Ended
<1> QED
  BY <1>4, <1>5, <1>6, <1>7, <1>8, <1>9, <1>10, <1>11 DEF BaseInv

\* An outcome gets its id.
LEMMA BaseName ==
  ASSUME BaseInv, NEW c \in Children, NameOutcome(c)
  PROVE  BaseInv'
<1> USE DEF SpawnFrame, SendFrame, CallFrame, WorkFrame, SessionFrame,
        WaitFrame, DeleteFrame, RestoreFrame, SessionStep, storeVars,
        turnVars, restoreVars, slotVars, workVars, mailVars, closeVars,
        history, To, Goes, Calling, Fails
<1>1. /\ CallInv'
      /\ \A y \in Calls : op'[y] = op[y] \/ (op[y] = "waiting" /\ op'[y] = "woken")
  <2>1. op' = op \/ op' = Woken(op, {Parent[c]})
    BY DEF NameOutcome, Dies, Rejects
  <2> QED
    BY <2>1, CallsWake DEF BaseInv, CallInv
<1>2. SlotInv'
  <2>1. UNCHANGED slotVars \/ ReleaseBut(Path[c], c)
    BY DEF NameOutcome, Dies
  <2> QED
    BY <2>1, Constants, SlotReleased DEF BaseInv, SlotInv, Reserved
<1>3. PICK phase \in {"delivering", "none"} : worker' = [worker EXCEPT ![c] = phase]
  BY DEF NameOutcome, Dies, Rejects
<1>4. /\ worker' \in [Children -> Phases]
      /\ \A d \in Children : worker'[d] # "none" => worker[d] # "none"
  BY <1>3 DEF NameOutcome, Dies, Rejects, BaseInv, WorkerInv, Phases
<1>5. CallInv'
  BY <1>1
<1>6. StoreInv'
  BY DEF NameOutcome, Dies, Rejects, BaseInv, StoreInv
<1>7. WorkerInv'
  <2>1. \/ UNCHANGED tasks
        \/ tasks' = [tasks EXCEPT ![c] =
                       IF @ = <<>> THEN @
                       ELSE [@ EXCEPT ![1].note = LastTerminal(c)]]
    BY DEF NameOutcome, Dies, Rejects
  <2>2. LastTerminal(c) \in Nat
    BY LastTerminalType DEF BaseInv
  <2>3. tasks' \in [Children -> Seq(TaskType)]
    BY ZenonT(30), <2>1, <2>2, SettledType DEF BaseInv, WorkerInv
  <2> QED
    BY <1>4, <2>3 DEF NameOutcome, BaseInv, WorkerInv
<1>8. MailInv'
  BY DEF NameOutcome, Dies, Rejects, BaseInv, MailInv
<1>9. SlotInv'
  BY <1>2
<1>10. ReadyInv'
  BY DEF NameOutcome, Dies, Rejects, BaseInv, ReadyInv, Running, Ended
<1>11. PlaceInv'
  BY <1>1, <1>4, PlaceKept DEF NameOutcome, Dies, Rejects, BaseInv, Ended
<1>12. NoLostWakeup'
  BY <1>1, WaitersKept DEF NameOutcome, Dies, Rejects, BaseInv, Ended
<1> QED
  BY <1>5, <1>6, <1>7, <1>8, <1>9, <1>10, <1>11, <1>12 DEF BaseInv

\* An outcome is delivered.
LEMMA BaseOutcome ==
  ASSUME BaseInv, NEW c \in Children, DeliverOutcome(c)
  PROVE  BaseInv'
<1> USE DEF SpawnFrame, SendFrame, CallFrame, WorkFrame, SessionFrame,
        WaitFrame, DeleteFrame, RestoreFrame, SessionStep, storeVars,
        turnVars, restoreVars, slotVars, workVars, mailVars, closeVars,
        history, To, Goes, Calling, Fails
<1>1. /\ CallInv'
      /\ \A y \in Calls : op'[y] = op[y] \/ (op[y] = "waiting" /\ op'[y] = "woken")
  <2>1. op' = op \/ op' = Woken(op, {Parent[c]})
    BY DEF DeliverOutcome, Dies, Rejects
  <2> QED
    BY <2>1, CallsWake DEF BaseInv, CallInv
<1>2. SlotInv'
  <2>1. UNCHANGED slotVars \/ ReleaseBut(Path[c], c)
    BY DEF DeliverOutcome, Dies
  <2> QED
    BY <2>1, Constants, SlotReleased DEF BaseInv, SlotInv, Reserved
<1>3. PICK phase \in {"reserve", "delivered", "none"} : worker' = [worker EXCEPT ![c] = phase]
  BY DEF DeliverOutcome, Dies, Rejects
<1>4. /\ worker' \in [Children -> Phases]
      /\ \A d \in Children : worker'[d] # "none" => worker[d] # "none"
  BY <1>3 DEF DeliverOutcome, Dies, Rejects, BaseInv, WorkerInv, Phases
<1>5. CallInv'
  BY <1>1
<1>6. StoreInv'
  BY DEF DeliverOutcome, Dies, Rejects, BaseInv, StoreInv
<1>7. WorkerInv'
  <2>1. UNCHANGED tasks \/ /\ tasks[c] # <<>>
                           /\ tasks' = [tasks EXCEPT ![c] = Tail(@)]
    BY DEF DeliverOutcome, Dies, Rejects, BaseInv, WorkerInv
  <2>2. tasks' \in [Children -> Seq(TaskType)]
    <3>1. tasks[c] # <<>> => Tail(tasks[c]) \in Seq(TaskType)
      BY Queues DEF BaseInv, WorkerInv
    <3> QED
      BY <2>1, <3>1 DEF BaseInv, WorkerInv
  <2> QED
    BY <1>4, <2>2 DEF DeliverOutcome, BaseInv, WorkerInv
<1>8. MailInv'
  BY DEF DeliverOutcome, Dies, Rejects, BaseInv, MailInv
<1>9. SlotInv'
  BY <1>2
<1>10. ReadyInv'
  BY DEF DeliverOutcome, Dies, Rejects, BaseInv, ReadyInv, Running, Ended
<1>11. PlaceInv'
  BY <1>1, <1>4, PlaceKept DEF DeliverOutcome, Dies, Rejects, BaseInv, Ended
<1>12. NoLostWakeup'
  BY <1>1, WaitersKept DEF DeliverOutcome, Dies, Rejects, BaseInv, Ended
<1> QED
  BY <1>5, <1>6, <1>7, <1>8, <1>9, <1>10, <1>11, <1>12 DEF BaseInv

\* All above learn of an outcome.
LEMMA BaseDelivered ==
  ASSUME BaseInv, NEW c \in Children, OutcomeDelivered(c)
  PROVE  BaseInv'
<1> USE DEF SpawnFrame, SendFrame, CallFrame, WorkFrame, SessionFrame,
        WaitFrame, DeleteFrame, RestoreFrame, SessionStep, storeVars,
        turnVars, restoreVars, slotVars, workVars, mailVars, closeVars,
        history, To, Goes, Calling, Fails
<1>1. /\ CallInv'
      /\ \A y \in Calls : op'[y] = op[y] \/ (op[y] = "waiting" /\ op'[y] = "woken")
  <2>1. op' = op \/ op' = Woken(op, Above[c])
    BY DEF OutcomeDelivered
  <2> QED
    BY <2>1, CallsWake DEF BaseInv, CallInv
<1>2. PICK phase \in {"reserve"} : worker' = [worker EXCEPT ![c] = phase]
  BY DEF OutcomeDelivered
<1>3. /\ worker' \in [Children -> Phases]
      /\ \A d \in Children : worker'[d] # "none" => worker[d] # "none"
  BY <1>2 DEF OutcomeDelivered, BaseInv, WorkerInv, Phases
<1>4. CallInv'
  BY <1>1
<1>5. StoreInv'
  BY DEF OutcomeDelivered, BaseInv, StoreInv
<1>6. WorkerInv'
  BY <1>3, Queues DEF OutcomeDelivered, BaseInv, WorkerInv
<1>7. MailInv'
  BY DEF OutcomeDelivered, BaseInv, MailInv
<1>8. SlotInv'
  BY DEF OutcomeDelivered, BaseInv, SlotInv, Reserved
<1>9. ReadyInv'
  BY DEF OutcomeDelivered, BaseInv, ReadyInv, Running, Ended
<1>10. PlaceInv'
  BY <1>1, <1>3, PlaceKept DEF OutcomeDelivered, BaseInv, Ended
<1>11. NoLostWakeup'
  <2>1. op' = Woken(op, Above[c])
    BY DEF OutcomeDelivered
  <2>2. ASSUME NEW y \in Calls, op'[y] = "waiting"
        PROVE  op[y] = "waiting" /\ y.by \notin Above[c]
    BY <2>1, <2>2, CallsWake DEF BaseInv
  <2> QED
    BY <2>2, Constants DEF OutcomeDelivered, BaseInv, NoLostWakeup, Live, Closing
<1> QED
  BY <1>4, <1>5, <1>6, <1>7, <1>8, <1>9, <1>10, <1>11 DEF BaseInv

\* A worker ends.
LEMMA BaseEnds ==
  ASSUME BaseInv, NEW c \in Children, WorkerEnds(c)
  PROVE  BaseInv'
<1> USE DEF SpawnFrame, SendFrame, CallFrame, WorkFrame, SessionFrame,
        WaitFrame, DeleteFrame, RestoreFrame, SessionStep, storeVars,
        turnVars, restoreVars, slotVars, workVars, mailVars, closeVars,
        history, To, Goes, Calling, Fails
<1>1. SlotInv'
  <2>1. UNCHANGED slotVars \/ ReleaseBut(Path[c], Root)
    BY DEF WorkerEnds, ReleaseIdle
  <2> QED
    BY <2>1, Constants, SlotReleased DEF BaseInv, SlotInv, Reserved
<1>2. PICK phase \in {"none", "reserve"} : worker' = [worker EXCEPT ![c] = phase]
  BY DEF WorkerEnds, ReleaseIdle
<1>3. /\ worker' \in [Children -> Phases]
      /\ \A d \in Children : worker'[d] # "none" => worker[d] # "none"
  BY <1>2 DEF WorkerEnds, ReleaseIdle, BaseInv, WorkerInv, Phases
<1>4. CallInv'
  BY DEF WorkerEnds, ReleaseIdle, BaseInv, CallInv
<1>5. StoreInv'
  BY DEF WorkerEnds, ReleaseIdle, BaseInv, StoreInv
<1>6. WorkerInv'
  BY <1>3 DEF WorkerEnds, ReleaseIdle, BaseInv, WorkerInv
<1>7. MailInv'
  BY DEF WorkerEnds, ReleaseIdle, BaseInv, MailInv
<1>8. SlotInv'
  BY <1>1
<1>9. ReadyInv'
  BY DEF WorkerEnds, ReleaseIdle, BaseInv, ReadyInv, Running, Ended
<1>10. PlaceInv'
  BY <1>3, PlaceKept DEF WorkerEnds, ReleaseIdle, BaseInv, Ended
<1>11. NoLostWakeup'
  BY WaitersKept DEF WorkerEnds, ReleaseIdle, BaseInv, Ended
<1> QED
  BY <1>4, <1>5, <1>6, <1>7, <1>8, <1>9, <1>10, <1>11 DEF BaseInv

\* A Turn goes on.
LEMMA BaseTurn ==
  ASSUME BaseInv, NEW c \in Children, TurnStep(c)
  PROVE  BaseInv'
<1> USE DEF SpawnFrame, SendFrame, CallFrame, WorkFrame, SessionFrame,
        WaitFrame, DeleteFrame, RestoreFrame, SessionStep, storeVars,
        turnVars, restoreVars, slotVars, workVars, mailVars, closeVars,
        history, To, Goes, Calling, Fails
<1>1. /\ worker' \in [Children -> Phases]
      /\ \A d \in Children :
           worker'[d] = worker[d] \/ (worker[d] = "running" /\ worker'[d] = "ended")
  BY DEF TurnStep, TurnTakes, TurnStops, TurnEnds, BaseInv, WorkerInv, Phases
<1>2. CallInv'
  BY DEF TurnStep, TurnTakes, TurnStops, TurnEnds, BaseInv, CallInv
<1>3. StoreInv'
  <2>1. UNCHANGED life \/ life' = [life EXCEPT ![c] = Append(@, "ended")]
    BY DEF TurnStep, TurnTakes, TurnStops, TurnEnds
  <2>2. life' \in [Children -> Seq({"started", "prompted", "ended", "failed"})]
    BY ZenonT(30), <2>1, Records DEF BaseInv, StoreInv
  <2> QED
    BY ZenonT(30), <2>2 DEF TurnStep, TurnTakes, TurnStops, TurnEnds, BaseInv, StoreInv
<1>4. WorkerInv'
  BY <1>1 DEF TurnStep, TurnTakes, TurnStops, TurnEnds, BaseInv, WorkerInv
<1>5. MailInv'
  BY DEF TurnStep, TurnTakes, TurnStops, TurnEnds, BaseInv, MailInv
<1>6. SlotInv'
  BY DEF TurnStep, TurnTakes, TurnStops, TurnEnds, BaseInv, SlotInv, Reserved
<1>7. ReadyInv'
  BY <1>1 DEF TurnStep, TurnTakes, TurnStops, TurnEnds, BaseInv, ReadyInv,
      Running
<1>8. PlaceInv'
  BY <1>1, PlaceKept DEF TurnStep, TurnTakes, TurnStops, TurnEnds, BaseInv,
      Ended
<1>9. NoLostWakeup'
  BY WaitersKept DEF TurnStep, TurnTakes, TurnStops, TurnEnds, BaseInv, Ended
<1> QED
  BY <1>2, <1>3, <1>4, <1>5, <1>6, <1>7, <1>8, <1>9 DEF BaseInv

\* The children of the tree are registered.
LEMMA BaseRegistered ==
  ASSUME BaseInv, RegisterFound
  PROVE  BaseInv'
<1> USE DEF SpawnFrame, SendFrame, CallFrame, WorkFrame, SessionFrame,
        WaitFrame, DeleteFrame, RestoreFrame, SessionStep, storeVars,
        turnVars, restoreVars, slotVars, workVars, mailVars, closeVars,
        history, To, Goes, Calling, Fails
<1>1. CallInv'
  BY DEF RegisterFound, BaseInv, CallInv
<1>2. StoreInv'
  BY DEF RegisterFound, NoneFound, BaseInv, StoreInv
<1>3. WorkerInv'
  <2> DEFINE read == {d \in Children : found[d] # 0}
  <2>1. \A d \in Children : Restored(found[d]) \in TaskType
    BY DEF Restored, TaskType, Ids, BaseInv, StoreInv
  <2>2. Started(read, tasks') \in [Children -> Phases]
    BY StartedFacts DEF BaseInv
  <2> QED
    <3>1. \A d \in Children :
            Append(tasks[d], Restored(found[d])) \in Seq(TaskType)
      BY <2>1, Queues DEF BaseInv, WorkerInv
    <3>2. \/ UNCHANGED <<agents, workVars>>
          \/ /\ agents' = agents \cup read
             /\ tasks' = [d \in Children |->
                            IF d \in read THEN Append(tasks[d], Restored(found[d]))
                            ELSE tasks[d]]
             /\ worker' = Started(read, tasks')
      BY DEF RegisterFound
    <3>3. tasks' \in [Children -> Seq(TaskType)]
      BY <3>1, <3>2 DEF BaseInv, WorkerInv
    <3> QED
      BY <2>2, <3>2, <3>3, Constants DEF BaseInv, WorkerInv
<1>4. MailInv'
  BY DEF RegisterFound, BaseInv, MailInv
<1>5. SlotInv'
  BY DEF RegisterFound, BaseInv, SlotInv, Reserved
<1>6. ReadyInv'
  BY DEF RegisterFound, BaseInv, ReadyInv, Running
<1>7. PlaceInv'
  <2> DEFINE read == {d \in Children : found[d] # 0}
  <2>1. CASE UNCHANGED <<agents, workVars>>
    BY <2>1 DEF RegisterFound, BaseInv, PlaceInv
  <2>2. CASE ~ UNCHANGED <<agents, workVars>>
    <3>1. /\ ready = "reading" /\ agents' = agents \cup read
          /\ \A d, e \in read : Path[d] = Path[e] => d = e
          /\ worker' = Started(read, tasks') /\ UNCHANGED op
      BY <2>2 DEF RegisterFound
    <3>2. /\ agents = {Root}
          /\ \A d \in Children : worker[d] = "none"
      BY <3>1 DEF BaseInv, ReadyInv
    <3>3. \A d \in Children : worker'[d] # "none" => d \in read
      BY <3>1, <3>2, StartedFacts DEF BaseInv
    <3> QED
      BY <3>1, <3>2, <3>3 DEF PlaceInv
  <2> QED
    BY <2>1, <2>2
<1>8. NoLostWakeup'
  <2>1. \A y \in Calls : op'[y] # "waiting"
    BY DEF RegisterFound, BaseInv, ReadyInv, Running, Ended
  <2> QED
    BY <2>1 DEF NoLostWakeup
<1> QED
  BY <1>1, <1>2, <1>3, <1>4, <1>5, <1>6, <1>7, <1>8 DEF BaseInv

\* A restore goes on.
LEMMA BaseRestore ==
  ASSUME BaseInv, Restore \/ Reconcile \/ ReadChild
           \/ (RestoreFails /\ UNCHANGED op /\ RestoreFrame)
  PROVE  BaseInv'
<1> USE DEF SpawnFrame, SendFrame, CallFrame, WorkFrame, SessionFrame,
        WaitFrame, DeleteFrame, RestoreFrame, SessionStep, storeVars,
        turnVars, restoreVars, slotVars, workVars, mailVars, closeVars,
        history, To, Goes, Calling, Fails
<1>1. CallInv'
  BY DEF Restore, Reconcile, ReadChild, RestoreFails, RemoveRollout,
      RemoveEdges, Shallowest, NoneFound, BaseInv, CallInv
<1>2. StoreInv'
  <2>1. \/ UNCHANGED life
        \/ \E d \in Children : life' = [life EXCEPT ![d] = <<>>]
        \/ \E d \in Children : life' = [life EXCEPT ![d] = <<"failed">>]
    BY NextRemovedFacts
       DEF Restore, Reconcile, ReadChild, RestoreFails, RemoveRollout,
           RemoveEdges, Shallowest, Unread, BaseInv, StoreInv
  <2>2. life' \in [Children -> Seq({"started", "prompted", "ended", "failed"})]
    BY <2>1, Records DEF BaseInv, StoreInv
  <2>3. found' \in [Children -> Nat]
    <3>1. \/ found' = found \/ found' = NoneFound
          \/ \E d \in Children : found' = [found EXCEPT ![d] = Len(life[d])]
      BY DEF Restore, Reconcile, ReadChild, RestoreFails, Shallowest, Unread,
             BaseInv, StoreInv
    <3>2. \A d \in Children : Len(life[d]) \in Nat
      BY Records DEF BaseInv
    <3>3. /\ found \in [Children -> Nat] /\ NoneFound \in [Children -> Nat]
          /\ \A d \in Children :
               [found EXCEPT ![d] = Len(life[d])] \in [Children -> Nat]
      BY <3>2 DEF NoneFound, BaseInv, StoreInv
    <3> QED
      BY <3>1, <3>3
  <2>4. exists' \subseteq Children /\ edges' \subseteq Children
    BY DEF Restore, Reconcile, ReadChild, RestoreFails, RemoveRollout,
           RemoveEdges, Shallowest, Unread, BaseInv, StoreInv
  <2>5. /\ turn' \in [Children -> {"none", "open", "closed", "aborted"}]
        /\ steered' \in [Children -> SUBSET Ids]
    BY DEF Restore, Reconcile, ReadChild, RestoreFails, RemoveRollout,
           RemoveEdges, BaseInv, StoreInv
  <2>6. UNCHANGED known
        /\ ready' \in {"no", "linking", "reading", "yes"}
    BY DEF Restore, Reconcile, ReadChild, RestoreFails, BaseInv, StoreInv
  <2> QED
    BY <2>2, <2>3, <2>4, <2>5, <2>6 DEF BaseInv, StoreInv
<1>3. WorkerInv'
  BY DEF Restore, Reconcile, ReadChild, RestoreFails, RemoveRollout,
      RemoveEdges, Shallowest, NoneFound, BaseInv, WorkerInv
<1>4. MailInv'
  BY DEF Restore, Reconcile, ReadChild, RestoreFails, RemoveRollout,
      RemoveEdges, Shallowest, NoneFound, BaseInv, MailInv
<1>5. SlotInv'
  BY DEF Restore, Reconcile, ReadChild, RestoreFails, RemoveRollout,
      RemoveEdges, Shallowest, NoneFound, BaseInv, SlotInv, Reserved
<1>6. ReadyInv'
  BY DEF Restore, Reconcile, ReadChild, RestoreFails, RemoveRollout,
      RemoveEdges, BaseInv, ReadyInv, Running
<1>7. PlaceInv'
  BY PlaceKept DEF Restore, Reconcile, ReadChild, RestoreFails,
      RemoveRollout, RemoveEdges, Shallowest, NoneFound, BaseInv, Ended
<1>8. NoLostWakeup'
  <2>1. \A y \in Calls : op'[y] # "waiting"
    BY DEF Restore, Reconcile, ReadChild, RestoreFails, BaseInv, ReadyInv,
           Running, Ended
  <2> QED
    BY <2>1 DEF NoLostWakeup
<1> QED
  BY <1>1, <1>2, <1>3, <1>4, <1>5, <1>6, <1>7, <1>8 DEF BaseInv

\* Workers are started again.
LEMMA BaseRetry ==
  ASSUME BaseInv, Retry
  PROVE  BaseInv'
<1> USE DEF SpawnFrame, SendFrame, CallFrame, WorkFrame, SessionFrame,
        WaitFrame, DeleteFrame, RestoreFrame, SessionStep, storeVars,
        turnVars, restoreVars, slotVars, workVars, mailVars, closeVars,
        history, To, Goes, Calling, Fails
<1>1. /\ worker' \in [Children -> Phases]
      /\ \A d \in Children : worker'[d] # "none" =>
           worker[d] # "none" \/ d \in agents
  BY StartedFacts DEF Retry, BaseInv, WorkerInv, PlaceInv
<1>2. CallInv'
  BY DEF Retry, BaseInv, CallInv
<1>3. StoreInv'
  BY DEF Retry, BaseInv, StoreInv
<1>4. WorkerInv'
  BY <1>1 DEF Retry, BaseInv, WorkerInv
<1>5. MailInv'
  BY DEF Retry, BaseInv, MailInv
<1>6. SlotInv'
  BY DEF Retry, BaseInv, SlotInv, Reserved
<1>7. ReadyInv'
  BY DEF Retry, BaseInv, ReadyInv, Running, Ended
<1>8. PlaceInv'
  BY <1>1, PlaceKept DEF Retry, BaseInv, Ended
<1>9. NoLostWakeup'
  BY WaitersKept DEF Retry, BaseInv, Ended
<1> QED
  BY <1>2, <1>3, <1>4, <1>5, <1>6, <1>7, <1>8, <1>9 DEF BaseInv

\* The process dies.
LEMMA BaseCrash ==
  ASSUME BaseInv, Crash
  PROVE  BaseInv'
<1> USE DEF SpawnFrame, SendFrame, CallFrame, WorkFrame, SessionFrame,
        WaitFrame, DeleteFrame, RestoreFrame, SessionStep, storeVars,
        turnVars, restoreVars, slotVars, workVars, mailVars, closeVars,
        history, To, Goes, Calling, Fails
<1>1. CallInv'
  BY DEF Crash, BaseInv, CallInv, Fits, Ended, CallPhases, SpawnPhases,
      SendPhases, DeletePhases
<1>2. StoreInv'
  BY DEF Crash, NoneFound, BaseInv, StoreInv
<1>3. WorkerInv'
  BY Queues, Constants DEF Crash, Phases, WorkerInv
<1>4. MailInv'
  BY DEF Crash, BaseInv, MailInv
<1>5. SlotInv'
  <2>1. /\ slot' \in [Paths -> {"none", "deciding", "held"}]
        /\ seen' \in [Paths -> SUBSET Children] /\ Reserved' = {}
    BY DEF Crash, Reserved
  <2> QED
    BY <2>1, FewerSlots DEF BaseInv
<1>6. ReadyInv'
  BY DEF Crash, ReadyInv, Running, Ended
<1>7. PlaceInv'
  BY DEF Crash, PlaceInv
<1>8. NoLostWakeup'
  BY DEF Crash, NoLostWakeup
<1> QED
  BY <1>1, <1>2, <1>3, <1>4, <1>5, <1>6, <1>7, <1>8 DEF BaseInv

LEMMA BaseInit == Init => BaseInv
<1> SUFFICES ASSUME Init PROVE BaseInv
  OBVIOUS
<1>1. CallInv
  BY DEF Init, CallInv, Fits, CallPhases, SpawnPhases, SendPhases,
         DeletePhases, Ended
<1>2. StoreInv
  BY EmptySeq DEF Init, StoreInv, NoneFound
<1>3. WorkerInv
  BY Queues, Constants DEF Init, WorkerInv, Phases
<1>4. MailInv
  BY DEF Init, MailInv
<1>5. SlotInv
  <2>1. Reserved = {}
    BY DEF Init, Reserved
  <2>2. Cardinality(Reserved) <= Limit
    BY <2>1, FS_EmptySet, BoundsAssumption
  <2> QED
    BY <2>2 DEF Init, SlotInv
<1>6. ReadyInv
  BY DEF Init, ReadyInv, Running, Ended
<1>7. PlaceInv
  BY DEF Init, PlaceInv
<1>8. NoLostWakeup
  BY DEF Init, NoLostWakeup
<1> QED
  BY <1>1, <1>2, <1>3, <1>4, <1>5, <1>6, <1>7, <1>8 DEF BaseInv

LEMMA BaseNextKeeps == BaseInv /\ [Next]_vars => BaseInv'
<1> SUFFICES ASSUME BaseInv, [Next]_vars PROVE BaseInv'
  OBVIOUS
<1>1. ASSUME NEW x \in Calls, Begin(x) PROVE BaseInv'
  BY <1>1, BaseSpawn, BaseSend, BaseWait, BaseDelete, BaseDirect DEF Begin
<1>2. ASSUME NEW x \in Calls, CallStep(x) PROVE BaseInv'
  BY <1>2, BaseCreate, BaseLink, BaseDiscard, BaseRegister, BaseRollback,
     BaseJoin, BaseLoad, BaseDeliver, BaseSteer, BaseFollowup, BaseWaitEnds,
     BaseMessages, BaseSpawns, BaseUnregister, BaseRemove DEF CallStep
<1>3. ASSUME NEW p \in Paths, Decide(p) PROVE BaseInv'
  BY <1>3, BaseDecide
<1>4. ASSUME NEW c \in Children, WorkerStep(c) PROVE BaseInv'
  BY <1>4, BaseNext, BaseCheck, BaseLaunch, BaseFail, BaseSettle, BaseName,
     BaseOutcome, BaseDelivered, BaseEnds DEF WorkerStep
<1>5. ASSUME NEW c \in Children, TurnStep(c) PROVE BaseInv'
  BY <1>5, BaseTurn
<1>6. ASSUME RestoreStep PROVE BaseInv'
  BY <1>6, BaseRestore, BaseRegistered DEF RestoreStep
<1>7. ASSUME Retry \/ Crash PROVE BaseInv'
  BY <1>7, BaseRetry, BaseCrash
<1>8. ASSUME UNCHANGED vars PROVE BaseInv'
  BY <1>8
     DEF vars, storeVars, turnVars, restoreVars, slotVars, workVars, mailVars,
         closeVars, history, BaseInv, CallInv, Fits, StoreInv, WorkerInv,
         MailInv, SlotInv, Reserved, ReadyInv, Running, PlaceInv,
         NoLostWakeup, Live, Closing
<1> QED
  BY <1>1, <1>2, <1>3, <1>4, <1>5, <1>6, <1>7, <1>8 DEF Next

THEOREM BaseInvariant == Spec => []BaseInv
<1>1. Init => BaseInv
  BY BaseInit
<1>2. BaseInv /\ [Next]_vars => BaseInv'
  BY BaseNextKeeps
<1> QED
  BY <1>1, <1>2, PTL DEF Spec

\* No agent sleeps in wait over an outcome, a message or its own close
\* (agent-control.ts, wait), whatever arrives while it falls asleep.
THEOREM NoLostWakeupHolds == Spec => []NoLostWakeup
<1>1. BaseInv => NoLostWakeup
  BY DEF BaseInv
<1> QED
  BY <1>1, BaseInvariant, PTL

-----------------------------------------------------------------------------
(* The steps keep what holds while deletions are apart.                    *)

Aside == Ended \cup {"joined"}
Holding == Working \cup {"reserving"}
\* A spawn, a message or a follow-up is admitted in this step.
Enters(y) ==
  /\ y.type \in {"spawn", "followup", "message"}
  /\ op[y] \in Aside /\ op'[y] \notin Aside
\* None is admitted under a path that is closed.
Fenced ==
  \A path \in closing, y \in Calls :
    Enters(y) => ~Under(y.by, path) /\ ~Under(y.to, path)

LEMMA RootAbove == \A c \in Children : ~IsPrefix(Path[c], PathOf(Root))
BY TreeAssumption DEF IsPrefix, PathOf

LEMMA SendingKept ==
  ASSUME Fenced, NEW path \in closing
  PROVE  Sending(path)' \subseteq Sending(path)
BY DEF Fenced, Enters, Sending, Running, Aside

LEMMA QuietKept ==
  ASSUME BaseInv', Fenced, NEW path, Quiet(path), path \in closing'
  PROVE  Quiet(path)'
<1>1. Sending(path)' = {}
  BY SendingKept DEF Quiet
<1>2. ASSUME NEW y \in Calls, Spawner(y)', Under(y.to, path) PROVE FALSE
  <2>1. op'[y] \notin Aside
    BY <1>2 DEF Spawner, Running, Aside, BaseInv, CallInv, Fits
  <2>2. op[y] \notin Aside
    BY <1>2, <2>1 DEF Quiet, Fenced, Enters, Spawner
  <2> QED
    BY <1>2, <2>2 DEF Quiet, Spawner, Running, Aside
<1> QED
  BY <1>1, <1>2 DEF Quiet, Under

\* Nobody joins what a deletion has listed or unregistered.
Joined ==
  \A c \in agents' \ agents, x \in Calls :
    op'[x] \in {"runs", "removing"} /\ Quiet(Path[x.to]) =>
      ~Under(c, Path[x.to])

LEMMA CloseKept ==
  ASSUME BaseInv', CloseInv, Fenced, Joined,
         \A x \in Calls :
           \/ DeleteInv(x)'
           \/ op'[x] \in DeletePhases =>
                /\ op'[x] = op[x]
                /\ Path[x.to] \in closing => Path[x.to] \in closing'
                /\ x.to \in agents => x.to \in agents'
                /\ listed'[x] = listed[x]
  PROVE  CloseInv'
<1>1. ASSUME NEW x \in Calls,
             op'[x] \in DeletePhases =>
               /\ op'[x] = op[x]
               /\ Path[x.to] \in closing => Path[x.to] \in closing'
               /\ x.to \in agents => x.to \in agents'
               /\ listed'[x] = listed[x]
      PROVE  DeleteInv(x)'
  <2>1. ASSUME op'[x] \in DeletePhases
        PROVE  op[x] = op'[x] /\ Path[x.to] \in closing /\ Path[x.to] \in closing'
    BY <1>1, <2>1 DEF CloseInv, DeleteInv
  <2>2. ASSUME op'[x] \in {"spawns", "runs", "removing"}
        PROVE  Sending(Path[x.to])' = {}
    BY <2>1, <2>2, SendingKept DEF CloseInv, DeleteInv, DeletePhases
  <2>3. ASSUME op'[x] \in {"runs", "removing"}
        PROVE  Quiet(Path[x.to])'
    BY <2>1, <2>3, QuietKept DEF CloseInv, DeleteInv, DeletePhases
  <2>4. ASSUME op'[x] \in {"messages", "spawns", "runs"}
        PROVE  x.to \in agents'
    BY <1>1, <2>1, <2>4 DEF CloseInv, DeleteInv, DeletePhases
  <2>5. ASSUME op'[x] = "removing", NEW c \in agents' \ {Root}
        PROVE  ~Under(c, Path[x.to])
    <3>1. op[x] = "removing" /\ Quiet(Path[x.to])
      BY <2>1, <2>5 DEF CloseInv, DeleteInv, DeletePhases
    <3> QED
      BY <2>5, <3>1 DEF CloseInv, DeleteInv, Joined, Quiet
  <2>6. ASSUME op'[x] = "runs", NEW c \in Subtree(x)' PROVE c \in listed'[x]
    <3>1. op[x] = "runs" /\ Quiet(Path[x.to]) /\ listed'[x] = listed[x]
      BY <1>1, <2>1, <2>6 DEF CloseInv, DeleteInv, DeletePhases
    <3>2. CASE c \in agents
      <4>1. c \in Subtree(x)
        BY <2>6, <3>2 DEF Subtree, Under
      <4> QED
        BY <3>1, <4>1 DEF CloseInv, DeleteInv
    <3>3. CASE c \notin agents
      <4>1. c \in agents' /\ c # x.to => Under(c, Path[x.to])
        BY <2>6 DEF Subtree, Under
      <4>2. x.to \in agents
        BY <3>1 DEF CloseInv, DeleteInv
      <4> QED
        BY <2>6, <3>1, <3>3, <4>1, <4>2 DEF Joined, Subtree
    <3> QED
      BY <3>2, <3>3
  <2> QED
    BY <2>1, <2>2, <2>3, <2>4, <2>5, <2>6 DEF DeleteInv, Under
<1> QED
  BY <1>1 DEF CloseInv

\* A deletion that has listed all of its subtree unregisters all of it.
LEMMA AllUnregistered ==
  ASSUME NEW x \in Calls, Unregister(x), Subtree(x) \subseteq listed[x]
  PROVE  /\ agents' = agents \ Subtree(x)
         /\ updates' = [a \in Agents |->
                          IF a \in Subtree(x) THEN {} ELSE updates[a]]
         /\ mailbox' = mailbox \ Subtree(x)
         /\ op' = Woken([op EXCEPT ![x] = "removing"], Subtree(x))
         /\ slot' = [p \in Paths |->
                       IF p \in {Path[c] : c \in Subtree(x)}
                          /\ Spawning(p)' = {} /\ PendingFollowups(p)' = {}
                       THEN "none" ELSE slot[p]]
         /\ tasks' = [c \in Children |->
                        IF c \in Subtree(x) THEN <<>> ELSE tasks[c]]
<1>1. Blocked(x) = {} /\ Subtree(x) \intersect listed[x] = Subtree(x)
  BY DEF Blocked
<1>2. \A some \in Unregistered(x) : some = Subtree(x)
  BY <1>1 DEF Unregistered
<1>3. PICK some \in Unregistered(x) :
        /\ agents' = agents \ some
        /\ updates' = [a \in Agents |-> IF a \in some THEN {} ELSE updates[a]]
        /\ mailbox' = mailbox \ some
        /\ op' = Woken([op EXCEPT ![x] = IF Blocked(x) = {} THEN "removing"
                                         ELSE "failed"], some)
        /\ slot' = [p \in Paths |->
                      IF p \in {Path[c] : c \in some} /\ Spawning(p)' = {}
                                                    /\ PendingFollowups(p)' = {}
                      THEN "none" ELSE slot[p]]
        /\ tasks' = [c \in Children |-> IF c \in some THEN <<>> ELSE tasks[c]]
  BY DEF Unregister
<1>4. some = Subtree(x)
  BY <1>2
<1> QED
  BY <1>1, <1>3, <1>4

LEMMA TaskKept ==
  ASSUME BaseInv', TaskInv, Fenced,
         \A x \in Calls, c \in Children :
           /\ x.type = "delete" /\ op[x] \in {"runs", "failed"}
           /\ Path[x.to] \in closing
           /\ worker'[c] \in Holding /\ Under(c, Path[x.to])
           => op'[x] \in {"runs", "failed"} /\ Path[x.to] \in closing',
         \A c \in Children : worker'[c] \in Holding =>
           Pending(c)' \/ Cut(c)' \/ (worker[c] \in Holding /\ ~Pending(c))
  PROVE  TaskInv'
<1> SUFFICES ASSUME NEW c \in Children, worker'[c] \in Holding,
                    worker[c] \in Holding, ~Pending(c)
             PROVE  Cut(c)'
  BY DEF TaskInv, Holding
<1>1. Cut(c)
  BY DEF TaskInv, Holding
<1>2. PICK x \in Calls :
        /\ x.type = "delete" /\ op[x] \in {"runs", "failed"}
        /\ Quiet(Path[x.to]) /\ Under(c, Path[x.to])
  BY <1>1 DEF Cut
<1>3. op'[x] \in {"runs", "failed"} /\ Path[x.to] \in closing'
  BY <1>2 DEF Quiet
<1>4. Quiet(Path[x.to])'
  BY <1>2, <1>3, QuietKept
<1> QED
  BY <1>2, <1>3, <1>4 DEF Cut, Under

\* A step that neither admits what is sent nor advances a deletion ...
Calm ==
  /\ UNCHANGED closeVars /\ Joined /\ agents \subseteq agents'
  /\ \A y \in Calls :
       \/ op'[y] \in {op[y], "failed"} \/ op[y] = "waiting"
       \/ /\ y.type # "delete"
          /\ op[y] \in Aside => op'[y] \in Aside \/ y.type = "wait"
\* ... and drops no task of a worker.
TasksStay ==
  \A c \in Children : worker'[c] \in Holding =>
    Pending(c)' \/ (worker[c] \in Holding /\ ~Pending(c))

LEMMA FencedKept ==
  ASSUME BaseInv', WorkInv, Fenced, Joined, TasksStay, UNCHANGED closeVars,
         agents \subseteq agents',
         \A y \in Calls : y.type = "delete" => op'[y] \in {op[y], "failed"}
  PROVE  CloseInv' /\ TaskInv'
<1>1. \A x \in Calls :
        op'[x] \in DeletePhases => op'[x] = op[x] /\ closing' = closing
  BY DEF BaseInv, CallInv, Fits, DeletePhases, closeVars
<1>2. CloseInv'
  BY <1>1, CloseKept DEF WorkInv, closeVars
<1>3. TaskInv'
  BY TaskKept DEF WorkInv, TasksStay, closeVars
<1> QED
  BY <1>2, <1>3

LEMMA CalmKept ==
  ASSUME BaseInv, BaseInv', WorkInv, Calm, TasksStay
  PROVE  CloseInv' /\ TaskInv'
<1>1. \A y \in Calls : op[y] = "waiting" => y.type = "wait"
  BY DEF BaseInv, CallInv, Fits
<1>2. Fenced
  BY <1>1 DEF Calm, Fenced, Enters, Aside, Ended
<1>3. \A y \in Calls : y.type = "delete" => op'[y] \in {op[y], "failed"}
  BY <1>1 DEF Calm
<1> QED
  BY <1>2, <1>3, FencedKept DEF Calm

\* Whoever is on the way to a child keeps its tasks from being cut.
LEMMA NotCut ==
  ASSUME BaseInv, NEW x \in Calls, NEW c \in Children, x.to \in Children,
         Path[x.to] = Path[c], x.type \in {"spawn", "followup", "message"},
         op[x] \notin Aside
  PROVE  ~Cut(c)
<1> SUFFICES ASSUME NEW z \in Calls, Quiet(Path[z.to]), Under(c, Path[z.to])
             PROVE  FALSE
  BY DEF Cut
<1>1. Under(x.to, Path[z.to])
  BY Constants DEF Under
<1> QED
  BY <1>1 DEF Quiet, Spawner, Sending, Running, Aside

LEMMA HeldReleased ==
  ASSUME BaseInv, BaseInv', HeldInv, NEW p \in Paths, NEW skipped,
         UNCHANGED slotVars \/ ReleaseBut(p, skipped),
         \A c \in Children : worker'[c] \in Working =>
           /\ worker[c] \in Working
           /\ Path[c] = p => c # skipped /\ Pending(c)'
  PROVE  HeldInv'
<1> SUFFICES ASSUME NEW c \in Children, worker'[c] \in Working
             PROVE  slot'[Path[c]] = "held"
  BY DEF HeldInv
<1>1. slot[Path[c]] = "held"
  BY DEF HeldInv
<1>2. CASE UNCHANGED slotVars
  BY <1>1, <1>2 DEF slotVars
<1>3. CASE ReleaseBut(p, skipped)
  <2>1. CASE Path[c] # p
    BY <1>1, <1>3, <2>1, Constants, SlotReleased DEF BaseInv
  <2>2. CASE Path[c] = p
    <3>1. c \in agents \ {Root}
      BY TreeAssumption DEF BaseInv, PlaceInv, Working
    <3>2. HasTask(c, skipped)'
      <4>1. Pending(c)' /\ c # skipped
        BY <2>2
      <4>2. 1 \in DOMAIN tasks'[c]
        <5>1. tasks'[c] \in Seq(TaskType) /\ tasks'[c] # <<>>
          BY <4>1 DEF BaseInv, WorkerInv, Pending
        <5> QED
          BY <5>1, Queues
      <4> QED
        BY <4>1, <4>2 DEF HasTask, Pending
    <3>3. slot' = [slot EXCEPT ![p] = slot[p]]
      BY <1>3, <2>2, <3>1, <3>2 DEF ReleaseBut
    <3> QED
      BY <1>1, <2>2, <3>3, Constants DEF BaseInv, SlotInv
  <2> QED
    BY <2>1, <2>2
<1> QED
  BY <1>2, <1>3

LEMMA HeldReserved ==
  ASSUME BaseInv, HeldInv, NEW p \in Paths,
         UNCHANGED slotVars \/ (~Refused(p) /\ Reserve(p)),
         \A c \in Children : worker'[c] \in Working =>
           worker[c] \in Working \/ slot[Path[c]] = "held"
  PROVE  HeldInv'
<1>1. \A q \in Paths : slot[q] = "held" => slot'[q] = "held"
  BY SlotReserved DEF BaseInv, slotVars
<1> QED
  BY <1>1, Constants DEF HeldInv

\* Two workers on one path are one.
LEMMA OneWorker ==
  ASSUME BaseInv, NEW c \in Children, NEW d \in Children,
         worker[c] # "none", worker[d] # "none", Path[c] = Path[d]
  PROVE  c = d
BY TreeAssumption DEF BaseInv, PlaceInv

LEMMA HeldByCall ==
  ASSUME BaseInv, BaseInv', WorkInv, NEW x \in Calls, x.to \in Children,
         x.type \in {"spawn", "followup"}, op[x] \notin Aside,
         UNCHANGED slotVars \/ ReleaseIdle(Path[x.to]),
         \A c \in Children : worker'[c] \in Working =>
           worker[c] \in Working /\ (Pending(c) => Pending(c)')
  PROVE  HeldInv'
<1>1. ASSUME NEW c \in Children, worker'[c] \in Working, Path[c] = Path[x.to]
      PROVE  Pending(c)'
  <2>1. ~Cut(c)
    BY <1>1, NotCut
  <2> QED
    BY <1>1, <2>1 DEF WorkInv, TaskInv
<1>2. \A c \in Children :
        worker'[c] \in Working =>
          /\ worker[c] \in Working
          /\ Path[c] = Path[x.to] => c # Root /\ Pending(c)'
  BY <1>1, Constants
<1>3. Path[x.to] \in Paths
  BY Constants
<1>4. UNCHANGED slotVars \/ ReleaseBut(Path[x.to], Root)
  BY DEF ReleaseIdle
<1>5. HeldInv
  BY DEF WorkInv
<1> QED
  BY <1>2, <1>3, <1>4, <1>5, HeldReleased

LEMMA HeldByWorker ==
  ASSUME BaseInv, BaseInv', WorkInv, NEW c \in Children, worker[c] # "none",
         NEW skipped, UNCHANGED slotVars \/ ReleaseBut(Path[c], skipped),
         worker'[c] \in Working => worker[c] \in Working /\ UNCHANGED slotVars,
         \A d \in Children : d # c => worker'[d] = worker[d]
  PROVE  HeldInv'
<1>1. CASE UNCHANGED slotVars
  BY <1>1 DEF WorkInv, HeldInv, slotVars
<1>2. CASE ReleaseBut(Path[c], skipped) /\ ~ UNCHANGED slotVars
  <2>1. ASSUME NEW d \in Children, worker'[d] \in Working
        PROVE  worker[d] \in Working /\ Path[d] # Path[c]
    BY <1>2, <2>1, OneWorker DEF Working
  <2> QED
    BY <1>2, <2>1, Constants, HeldReleased DEF WorkInv
<1> QED
  BY <1>1, <1>2

-----------------------------------------------------------------------------
(* The steps keep what holds of the workers and their slots.               *)

\* The thread of a child is created.
LEMMA WorkCreate ==
  ASSUME BaseInv, BaseInv', WorkInv, NEW x \in Calls, CreateThread(x)
  PROVE  WorkInv'
<1> USE DEF SpawnFrame, SendFrame, CallFrame, WorkFrame, SessionFrame,
        WaitFrame, DeleteFrame, RestoreFrame, SessionStep, storeVars,
        turnVars, restoreVars, slotVars, workVars, mailVars, closeVars,
        history, To, Goes, Calling, Fails
<1>1. Calm
  BY DEF CreateThread, SpawnEnds, Calm, Joined, BaseInv, CallInv, Fits,
      Aside, Ended, CallPhases, SpawnPhases, SendPhases, DeletePhases
<1>2. TasksStay
  BY DEF CreateThread, SpawnEnds, TasksStay, Pending, Holding, Working,
      BaseInv, WorkerInv
<1>3. CloseInv' /\ TaskInv'
  BY <1>1, <1>2, CalmKept
<1>4. HeldInv'
  <2>1. x.to \in Children /\ x.type \in {"spawn", "followup"} /\ op[x] \notin Aside
    BY Constants DEF CreateThread, SpawnEnds, BaseInv, CallInv, Fits, Aside, Ended, CallPhases, SpawnPhases, SendPhases, DeletePhases
  <2>2. UNCHANGED slotVars \/ ReleaseIdle(Path[x.to])
    BY DEF CreateThread, SpawnEnds
  <2>3. UNCHANGED workVars
    BY DEF CreateThread, SpawnEnds
  <2> QED
    BY <2>1, <2>2, <2>3, HeldByCall DEF Pending
<1> QED
  BY <1>3, <1>4 DEF WorkInv

\* The thread joins the tree.
LEMMA WorkLink ==
  ASSUME BaseInv, BaseInv', WorkInv, NEW x \in Calls, LinkThread(x)
  PROVE  WorkInv'
<1> USE DEF SpawnFrame, SendFrame, CallFrame, WorkFrame, SessionFrame,
        WaitFrame, DeleteFrame, RestoreFrame, SessionStep, storeVars,
        turnVars, restoreVars, slotVars, workVars, mailVars, closeVars,
        history, To, Goes, Calling, Fails
<1>1. Calm
  BY DEF LinkThread, Calm, Joined, BaseInv, CallInv, Fits, Aside, Ended,
      CallPhases, SpawnPhases, SendPhases, DeletePhases
<1>2. TasksStay
  BY DEF LinkThread, TasksStay, Pending, Holding, Working, BaseInv, WorkerInv
<1>3. CloseInv' /\ TaskInv'
  BY <1>1, <1>2, CalmKept
<1>4. HeldInv'
  BY DEF LinkThread, WorkInv, HeldInv, Working, BaseInv, WorkerInv
<1> QED
  BY <1>3, <1>4 DEF WorkInv

\* A thread without an edge is discarded.
LEMMA WorkDiscard ==
  ASSUME BaseInv, BaseInv', WorkInv, NEW x \in Calls, DiscardChild(x)
  PROVE  WorkInv'
<1> USE DEF SpawnFrame, SendFrame, CallFrame, WorkFrame, SessionFrame,
        WaitFrame, DeleteFrame, RestoreFrame, SessionStep, storeVars,
        turnVars, restoreVars, slotVars, workVars, mailVars, closeVars,
        history, To, Goes, Calling, Fails
<1>1. Calm
  BY DEF DiscardChild, SpawnEnds, Calm, Joined, BaseInv, CallInv, Fits,
      Aside, Ended, CallPhases, SpawnPhases, SendPhases, DeletePhases
<1>2. TasksStay
  BY DEF DiscardChild, SpawnEnds, TasksStay, Pending, Holding, Working,
      BaseInv, WorkerInv
<1>3. CloseInv' /\ TaskInv'
  BY <1>1, <1>2, CalmKept
<1>4. HeldInv'
  <2>1. x.to \in Children /\ x.type \in {"spawn", "followup"} /\ op[x] \notin Aside
    BY Constants DEF DiscardChild, SpawnEnds, BaseInv, CallInv, Fits, Aside, Ended, CallPhases, SpawnPhases, SendPhases, DeletePhases
  <2>2. UNCHANGED slotVars \/ ReleaseIdle(Path[x.to])
    BY DEF DiscardChild, SpawnEnds
  <2>3. UNCHANGED workVars
    BY DEF DiscardChild, SpawnEnds
  <2> QED
    BY <2>1, <2>2, <2>3, HeldByCall DEF Pending
<1> QED
  BY <1>3, <1>4 DEF WorkInv

\* A child is registered.
LEMMA WorkRegister ==
  ASSUME BaseInv, BaseInv', WorkInv, NEW x \in Calls, RegisterChild(x)
  PROVE  WorkInv'
<1> USE DEF SpawnFrame, SendFrame, CallFrame, WorkFrame, SessionFrame,
        WaitFrame, DeleteFrame, RestoreFrame, SessionStep, storeVars,
        turnVars, restoreVars, slotVars, workVars, mailVars, closeVars,
        history, To, Goes, Calling, Fails
<1>1. /\ x.to \in Children /\ x.type \in {"spawn", "followup"}
      /\ op[x] \notin Aside /\ Task("none") \in TaskType
  BY Constants DEF RegisterChild, Task, TaskType, Ids, BaseInv, CallInv,
      Fits, Aside, Ended, CallPhases, SpawnPhases, SendPhases, DeletePhases
<1>2. \/ UNCHANGED workVars
      \/ /\ tasks' = [tasks EXCEPT ![x.to] = Append(@, Task("none"))]
         /\ worker' = Started({x.to}, tasks')
  BY DEF RegisterChild, Enqueue
<1>3. \A c \in Children :
        /\ Pending(c) => Pending(c)'
        /\ worker'[c] \in Holding => worker'[c] = worker[c]
  <2>1. CASE UNCHANGED workVars
    BY <2>1 DEF Pending
  <2>2. CASE ~ UNCHANGED workVars
    <3>1. \A c \in Children : tasks[c] \in Seq(TaskType)
      BY DEF BaseInv, WorkerInv
    <3>2. \A c \in Children :
            tasks'[c] = IF c = x.to THEN Append(tasks[c], Task("none"))
                        ELSE tasks[c]
      BY <1>2, <2>2 DEF BaseInv, WorkerInv
    <3>3. ASSUME NEW c \in Children, Pending(c) PROVE Pending(c)'
      <4>1. /\ Append(tasks[c], Task("none")) # <<>>
            /\ Append(tasks[c], Task("none"))[1] = tasks[c][1]
        <5>1. tasks[c] # <<>> /\ tasks[c] \in Seq(TaskType)
          BY <3>1, <3>3 DEF Pending
        <5> QED
          BY <1>1, <5>1, Queues
      <4> QED
        BY <3>2, <3>3, <4>1 DEF Pending
    <3>4. \A c \in Children : worker'[c] \in {worker[c], "reserve"}
      BY <1>2, <2>2, StartedFacts DEF BaseInv
    <3> QED
      BY <3>3, <3>4 DEF Holding, Working
  <2> QED
    BY <2>1, <2>2
<1>4. Calm
  BY DEF RegisterChild, Spawner, Running, Quiet, Calm, Joined, BaseInv,
      CallInv, Fits, Aside, Ended, CallPhases, SpawnPhases, SendPhases,
      DeletePhases
<1>5. TasksStay
  BY <1>3 DEF TasksStay
<1>6. CloseInv' /\ TaskInv'
  BY <1>4, <1>5, CalmKept
<1>7. HeldInv'
  BY <1>3 DEF RegisterChild, WorkInv, HeldInv, Holding
<1> QED
  BY <1>6, <1>7 DEF WorkInv

\* A child whose path was closed is removed.
LEMMA WorkRollback ==
  ASSUME BaseInv, BaseInv', WorkInv, NEW x \in Calls, RollbackChild(x)
  PROVE  WorkInv'
<1> USE DEF SpawnFrame, SendFrame, CallFrame, WorkFrame, SessionFrame,
        WaitFrame, DeleteFrame, RestoreFrame, SessionStep, storeVars,
        turnVars, restoreVars, slotVars, workVars, mailVars, closeVars,
        history, To, Goes, Calling, Fails
<1>1. Calm
  BY DEF RollbackChild, RollbackFails, SpawnEnds, Calm, Joined, BaseInv,
      CallInv, Fits, Aside, Ended, CallPhases, SpawnPhases, SendPhases,
      DeletePhases
<1>2. TasksStay
  BY DEF RollbackChild, RollbackFails, SpawnEnds, TasksStay, Pending,
      Holding, Working, BaseInv, WorkerInv
<1>3. CloseInv' /\ TaskInv'
  BY <1>1, <1>2, CalmKept
<1>4. HeldInv'
  <2>1. x.to \in Children /\ x.type \in {"spawn", "followup"} /\ op[x] \notin Aside
    BY Constants DEF RollbackChild, RollbackFails, SpawnEnds, BaseInv, CallInv, Fits, Aside, Ended, CallPhases, SpawnPhases, SendPhases, DeletePhases
  <2>2. UNCHANGED slotVars \/ ReleaseIdle(Path[x.to])
    BY DEF RollbackChild, RollbackFails, SpawnEnds
  <2>3. UNCHANGED workVars
    BY DEF RollbackChild, RollbackFails, SpawnEnds
  <2> QED
    BY <2>1, <2>2, <2>3, HeldByCall DEF Pending
<1> QED
  BY <1>3, <1>4 DEF WorkInv

\* A repeated follow-up shares the receipt.
LEMMA WorkJoin ==
  ASSUME BaseInv, BaseInv', WorkInv, NEW x \in Calls, JoinEnds(x)
  PROVE  WorkInv'
<1> USE DEF SpawnFrame, SendFrame, CallFrame, WorkFrame, SessionFrame,
        WaitFrame, DeleteFrame, RestoreFrame, SessionStep, storeVars,
        turnVars, restoreVars, slotVars, workVars, mailVars, closeVars,
        history, To, Goes, Calling, Fails
<1>1. Calm
  BY DEF JoinEnds, Calm, Joined, BaseInv, CallInv, Fits, Aside, Ended,
      CallPhases, SpawnPhases, SendPhases, DeletePhases
<1>2. TasksStay
  BY DEF JoinEnds, TasksStay, Pending, Holding, Working, BaseInv, WorkerInv
<1>3. CloseInv' /\ TaskInv'
  BY <1>1, <1>2, CalmKept
<1>4. HeldInv'
  BY DEF JoinEnds, WorkInv, HeldInv, Working, BaseInv, WorkerInv
<1> QED
  BY <1>3, <1>4 DEF WorkInv

\* The recipient is loaded.
LEMMA WorkLoad ==
  ASSUME BaseInv, BaseInv', WorkInv, NEW x \in Calls, LoadRecipient(x)
  PROVE  WorkInv'
<1> USE DEF SpawnFrame, SendFrame, CallFrame, WorkFrame, SessionFrame,
        WaitFrame, DeleteFrame, RestoreFrame, SessionStep, storeVars,
        turnVars, restoreVars, slotVars, workVars, mailVars, closeVars,
        history, To, Goes, Calling, Fails
<1>1. Calm
  BY DEF LoadRecipient, Calm, Joined, BaseInv, CallInv, Fits, Aside, Ended,
      CallPhases, SpawnPhases, SendPhases, DeletePhases
<1>2. TasksStay
  BY DEF LoadRecipient, TasksStay, Pending, Holding, Working, BaseInv,
      WorkerInv
<1>3. CloseInv' /\ TaskInv'
  BY <1>1, <1>2, CalmKept
<1>4. HeldInv'
  BY DEF LoadRecipient, WorkInv, HeldInv, Working, BaseInv, WorkerInv
<1> QED
  BY <1>3, <1>4 DEF WorkInv

\* A message is delivered.
LEMMA WorkDeliver ==
  ASSUME BaseInv, BaseInv', WorkInv, NEW x \in Calls, DeliverMessage(x)
  PROVE  WorkInv'
<1> USE DEF SpawnFrame, SendFrame, CallFrame, WorkFrame, SessionFrame,
        WaitFrame, DeleteFrame, RestoreFrame, SessionStep, storeVars,
        turnVars, restoreVars, slotVars, workVars, mailVars, closeVars,
        history, To, Goes, Calling, Fails
<1>1. Calm
  BY DEF DeliverMessage, Arrives, Woken, Calm, Joined, BaseInv, CallInv,
      Fits, Aside, Ended, CallPhases, SpawnPhases, SendPhases, DeletePhases
<1>2. TasksStay
  BY DEF DeliverMessage, Arrives, Woken, TasksStay, Pending, Holding,
      Working, BaseInv, WorkerInv
<1>3. CloseInv' /\ TaskInv'
  BY <1>1, <1>2, CalmKept
<1>4. HeldInv'
  BY DEF DeliverMessage, Arrives, Woken, WorkInv, HeldInv, Working, BaseInv,
      WorkerInv
<1> QED
  BY <1>3, <1>4 DEF WorkInv

\* A follow-up meets the Session.
LEMMA WorkSteer ==
  ASSUME BaseInv, BaseInv', WorkInv, NEW x \in Calls, SteerChild(x)
  PROVE  WorkInv'
<1> USE DEF SpawnFrame, SendFrame, CallFrame, WorkFrame, SessionFrame,
        WaitFrame, DeleteFrame, RestoreFrame, SessionStep, storeVars,
        turnVars, restoreVars, slotVars, workVars, mailVars, closeVars,
        history, To, Goes, Calling, Fails
<1>1. Calm
  BY DEF SteerChild, Arrives, Woken, Calm, Joined, BaseInv, CallInv, Fits,
      Aside, Ended, CallPhases, SpawnPhases, SendPhases, DeletePhases
<1>2. TasksStay
  BY DEF SteerChild, Arrives, Woken, TasksStay, Pending, Holding, Working,
      BaseInv, WorkerInv
<1>3. CloseInv' /\ TaskInv'
  BY <1>1, <1>2, CalmKept
<1>4. HeldInv'
  <2>1. /\ x.to \in Children /\ Path[x.to] \in Paths /\ x.type = "followup"
        /\ op[x] \notin Aside
    BY Constants DEF SteerChild, BaseInv, CallInv, Fits, Aside, Ended, CallPhases, SpawnPhases, SendPhases, DeletePhases
  <2>2. UNCHANGED workVars
    BY DEF SteerChild
  <2>3. CASE ReleaseIdle(Path[x.to])
    BY <2>1, <2>2, <2>3, HeldByCall DEF Pending
  <2>4. CASE ~Refused(Path[x.to]) /\ Reserve(Path[x.to])
    BY <2>1, <2>2, <2>4, HeldReserved DEF WorkInv
  <2> QED
    BY <2>3, <2>4 DEF SteerChild
<1> QED
  BY <1>3, <1>4 DEF WorkInv

\* A follow-up is queued.
LEMMA WorkFollowup ==
  ASSUME BaseInv, BaseInv', WorkInv, NEW x \in Calls, StartFollowup(x)
  PROVE  WorkInv'
<1> USE DEF SpawnFrame, SendFrame, CallFrame, WorkFrame, SessionFrame,
        WaitFrame, DeleteFrame, RestoreFrame, SessionStep, storeVars,
        turnVars, restoreVars, slotVars, workVars, mailVars, closeVars,
        history, To, Goes, Calling, Fails
<1>1. /\ x.to \in Children /\ x.type \in {"spawn", "followup"}
      /\ op[x] \notin Aside /\ Task(x.id) \in TaskType
  BY Constants DEF StartFollowup, Task, TaskType, Ids, BaseInv, CallInv,
      Fits, Aside, Ended, CallPhases, SpawnPhases, SendPhases, DeletePhases
<1>2. \/ UNCHANGED workVars
      \/ /\ tasks' = [tasks EXCEPT ![x.to] = Append(@, Task(x.id))]
         /\ worker' = Started({x.to}, tasks')
  BY DEF StartFollowup, Enqueue
<1>3. \A c \in Children :
        /\ Pending(c) => Pending(c)'
        /\ worker'[c] \in Holding => worker'[c] = worker[c]
  <2>1. CASE UNCHANGED workVars
    BY <2>1 DEF Pending
  <2>2. CASE ~ UNCHANGED workVars
    <3>1. \A c \in Children : tasks[c] \in Seq(TaskType)
      BY DEF BaseInv, WorkerInv
    <3>2. \A c \in Children :
            tasks'[c] = IF c = x.to THEN Append(tasks[c], Task(x.id))
                        ELSE tasks[c]
      BY <1>2, <2>2 DEF BaseInv, WorkerInv
    <3>3. ASSUME NEW c \in Children, Pending(c) PROVE Pending(c)'
      <4>1. /\ Append(tasks[c], Task(x.id)) # <<>>
            /\ Append(tasks[c], Task(x.id))[1] = tasks[c][1]
        <5>1. tasks[c] # <<>> /\ tasks[c] \in Seq(TaskType)
          BY <3>1, <3>3 DEF Pending
        <5> QED
          BY <1>1, <5>1, Queues
      <4> QED
        BY <3>2, <3>3, <4>1 DEF Pending
    <3>4. \A c \in Children : worker'[c] \in {worker[c], "reserve"}
      BY <1>2, <2>2, StartedFacts DEF BaseInv
    <3> QED
      BY <3>3, <3>4 DEF Holding, Working
  <2> QED
    BY <2>1, <2>2
<1>4. Calm
  BY DEF StartFollowup, Calm, Joined, BaseInv, CallInv, Fits, Aside, Ended,
      CallPhases, SpawnPhases, SendPhases, DeletePhases
<1>5. TasksStay
  BY <1>3 DEF TasksStay
<1>6. CloseInv' /\ TaskInv'
  BY <1>4, <1>5, CalmKept
<1>7. HeldInv'
  <2>1. ReleaseIdle(Path[x.to])
    BY DEF StartFollowup
  <2> QED
    BY <1>1, <1>3, <2>1, HeldByCall DEF Holding
<1> QED
  BY <1>6, <1>7 DEF WorkInv

\* An agent waits.
LEMMA WorkWait ==
  ASSUME BaseInv, BaseInv', WorkInv, NEW x \in Calls, Wait(x)
  PROVE  WorkInv'
<1> USE DEF SpawnFrame, SendFrame, CallFrame, WorkFrame, SessionFrame,
        WaitFrame, DeleteFrame, RestoreFrame, SessionStep, storeVars,
        turnVars, restoreVars, slotVars, workVars, mailVars, closeVars,
        history, To, Goes, Calling, Fails
<1>1. \A c \in Children : worker'[c] \in {worker[c], "reserve"}
  BY StartedFacts DEF Wait, BaseInv
<1>2. Calm
  BY DEF Wait, Calm, Joined, BaseInv, CallInv, Fits, Aside, Ended,
      CallPhases, SpawnPhases, SendPhases, DeletePhases
<1>3. TasksStay
  BY <1>1 DEF Wait, TasksStay, Pending, Holding, Working
<1>4. CloseInv' /\ TaskInv'
  BY <1>2, <1>3, CalmKept
<1>5. HeldInv'
  BY <1>1 DEF Wait, WorkInv, HeldInv, Working
<1> QED
  BY <1>4, <1>5 DEF WorkInv

\* A wait ends.
LEMMA WorkWaitEnds ==
  ASSUME BaseInv, BaseInv', WorkInv, NEW x \in Calls, WaitEnds(x)
  PROVE  WorkInv'
<1> USE DEF SpawnFrame, SendFrame, CallFrame, WorkFrame, SessionFrame,
        WaitFrame, DeleteFrame, RestoreFrame, SessionStep, storeVars,
        turnVars, restoreVars, slotVars, workVars, mailVars, closeVars,
        history, To, Goes, Calling, Fails
<1>1. Calm
  BY DEF WaitEnds, Calm, Joined, BaseInv, CallInv, Fits, Aside, Ended,
      CallPhases, SpawnPhases, SendPhases, DeletePhases
<1>2. TasksStay
  BY DEF WaitEnds, TasksStay, Pending, Holding, Working, BaseInv, WorkerInv
<1>3. CloseInv' /\ TaskInv'
  BY <1>1, <1>2, CalmKept
<1>4. HeldInv'
  BY DEF WaitEnds, WorkInv, HeldInv, Working, BaseInv, WorkerInv
<1> QED
  BY <1>3, <1>4 DEF WorkInv

\* A Turn that nobody in the tree asked for.
LEMMA WorkDirect ==
  ASSUME BaseInv, BaseInv', WorkInv, NEW x \in Calls, DirectTurn(x)
  PROVE  WorkInv'
<1> USE DEF SpawnFrame, SendFrame, CallFrame, WorkFrame, SessionFrame,
        WaitFrame, DeleteFrame, RestoreFrame, SessionStep, storeVars,
        turnVars, restoreVars, slotVars, workVars, mailVars, closeVars,
        history, To, Goes, Calling, Fails
<1>1. Calm
  BY DEF DirectTurn, Calm, Joined, BaseInv, CallInv, Fits, Aside, Ended,
      CallPhases, SpawnPhases, SendPhases, DeletePhases
<1>2. TasksStay
  BY DEF DirectTurn, TasksStay, Pending, Holding, Working, BaseInv, WorkerInv
<1>3. CloseInv' /\ TaskInv'
  BY <1>1, <1>2, CalmKept
<1>4. HeldInv'
  BY DEF DirectTurn, WorkInv, HeldInv, Working, BaseInv, WorkerInv
<1> QED
  BY <1>3, <1>4 DEF WorkInv

\* Workers are started again.
LEMMA WorkRetry ==
  ASSUME BaseInv, BaseInv', WorkInv, Retry
  PROVE  WorkInv'
<1> USE DEF SpawnFrame, SendFrame, CallFrame, WorkFrame, SessionFrame,
        WaitFrame, DeleteFrame, RestoreFrame, SessionStep, storeVars,
        turnVars, restoreVars, slotVars, workVars, mailVars, closeVars,
        history, To, Goes, Calling, Fails
<1>1. \A c \in Children : worker'[c] \in {worker[c], "reserve"}
  BY StartedFacts DEF Retry, BaseInv
<1>2. Calm
  BY DEF Retry, Calm, Joined, BaseInv, CallInv, Fits, Aside, Ended,
      CallPhases, SpawnPhases, SendPhases, DeletePhases
<1>3. TasksStay
  BY <1>1 DEF Retry, TasksStay, Pending, Holding, Working
<1>4. CloseInv' /\ TaskInv'
  BY <1>2, <1>3, CalmKept
<1>5. HeldInv'
  BY <1>1 DEF Retry, WorkInv, HeldInv, Working
<1> QED
  BY <1>4, <1>5 DEF WorkInv

\* A Turn goes on.
LEMMA WorkTurn ==
  ASSUME BaseInv, BaseInv', WorkInv, NEW c \in Children, TurnStep(c)
  PROVE  WorkInv'
<1> USE DEF SpawnFrame, SendFrame, CallFrame, WorkFrame, SessionFrame,
        WaitFrame, DeleteFrame, RestoreFrame, SessionStep, storeVars,
        turnVars, restoreVars, slotVars, workVars, mailVars, closeVars,
        history, To, Goes, Calling, Fails
<1>1. Calm
  BY DEF TurnStep, TurnTakes, TurnStops, TurnEnds, Calm, Joined, BaseInv,
      CallInv, Fits, Aside, Ended, CallPhases, SpawnPhases, SendPhases,
      DeletePhases
<1>2. TasksStay
  BY DEF TurnStep, TurnTakes, TurnStops, TurnEnds, TasksStay, Pending,
      Holding, Working, BaseInv, WorkerInv
<1>3. CloseInv' /\ TaskInv'
  BY <1>1, <1>2, CalmKept
<1>4. HeldInv'
  BY DEF TurnStep, TurnTakes, TurnStops, TurnEnds, WorkInv, HeldInv, Working,
      BaseInv, WorkerInv
<1> QED
  BY <1>3, <1>4 DEF WorkInv

\* A worker has its slot.
LEMMA WorkCheck ==
  ASSUME BaseInv, BaseInv', WorkInv, NEW c \in Children, CheckTask(c)
  PROVE  WorkInv'
<1> USE DEF SpawnFrame, SendFrame, CallFrame, WorkFrame, SessionFrame,
        WaitFrame, DeleteFrame, RestoreFrame, SessionStep, storeVars,
        turnVars, restoreVars, slotVars, workVars, mailVars, closeVars,
        history, To, Goes, Calling, Fails
<1>1. Calm
  BY DEF CheckTask, Woken, Calm, Joined
<1>2. TasksStay
  BY DEF CheckTask, TasksStay, Pending, Holding, Working, BaseInv, WorkerInv
<1>3. CloseInv' /\ TaskInv'
  BY <1>1, <1>2, CalmKept
<1>4. HeldInv'
  <2>1. UNCHANGED slotVars \/ ReleaseBut(Path[c], c)
    BY DEF CheckTask
  <2>2. worker[c] # "none"
    BY DEF CheckTask
  <2>3. /\ worker'[c] \in Working => worker[c] \in Working /\ UNCHANGED slotVars
        /\ \A d \in Children : d # c => worker'[d] = worker[d]
    BY DEF CheckTask, Working, BaseInv, WorkerInv
  <2> QED
    BY <2>1, <2>2, <2>3, HeldByWorker
<1> QED
  BY <1>3, <1>4 DEF WorkInv

\* A Turn is started for a task.
LEMMA WorkLaunch ==
  ASSUME BaseInv, BaseInv', WorkInv, NEW c \in Children, LaunchTask(c)
  PROVE  WorkInv'
<1> USE DEF SpawnFrame, SendFrame, CallFrame, WorkFrame, SessionFrame,
        WaitFrame, DeleteFrame, RestoreFrame, SessionStep, storeVars,
        turnVars, restoreVars, slotVars, workVars, mailVars, closeVars,
        history, To, Goes, Calling, Fails
<1>1. Calm
  BY DEF LaunchTask, Woken, Calm, Joined
<1>2. TasksStay
  BY DEF LaunchTask, TasksStay, Pending, Holding, Working, BaseInv, WorkerInv
<1>3. CloseInv' /\ TaskInv'
  BY <1>1, <1>2, CalmKept
<1>4. HeldInv'
  BY DEF LaunchTask, WorkInv, HeldInv, Working, BaseInv, WorkerInv
<1> QED
  BY <1>3, <1>4 DEF WorkInv

\* A task that could not be launched fails.
LEMMA WorkFail ==
  ASSUME BaseInv, BaseInv', WorkInv, NEW c \in Children, FailTask(c)
  PROVE  WorkInv'
<1> USE DEF SpawnFrame, SendFrame, CallFrame, WorkFrame, SessionFrame,
        WaitFrame, DeleteFrame, RestoreFrame, SessionStep, storeVars,
        turnVars, restoreVars, slotVars, workVars, mailVars, closeVars,
        history, To, Goes, Calling, Fails
<1>1. Calm
  BY DEF FailTask, Dies, Rejects, Woken, Calm, Joined
<1>2. TasksStay
  BY DEF FailTask, Dies, Rejects, TasksStay, Pending, Holding, Working,
      BaseInv, WorkerInv
<1>3. CloseInv' /\ TaskInv'
  BY <1>1, <1>2, CalmKept
<1>4. HeldInv'
  <2>1. UNCHANGED slotVars \/ ReleaseBut(Path[c], c)
    BY DEF FailTask, Dies, Rejects
  <2>2. worker[c] # "none"
    BY DEF FailTask, Dies, Rejects
  <2>3. /\ worker'[c] \in Working => worker[c] \in Working /\ UNCHANGED slotVars
        /\ \A d \in Children : d # c => worker'[d] = worker[d]
    BY DEF FailTask, Dies, Rejects, Working, BaseInv, WorkerInv
  <2> QED
    BY <2>1, <2>2, <2>3, HeldByWorker
<1> QED
  BY <1>3, <1>4 DEF WorkInv

\* The outcome of a task is known.
LEMMA WorkSettle ==
  ASSUME BaseInv, BaseInv', WorkInv, NEW c \in Children, SettleTask(c)
  PROVE  WorkInv'
<1> USE DEF SpawnFrame, SendFrame, CallFrame, WorkFrame, SessionFrame,
        WaitFrame, DeleteFrame, RestoreFrame, SessionStep, storeVars,
        turnVars, restoreVars, slotVars, workVars, mailVars, closeVars,
        history, To, Goes, Calling, Fails
<1>1. Calm
  BY DEF SettleTask, ReleaseIdle, Woken, Calm, Joined
<1>2. TasksStay
  BY DEF SettleTask, ReleaseIdle, TasksStay, Pending, Holding, Working,
      BaseInv, WorkerInv
<1>3. CloseInv' /\ TaskInv'
  BY <1>1, <1>2, CalmKept
<1>4. HeldInv'
  <2>1. UNCHANGED slotVars \/ ReleaseBut(Path[c], Root)
    BY DEF SettleTask, ReleaseIdle
  <2>2. worker[c] # "none"
    BY DEF SettleTask, ReleaseIdle
  <2>3. /\ worker'[c] \in Working => worker[c] \in Working /\ UNCHANGED slotVars
        /\ \A d \in Children : d # c => worker'[d] = worker[d]
    BY DEF SettleTask, ReleaseIdle, Working, BaseInv, WorkerInv
  <2> QED
    BY <2>1, <2>2, <2>3, HeldByWorker
<1> QED
  BY <1>3, <1>4 DEF WorkInv

\* An outcome gets its id.
LEMMA WorkName ==
  ASSUME BaseInv, BaseInv', WorkInv, NEW c \in Children, NameOutcome(c)
  PROVE  WorkInv'
<1> USE DEF SpawnFrame, SendFrame, CallFrame, WorkFrame, SessionFrame,
        WaitFrame, DeleteFrame, RestoreFrame, SessionStep, storeVars,
        turnVars, restoreVars, slotVars, workVars, mailVars, closeVars,
        history, To, Goes, Calling, Fails
<1>1. Calm
  BY DEF NameOutcome, Dies, Rejects, Woken, Calm, Joined
<1>2. TasksStay
  BY DEF NameOutcome, Dies, Rejects, TasksStay, Pending, Holding, Working,
      BaseInv, WorkerInv
<1>3. CloseInv' /\ TaskInv'
  BY <1>1, <1>2, CalmKept
<1>4. HeldInv'
  <2>1. UNCHANGED slotVars \/ ReleaseBut(Path[c], c)
    BY DEF NameOutcome, Dies, Rejects
  <2>2. worker[c] # "none"
    BY DEF NameOutcome, Dies, Rejects
  <2>3. /\ worker'[c] \in Working => worker[c] \in Working /\ UNCHANGED slotVars
        /\ \A d \in Children : d # c => worker'[d] = worker[d]
    BY DEF NameOutcome, Dies, Rejects, Working, BaseInv, WorkerInv
  <2> QED
    BY <2>1, <2>2, <2>3, HeldByWorker
<1> QED
  BY <1>3, <1>4 DEF WorkInv

\* An outcome is delivered.
LEMMA WorkOutcome ==
  ASSUME BaseInv, BaseInv', WorkInv, NEW c \in Children, DeliverOutcome(c)
  PROVE  WorkInv'
<1> USE DEF SpawnFrame, SendFrame, CallFrame, WorkFrame, SessionFrame,
        WaitFrame, DeleteFrame, RestoreFrame, SessionStep, storeVars,
        turnVars, restoreVars, slotVars, workVars, mailVars, closeVars,
        history, To, Goes, Calling, Fails
<1>1. Calm
  BY DEF DeliverOutcome, Dies, Rejects, Woken, Calm, Joined
<1>2. TasksStay
  BY DEF DeliverOutcome, Dies, Rejects, TasksStay, Pending, Holding, Working,
      BaseInv, WorkerInv
<1>3. CloseInv' /\ TaskInv'
  BY <1>1, <1>2, CalmKept
<1>4. HeldInv'
  <2>1. UNCHANGED slotVars \/ ReleaseBut(Path[c], c)
    BY DEF DeliverOutcome, Dies, Rejects
  <2>2. worker[c] # "none"
    BY DEF DeliverOutcome, Dies, Rejects
  <2>3. /\ worker'[c] \in Working => worker[c] \in Working /\ UNCHANGED slotVars
        /\ \A d \in Children : d # c => worker'[d] = worker[d]
    BY DEF DeliverOutcome, Dies, Rejects, Working, BaseInv, WorkerInv
  <2> QED
    BY <2>1, <2>2, <2>3, HeldByWorker
<1> QED
  BY <1>3, <1>4 DEF WorkInv

\* All above learn of an outcome.
LEMMA WorkDelivered ==
  ASSUME BaseInv, BaseInv', WorkInv, NEW c \in Children, OutcomeDelivered(c)
  PROVE  WorkInv'
<1> USE DEF SpawnFrame, SendFrame, CallFrame, WorkFrame, SessionFrame,
        WaitFrame, DeleteFrame, RestoreFrame, SessionStep, storeVars,
        turnVars, restoreVars, slotVars, workVars, mailVars, closeVars,
        history, To, Goes, Calling, Fails
<1>1. Calm
  BY DEF OutcomeDelivered, Woken, Calm, Joined
<1>2. TasksStay
  BY DEF OutcomeDelivered, TasksStay, Pending, Holding, Working, BaseInv,
      WorkerInv
<1>3. CloseInv' /\ TaskInv'
  BY <1>1, <1>2, CalmKept
<1>4. HeldInv'
  BY DEF OutcomeDelivered, WorkInv, HeldInv, Working, BaseInv, WorkerInv
<1> QED
  BY <1>3, <1>4 DEF WorkInv

\* A worker ends.
LEMMA WorkEnds ==
  ASSUME BaseInv, BaseInv', WorkInv, NEW c \in Children, WorkerEnds(c)
  PROVE  WorkInv'
<1> USE DEF SpawnFrame, SendFrame, CallFrame, WorkFrame, SessionFrame,
        WaitFrame, DeleteFrame, RestoreFrame, SessionStep, storeVars,
        turnVars, restoreVars, slotVars, workVars, mailVars, closeVars,
        history, To, Goes, Calling, Fails
<1>1. Calm
  BY DEF WorkerEnds, ReleaseIdle, Woken, Calm, Joined
<1>2. TasksStay
  BY DEF WorkerEnds, ReleaseIdle, TasksStay, Pending, Holding, Working,
      BaseInv, WorkerInv
<1>3. CloseInv' /\ TaskInv'
  BY <1>1, <1>2, CalmKept
<1>4. HeldInv'
  <2>1. UNCHANGED slotVars \/ ReleaseBut(Path[c], Root)
    BY DEF WorkerEnds, ReleaseIdle
  <2>2. worker[c] # "none"
    BY DEF WorkerEnds, ReleaseIdle
  <2>3. /\ worker'[c] \in Working => worker[c] \in Working /\ UNCHANGED slotVars
        /\ \A d \in Children : d # c => worker'[d] = worker[d]
    BY DEF WorkerEnds, ReleaseIdle, Working, BaseInv, WorkerInv
  <2> QED
    BY <2>1, <2>2, <2>3, HeldByWorker
<1> QED
  BY <1>3, <1>4 DEF WorkInv

\* A worker looks for its next task.
LEMMA WorkNext ==
  ASSUME BaseInv, BaseInv', WorkInv, NEW c \in Children, NextTask(c)
  PROVE  WorkInv'
<1> USE DEF SpawnFrame, SendFrame, CallFrame, WorkFrame, SessionFrame,
        WaitFrame, DeleteFrame, RestoreFrame, SessionStep, storeVars,
        turnVars, restoreVars, slotVars, workVars, mailVars, closeVars,
        history, To, Goes, Calling, Fails
<1>1. /\ worker[c] = "reserve" /\ UNCHANGED tasks
      /\ worker'[c] \in Holding => Pending(c)
      /\ \A d \in Children : d # c => worker'[d] = worker[d]
  <2>1. \A q \in Seq(TaskType) : q # <<>> => Head(q) = q[1]
    BY Queues
  <2> QED
    BY <2>1 DEF NextTask, Rejects, Holding, Working, Pending, BaseInv, WorkerInv
<1>2. Calm
  BY DEF NextTask, Rejects, Woken, Calm, Joined
<1>3. TasksStay
  BY <1>1 DEF TasksStay, Pending
<1>4. CloseInv' /\ TaskInv'
  BY <1>2, <1>3, CalmKept
<1>5. HeldInv'
  <2>1. CASE worker'[c] = "none" /\ ReleaseIdle(Path[c])
    BY <1>1, <2>1, HeldByWorker DEF ReleaseIdle, Working
  <2>2. CASE /\ UNCHANGED slotVars \/ (~Refused(Path[c]) /\ Reserve(Path[c]))
             /\ worker'[c] \in Working => slot[Path[c]] = "held"
    <3>1. \A d \in Children : worker'[d] \in Working =>
            worker[d] \in Working \/ slot[Path[d]] = "held"
      BY <1>1, <2>2
    <3> QED
      BY <2>2, <3>1, HeldReserved, Constants DEF WorkInv
  <2>3. \/ worker'[c] = "none" /\ ReleaseIdle(Path[c])
        \/ /\ UNCHANGED slotVars \/ (~Refused(Path[c]) /\ Reserve(Path[c]))
           /\ worker'[c] \in Working => slot[Path[c]] = "held"
    BY DEF NextTask, Rejects, Working, BaseInv, WorkerInv
  <2> QED
    BY <2>1, <2>2, <2>3
<1> QED
  BY <1>4, <1>5 DEF WorkInv

\* A message or a follow-up is sent.
LEMMA WorkSend ==
  ASSUME BaseInv, BaseInv', WorkInv, NEW x \in Calls, Send(x)
  PROVE  WorkInv'
<1> USE DEF SpawnFrame, SendFrame, CallFrame, WorkFrame, SessionFrame,
        WaitFrame, DeleteFrame, RestoreFrame, SessionStep, storeVars,
        turnVars, restoreVars, slotVars, workVars, mailVars, closeVars,
        history, To, Goes, Calling, Fails
<1>1. /\ x.by \in Agents /\ x.to \in Agents /\ op[x] = "unsent"
      /\ \A y \in Calls : y # x => op'[y] = op[y]
      /\ x.type \in {"spawn", "followup", "message"}
  BY Constants DEF Send, BaseInv, CallInv
<1>2. Fenced
  <2>1. ASSUME Enters(x), NEW path \in closing
        PROVE  ~Under(x.by, path) /\ ~Under(x.to, path)
    BY <2>1 DEF Send, Enters, Aside, Ended, Live, Closing, Under, BaseInv, CallInv
  <2> QED
    BY <1>1, <2>1 DEF Fenced, Enters
<1>3. TasksStay /\ UNCHANGED <<closeVars, agents>> /\ Joined
  BY DEF Send, TasksStay, Pending, Holding, Working, Joined
<1>4. CloseInv' /\ TaskInv'
  BY <1>1, <1>2, <1>3, FencedKept
<1>5. HeldInv'
  BY DEF Send, WorkInv, HeldInv, Working
<1> QED
  BY <1>4, <1>5 DEF WorkInv

\* A spawn takes its path and a slot.
LEMMA WorkSpawn ==
  ASSUME BaseInv, BaseInv', WorkInv, NEW x \in Calls, Spawn(x)
  PROVE  WorkInv'
<1> USE DEF SpawnFrame, SendFrame, CallFrame, WorkFrame, SessionFrame,
        WaitFrame, DeleteFrame, RestoreFrame, SessionStep, storeVars,
        turnVars, restoreVars, slotVars, workVars, mailVars, closeVars,
        history, To, Goes, Calling, Fails
<1>1. /\ x.by \in Agents /\ x.to \in Agents /\ op[x] = "unsent"
      /\ \A y \in Calls : y # x => op'[y] = op[y]
      /\ x.type \in {"spawn", "followup", "message"}
  BY Constants DEF Spawn, BaseInv, CallInv
<1>2. Fenced
  <2>1. ASSUME Enters(x), NEW path \in closing
        PROVE  ~Under(x.by, path) /\ ~Under(x.to, path)
    <3>1. Live(x.by) /\ ~Closing(Path[x.to]) /\ x.to \in Children
      BY <2>1, Constants
         DEF Spawn, Enters, Aside, Ended, Refused, BaseInv, CallInv
    <3> QED
      BY <3>1, Constants DEF Live, Closing, Under
  <2> QED
    BY <1>1, <2>1 DEF Fenced, Enters
<1>3. TasksStay /\ UNCHANGED <<closeVars, agents>> /\ Joined
  BY DEF Spawn, TasksStay, Pending, Holding, Working, Joined
<1>4. CloseInv' /\ TaskInv'
  BY <1>1, <1>2, <1>3, FencedKept
<1>5. HeldInv'
  <2>1. \/ UNCHANGED slotVars
        \/ ~Refused(Path[x.to]) /\ Reserve(Path[x.to])
    BY DEF Spawn
  <2>2. Path[x.to] \in Paths /\ UNCHANGED workVars
    BY Constants DEF Spawn
  <2> QED
    BY <2>1, <2>2, HeldReserved DEF WorkInv
<1> QED
  BY <1>4, <1>5 DEF WorkInv

\* A path is closed.
LEMMA WorkDelete ==
  ASSUME DeletionsApart', BaseInv, BaseInv', WorkInv, NEW x \in Calls, Delete(x)
  PROVE  WorkInv'
<1> USE DEF SpawnFrame, SendFrame, CallFrame, WorkFrame, SessionFrame,
        WaitFrame, DeleteFrame, RestoreFrame, SessionStep, storeVars,
        turnVars, restoreVars, slotVars, workVars, mailVars, closeVars,
        history, To, Goes, Calling, Fails
<1>1. /\ op[x] = "unsent" /\ x.type = "delete" /\ x.to \in Children
      /\ \A y \in Calls : y # x => op'[y] = op[y] \/ op[y] = "waiting"
      /\ UNCHANGED <<tasks, worker, slot>> /\ agents \subseteq agents'
      /\ closing \subseteq closing'
      /\ UNCHANGED listed
      /\ \/ op'[x] = "failed" /\ UNCHANGED agents
         \/ /\ op'[x] = "messages" /\ agents' = agents \cup {x.to}
            /\ Path[x.to] \in closing'
  <2>1. op[x] = "unsent" /\ x.type = "delete" /\ x.to \in Children
    BY CallsAssumption DEF Delete, Agents
  <2>2. CASE x.to \in exists /\ Taken(x.to)
    BY <2>1, <2>2 DEF Delete, BaseInv, CallInv
  <2>3. CASE x.to \in exists /\ ~Taken(x.to)
    BY <2>1, <2>3 DEF Delete, Woken, BaseInv, CallInv
  <2>4. CASE x.to \notin exists
    <3>1. op'[x] = "sweeping"
      BY <2>4 DEF Delete, BaseInv, CallInv
    <3> QED
      BY <3>1 DEF DeletionsApart
  <2> QED
    BY <2>2, <2>3, <2>4
<1>2. \A y \in Calls : op[y] = "waiting" => y.type = "wait"
  BY DEF BaseInv, CallInv, Fits
<1>3. Fenced
  BY <1>1, <1>2 DEF Fenced, Enters
<1>4. DeleteInv(x)'
  BY <1>1 DEF DeleteInv, DeletePhases
<1>5. CloseInv'
  <2>1. ASSUME NEW y \in Calls, y # x, op'[y] \in DeletePhases
        PROVE  op'[y] = op[y]
    BY <1>1, <1>2, <2>1 DEF BaseInv, CallInv, Fits
  <2>2. Joined
    <3>1. ASSUME NEW y \in Calls, op'[y] \in {"runs", "removing"},
                 op'[x] = "messages"
          PROVE  ~Under(x.to, Path[y.to])
      BY <3>1 DEF DeletionsApart, DeletePhases, Under
    <3> QED
      BY <1>1, <3>1 DEF Joined
  <2> QED
    BY <1>1, <1>3, <1>4, <2>1, <2>2, CloseKept DEF WorkInv
<1>6. TaskInv'
  <2>1. \A y \in Calls : y.type = "delete" /\ op[y] \in {"runs", "failed"} =>
          op'[y] = op[y]
    BY <1>1, <1>2
  <2>2. TasksStay
    BY <1>1 DEF TasksStay, Pending
  <2> QED
    BY <1>1, <1>3, <2>1, <2>2, TaskKept DEF WorkInv, TasksStay
<1>7. HeldInv'
  BY <1>1 DEF WorkInv, HeldInv
<1> QED
  BY <1>5, <1>6, <1>7 DEF WorkInv

\* What is in flight under a path has settled.
LEMMA WorkMessages ==
  ASSUME BaseInv, BaseInv', WorkInv, NEW x \in Calls, MessagesSettle(x)
  PROVE  WorkInv'
<1> USE DEF SpawnFrame, SendFrame, CallFrame, WorkFrame, SessionFrame,
        WaitFrame, DeleteFrame, RestoreFrame, SessionStep, storeVars,
        turnVars, restoreVars, slotVars, workVars, mailVars, closeVars,
        history, To, Goes, Calling, Fails
<1>1. /\ x.type = "delete" /\ x.to \in Children
      /\ op[x] = "messages" /\ op'[x] \in {"spawns"}
      /\ \A y \in Calls : y # x => op'[y] = op[y] \/ op[y] = "waiting"
      /\ UNCHANGED <<worker, closing>> /\ Joined
  BY Constants DEF MessagesSettle, Woken, Joined, BaseInv, CallInv, Fits, Aside, Ended, CallPhases, SpawnPhases, SendPhases, DeletePhases
<1>2. \A y \in Calls : op[y] = "waiting" => y.type = "wait"
  BY DEF BaseInv, CallInv, Fits
<1>3. Fenced
  BY <1>1, <1>2 DEF Fenced, Enters
<1>4. \A y \in Calls : y # x =>
        /\ op'[y] \in DeletePhases => op'[y] = op[y]
        /\ y.type = "delete" => op'[y] = op[y]
  BY <1>1, <1>2 DEF BaseInv, CallInv, Fits
<1>5. DeleteInv(x)'
  <2>1. Path[x.to] \in closing
    BY <1>1 DEF WorkInv, CloseInv, DeleteInv, DeletePhases
  <2>2. Sending(Path[x.to])' = {}
    BY <1>3, <2>1, SendingKept DEF MessagesSettle
  <2>3. x.to \in agents'
    BY <1>1 DEF MessagesSettle, WorkInv, CloseInv, DeleteInv
  <2> QED
    BY <1>1, <2>1, <2>2, <2>3 DEF DeleteInv
<1>6. CloseInv'
  BY <1>1, <1>3, <1>4, <1>5, CloseKept DEF MessagesSettle, WorkInv
<1>7. TasksStay
  BY <1>1 DEF MessagesSettle, TasksStay, Pending
<1>8. TaskInv'
  BY <1>1, <1>3, <1>4, <1>7, TaskKept DEF WorkInv, TasksStay
<1>9. HeldInv'
  BY <1>1 DEF MessagesSettle, WorkInv, HeldInv
<1> QED
  BY <1>6, <1>8, <1>9 DEF WorkInv

\* The spawns under a path have settled; the tasks are dropped.
LEMMA WorkSpawns ==
  ASSUME BaseInv, BaseInv', WorkInv, NEW x \in Calls, SpawnsSettle(x)
  PROVE  WorkInv'
<1> USE DEF SpawnFrame, SendFrame, CallFrame, WorkFrame, SessionFrame,
        WaitFrame, DeleteFrame, RestoreFrame, SessionStep, storeVars,
        turnVars, restoreVars, slotVars, workVars, mailVars, closeVars,
        history, To, Goes, Calling, Fails
<1>1. /\ x.type = "delete" /\ x.to \in Children
      /\ op[x] = "spawns" /\ op'[x] \in {"runs", "failed"}
      /\ \A y \in Calls : y # x => op'[y] = op[y] \/ op[y] = "waiting"
      /\ UNCHANGED <<worker, closing>> /\ Joined
  BY Constants DEF SpawnsSettle, Woken, Joined, BaseInv, CallInv, Fits, Aside, Ended, CallPhases, SpawnPhases, SendPhases, DeletePhases
<1>2. \A y \in Calls : op[y] = "waiting" => y.type = "wait"
  BY DEF BaseInv, CallInv, Fits
<1>3. Fenced
  BY <1>1, <1>2 DEF Fenced, Enters
<1>4. \A y \in Calls : y # x =>
        /\ op'[y] \in DeletePhases => op'[y] = op[y]
        /\ y.type = "delete" => op'[y] = op[y]
  BY <1>1, <1>2 DEF BaseInv, CallInv, Fits
<1>5. Quiet(Path[x.to])
  BY <1>1 DEF SpawnsSettle, WorkInv, CloseInv, DeleteInv, DeletePhases, Quiet, Spawner
<1>6. Quiet(Path[x.to])'
  BY <1>1, <1>3, <1>5, QuietKept DEF Quiet
<1>7. CloseInv'
  <2>1. x.to \in agents'
    BY <1>1 DEF SpawnsSettle, WorkInv, CloseInv, DeleteInv
  <2>2. op'[x] = "runs" => Subtree(x)' \subseteq listed'[x]
    <3>1. op'[x] = "runs" => listed' = [listed EXCEPT ![x] = Subtree(x)]
      BY <1>1 DEF SpawnsSettle, BaseInv, CallInv
    <3>2. UNCHANGED agents
      BY DEF SpawnsSettle
    <3> QED
      BY <3>1, <3>2 DEF Subtree, Under, BaseInv, MailInv
  <2>3. DeleteInv(x)'
    BY <1>1, <1>6, <2>1, <2>2 DEF DeleteInv, Quiet
  <2>4. \A y \in Calls : y # x => listed'[y] = listed[y]
    BY DEF SpawnsSettle, BaseInv, MailInv
  <2> QED
    BY <1>1, <1>3, <1>4, <2>3, <2>4, CloseKept DEF SpawnsSettle, WorkInv
<1>8. ASSUME NEW c \in Children, worker'[c] \in Holding
      PROVE  Pending(c)' \/ Cut(c)' \/ (worker[c] \in Holding /\ ~Pending(c))
  <2>1. CASE c \in Subtree(x)
    <3>1. Under(c, Path[x.to])
      BY <1>1, <2>1, Constants DEF Subtree, Under, IsPrefix
    <3> QED
      BY <1>1, <1>6, <3>1 DEF Cut, Under
  <2>2. CASE c \notin Subtree(x)
    BY <1>1, <1>8, <2>2 DEF SpawnsSettle, Pending
  <2> QED
    BY <2>1, <2>2
<1>9. TaskInv'
  BY <1>1, <1>3, <1>4, <1>8, TaskKept DEF WorkInv
<1>10. HeldInv'
  BY <1>1 DEF SpawnsSettle, WorkInv, HeldInv
<1> QED
  BY <1>7, <1>9, <1>10 DEF WorkInv

\* A subtree leaves the registry.
LEMMA WorkUnregister ==
  ASSUME DeletionsApart, BaseInv, BaseInv', WorkInv, NEW x \in Calls, Unregister(x)
  PROVE  WorkInv'
<1> USE DEF SpawnFrame, SendFrame, CallFrame, WorkFrame, SessionFrame,
        WaitFrame, DeleteFrame, RestoreFrame, SessionStep, storeVars,
        turnVars, restoreVars, slotVars, workVars, mailVars, closeVars,
        history, To, Goes, Calling, Fails
<1>1. /\ x.type = "delete" /\ x.to \in Children
      /\ op[x] = "runs" /\ op'[x] \in {"removing"}
      /\ \A y \in Calls : y # x => op'[y] = op[y] \/ op[y] = "waiting"
      /\ UNCHANGED <<worker, closing>> /\ Joined
      /\ Subtree(x) \subseteq listed[x]
  <2>1. op[x] = "runs" /\ UNCHANGED <<worker, closing>>
    BY DEF Unregister
  <2>2. x.type = "delete" /\ x.to \in Children
    BY <2>1, Constants DEF BaseInv, CallInv, Fits, DeletePhases
  <2>3. Subtree(x) \subseteq listed[x]
    BY <2>1 DEF WorkInv, CloseInv, DeleteInv
  <2>4. /\ op' = Woken([op EXCEPT ![x] = "removing"], Subtree(x))
        /\ agents' = agents \ Subtree(x)
    BY <2>3, AllUnregistered
  <2>5. /\ op'[x] \in {"removing"}
        /\ \A y \in Calls : y # x => op'[y] = op[y] \/ op[y] = "waiting"
    BY <2>4 DEF Woken, BaseInv, CallInv
  <2> QED
    BY <2>1, <2>2, <2>3, <2>4, <2>5 DEF Joined
<1>2. \A y \in Calls : op[y] = "waiting" => y.type = "wait"
  BY DEF BaseInv, CallInv, Fits
<1>3. Fenced
  BY <1>1, <1>2 DEF Fenced, Enters
<1>4. \A y \in Calls : y # x =>
        /\ op'[y] \in DeletePhases => op'[y] = op[y]
        /\ y.type = "delete" => op'[y] = op[y]
  BY <1>1, <1>2 DEF BaseInv, CallInv, Fits
<1>5. /\ \A c \in Subtree(x) : worker[c] = "none"
      /\ tasks' = [c \in Children |->
                     IF c \in Subtree(x) THEN <<>> ELSE tasks[c]]
      /\ slot' = [p \in Paths |->
                    IF /\ p \in {Path[c] : c \in Subtree(x)}
                       /\ Spawning(p)' = {} /\ PendingFollowups(p)' = {}
                    THEN "none" ELSE slot[p]]
  <2>1. \A c \in Subtree(x) : worker[c] = "none"
    BY DEF Unregister
  <2> QED
    BY <1>1, <2>1, AllUnregistered
<1>6. \A c \in agents \ {Root} : Under(c, Path[x.to]) <=> c \in Subtree(x)
  <2>1. x.to \in agents \ {Root}
    BY <1>1, Constants DEF WorkInv, CloseInv, DeleteInv
  <2>2. \A c \in agents \ {Root} : c \in Children /\ PathOf(c) = Path[c]
    BY Constants DEF BaseInv, WorkerInv
  <2>3. \A c \in agents \ {Root} : Path[c] = Path[x.to] => c = x.to
    BY <2>1 DEF BaseInv, PlaceInv
  <2> QED
    BY <2>1, <2>2, <2>3 DEF Subtree, Under, IsPrefix
<1>7. CloseInv'
  <2>1. Quiet(Path[x.to])
    BY <1>1 DEF WorkInv, CloseInv, DeleteInv
  <2>2. Quiet(Path[x.to])'
    BY <1>1, <1>3, <2>1, QuietKept DEF Quiet
  <2>3. /\ agents' = agents \ Subtree(x)
        /\ \A y \in Calls : y # x => listed'[y] = listed[y]
    BY <1>1, AllUnregistered DEF Unregister, BaseInv, MailInv
  <2>4. DeleteInv(x)'
    BY <1>1, <1>6, <2>2, <2>3 DEF DeleteInv, Quiet, Under
  <2>5. ASSUME NEW y \in Calls, y # x, op'[y] \in DeletePhases,
               y.to \in agents
        PROVE  y.to \in agents'
    <3>1. y.to \in Children /\ op[y] \in DeletePhases
      BY <1>4, <2>5, Constants DEF BaseInv, CallInv, Fits
    <3>2. ~Under(y.to, Path[x.to])
      BY <1>1, <2>5, <3>1 DEF DeletionsApart, DeletePhases
    <3> QED
      BY <1>6, <2>3, <2>5, <3>1, <3>2, Constants
  <2> QED
    BY <1>1, <1>3, <1>4, <2>3, <2>4, <2>5, CloseKept DEF WorkInv
<1>8. TaskInv'
  <2>1. \A c \in Children : worker'[c] \in Holding =>
          c \notin Subtree(x) /\ worker'[c] = worker[c] /\ tasks'[c] = tasks[c]
    BY <1>1, <1>5 DEF Holding, Working
  <2>2. TasksStay
    BY <2>1 DEF TasksStay, Pending
  <2>3. \A y \in Calls, c \in Children :
          /\ y.type = "delete" /\ op[y] \in {"runs", "failed"}
          /\ worker'[c] \in Holding /\ Under(c, Path[y.to])
          => op'[y] = op[y]
    BY <1>1, <1>4, <2>1, <1>6, Constants DEF Holding, Working, BaseInv, PlaceInv
  <2> QED
    BY <1>1, <1>3, <2>2, <2>3, TaskKept DEF WorkInv, TasksStay
<1>9. HeldInv'
  <2> SUFFICES ASSUME NEW c \in Children, worker[c] \in Working
               PROVE  slot'[Path[c]] = "held"
    BY <1>1 DEF HeldInv
  <2>1. slot[Path[c]] = "held"
    BY DEF WorkInv, HeldInv
  <2>2. ASSUME NEW d \in Subtree(x), Path[d] = Path[c] PROVE FALSE
    <3>1. d # Root
      BY <1>1, RootAbove, Constants DEF Subtree, Under
    <3>2. c \in agents /\ d \in agents /\ c # Root
      BY Constants DEF BaseInv, PlaceInv, Working, Subtree
    <3>3. c = d
      BY <2>2, <3>1, <3>2 DEF BaseInv, PlaceInv
    <3> QED
      BY <1>5, <3>3 DEF Working
  <2> QED
    BY <1>5, <2>1, <2>2, Constants
<1> QED
  BY <1>7, <1>8, <1>9 DEF WorkInv

\* A thread of a subtree is removed.
LEMMA WorkRemove ==
  ASSUME DeletionsApart, BaseInv, BaseInv', WorkInv, NEW x \in Calls, RemoveNext(x)
  PROVE  WorkInv'
<1> USE DEF SpawnFrame, SendFrame, CallFrame, WorkFrame, SessionFrame,
        WaitFrame, DeleteFrame, RestoreFrame, SessionStep, storeVars,
        turnVars, restoreVars, slotVars, workVars, mailVars, closeVars,
        history, To, Goes, Calling, Fails
<1>1. /\ x.type = "delete" /\ x.to \in Children /\ op[x] = "removing"
      /\ op'[x] \in {"removing", "done", "failed"}
      /\ \A y \in Calls : y # x => op'[y] = op[y]
      /\ UNCHANGED <<tasks, worker, slot, listed>>
  <2>1. op[x] = "removing"
    BY DEF RemoveNext, DeletionsApart
  <2>2. x.type = "delete" /\ x.to \in Children
    BY <2>1, Constants DEF BaseInv, CallInv, Fits, DeletePhases
  <2>3. /\ \E at \in {"removing", "done", "failed"} :
             op' = [op EXCEPT ![x] = at]
        /\ UNCHANGED <<tasks, worker, slot, listed>>
    BY <2>1 DEF RemoveNext, RemoveRollout, RemoveEdges, BaseInv, CallInv
  <2> QED
    BY <2>1, <2>2, <2>3 DEF BaseInv, CallInv
<1>2. Fenced
  BY <1>1 DEF Fenced, Enters
<1>3. \/ closing' = closing
      \/ \E d \in Children :
           /\ closing' = closing \ {Path[d]}
           /\ d = x.to => op'[x] = "done"
           /\ d # x.to => x.to \in Above[d]
  <2>1. CASE UNCHANGED closeVars
    BY <2>1
  <2>2. ASSUME NEW d \in NextRemoved(x.to), RemoveEdges(d),
               To(x, IF d = x.to THEN "done" ELSE op[x])
        PROVE  \/ closing' = closing
               \/ /\ closing' = closing \ {Path[d]} /\ d \in Children
                  /\ d = x.to => op'[x] = "done"
                  /\ d # x.to => x.to \in Above[d]
    BY <1>1, <2>2, NextRemovedFacts DEF RemoveEdges, BaseInv, CallInv
  <2> QED
    BY <2>1, <2>2 DEF RemoveNext, RemoveRollout
<1>4. \/ closing' = closing
      \/ \E d \in Children :
           /\ closing' = closing \ {Path[d]}
           /\ IsPrefix(Path[x.to], Path[d])
           /\ Path[x.to] = Path[d] => op'[x] = "done"
  <2>1. \A d \in Children : Len(Path[d]) \in Nat
    BY PathsAreNames
  <2>2. \A d \in Children :
          x.to \in Above[d] =>
            IsPrefix(Path[x.to], Path[d]) /\ Path[x.to] # Path[d]
    BY <1>1, <2>1, AbovePaths, Constants
  <2>3. IsPrefix(Path[x.to], Path[x.to])
    BY <1>1, <2>1 DEF IsPrefix
  <2> QED
    BY <1>1, <1>3, <2>2, <2>3
<1>5. CloseInv'
  <2>1. ASSUME NEW y \in Calls, op'[y] \in DeletePhases, Path[y.to] \in closing
        PROVE  op'[y] = op[y] /\ Path[y.to] \in closing'
    <3>1. CASE y = x
      BY <1>1, <1>4, <2>1, <3>1 DEF DeletePhases
    <3>2. CASE y # x
      <4>1. y.to \in Children /\ op[y] \in DeletePhases /\ op'[y] = op[y]
        BY <1>1, <2>1, <3>2, Constants DEF BaseInv, CallInv, Fits
      <4>2. ~IsPrefix(Path[x.to], Path[y.to])
        BY <1>1, <3>2, <4>1, Constants DEF DeletionsApart, DeletePhases, Under
      <4> QED
        BY <1>4, <2>1, <4>1, <4>2
    <3> QED
      BY <3>1, <3>2
  <2>2. UNCHANGED agents /\ Joined
    BY DEF RemoveNext, Joined
  <2>3. \A y \in Calls : op'[y] \in DeletePhases => op'[y] = op[y]
    BY <1>1 DEF DeletePhases
  <2> QED
    BY <1>1, <1>2, <2>1, <2>2, <2>3, CloseKept DEF WorkInv
<1>6. TasksStay
  BY <1>1 DEF TasksStay, Pending
<1>7. TaskInv'
  <2>1. ASSUME NEW y \in Calls, NEW c \in Children, y.type = "delete",
               Path[y.to] \in closing, worker'[c] \in Holding,
               Under(c, Path[y.to])
        PROVE  Path[y.to] \in closing'
    <3>1. c \in agents /\ c # Root /\ PathOf(c) = Path[c] /\ y.to \in Children
      BY <1>1, <2>1, Constants DEF BaseInv, PlaceInv, Holding, Working
    <3>2. ~IsPrefix(Path[x.to], Path[c])
      BY <1>1, <3>1 DEF WorkInv, CloseInv, DeleteInv, Under
    <3>3. IsPrefix(Path[y.to], Path[c])
      BY <2>1, <3>1 DEF Under
    <3>4. ~IsPrefix(Path[x.to], Path[y.to])
      BY <1>1, <3>1, <3>2, <3>3, PrefixTransitive
    <3> QED
      BY <1>4, <2>1, <3>4
  <2>2. \A y \in Calls :
          y.type = "delete" /\ op[y] \in {"runs", "failed"} => op'[y] = op[y]
    BY <1>1
  <2> QED
    BY <1>2, <1>6, <2>1, <2>2, TaskKept DEF WorkInv, TasksStay
<1>8. HeldInv'
  BY <1>1 DEF WorkInv, HeldInv
<1> QED
  BY <1>5, <1>7, <1>8 DEF WorkInv

\* A reservation is answered.
LEMMA WorkDecide ==
  ASSUME BaseInv, BaseInv', WorkInv, NEW p \in Paths, Decide(p)
  PROVE  WorkInv'
<1> USE DEF SpawnFrame, SendFrame, CallFrame, WorkFrame, SessionFrame,
        WaitFrame, DeleteFrame, RestoreFrame, SessionStep, storeVars,
        turnVars, restoreVars, slotVars, workVars, mailVars, closeVars,
        history, To, Goes, Calling, Fails
<1>1. Calm
  <2>1. PICK admitted : Answer(p, admitted)
    BY DEF Decide
  <2>2. \A y \in Calls :
          \/ op'[y] = op[y]
          \/ op[y] = "waiting"
          \/ op[y] = "reserving"
    BY <2>1 DEF Answer, Woken
  <2>3. \A y \in Calls :
          op[y] = "reserving" => y.type # "delete" /\ op[y] \notin Aside
    BY DEF BaseInv, CallInv, Fits, Aside, Ended
  <2>4. UNCHANGED closeVars
    BY DEF Decide
  <2> QED
    BY <2>2, <2>3, <2>4 DEF Decide, Calm, Joined
<1>2. TasksStay
  BY DEF Decide, Answer, TasksStay, Pending, Holding, Working, BaseInv,
      WorkerInv
<1>3. CloseInv' /\ TaskInv'
  BY <1>1, <1>2, CalmKept
<1>4. HeldInv'
  <2>1. PICK admitted : Answer(p, admitted)
    BY DEF Decide
  <2>2. slot[p] = "deciding"
    BY DEF Decide
  <2>3. ASSUME NEW c \in Children, worker'[c] \in Working
        PROVE  \/ worker[c] \in Working /\ Path[c] # p
               \/ admitted /\ Path[c] = p
    <3>1. worker[c] \in Working => Path[c] # p
      BY <2>2 DEF WorkInv, HeldInv
    <3> QED
      BY <2>1, <2>3, <3>1 DEF Answer, Working
  <2>4. slot' = [slot EXCEPT ![p] = IF admitted THEN "held" ELSE "none"]
    BY <2>1 DEF Answer
  <2> QED
    BY <2>3, <2>4, Constants DEF WorkInv, HeldInv, BaseInv, SlotInv
<1> QED
  BY <1>3, <1>4 DEF WorkInv

\* The tree is restored.
LEMMA WorkRestore ==
  ASSUME BaseInv, BaseInv', WorkInv, RestoreStep
  PROVE  WorkInv'
<1> USE DEF SpawnFrame, SendFrame, CallFrame, WorkFrame, SessionFrame,
        WaitFrame, DeleteFrame, RestoreFrame, SessionStep, storeVars,
        turnVars, restoreVars, slotVars, workVars, mailVars, closeVars,
        history, To, Goes, Calling, Fails
<1>1. /\ ready # "yes" /\ UNCHANGED op
      /\ \A c \in Children : worker'[c] \in {worker[c], "reserve"}
  BY StartedFacts DEF RestoreStep, Restore, Reconcile, ReadChild,
         RegisterFound, RestoreFails, RemoveRollout, RemoveEdges, BaseInv
<1>2. /\ \A y \in Calls : op'[y] \notin DeletePhases
      /\ \A c \in Children : worker'[c] \notin Holding
  BY <1>1 DEF BaseInv, ReadyInv, Running, Ended, DeletePhases, Holding, Working
<1>3. \A y \in Calls : DeleteInv(y)'
  BY <1>2 DEF DeleteInv, DeletePhases
<1> QED
  BY <1>1, <1>2, <1>3 DEF WorkInv, HeldInv, TaskInv, CloseInv, Holding

\* The process dies.
LEMMA WorkCrash ==
  ASSUME BaseInv, BaseInv', WorkInv, Crash
  PROVE  WorkInv'
<1> USE DEF SpawnFrame, SendFrame, CallFrame, WorkFrame, SessionFrame,
        WaitFrame, DeleteFrame, RestoreFrame, SessionStep, storeVars,
        turnVars, restoreVars, slotVars, workVars, mailVars, closeVars,
        history, To, Goes, Calling, Fails
<1>1. /\ \A y \in Calls : op'[y] \in {"unsent", "past", "failed"}
      /\ \A c \in Children : worker'[c] = "none"
  BY DEF Crash
<1>2. \A y \in Calls : DeleteInv(y)'
  BY <1>1 DEF DeleteInv, DeletePhases
<1> QED
  BY <1>1, <1>2 DEF WorkInv, HeldInv, TaskInv, CloseInv, Working

LEMMA WorkInit == Init => WorkInv
BY DEF Init, WorkInv, HeldInv, TaskInv, CloseInv, DeleteInv, DeletePhases,
       Working

LEMMA WorkNextKeeps ==
  ASSUME DeletionsApart, DeletionsApart', BaseInv, BaseInv', WorkInv,
         [Next]_vars
  PROVE  WorkInv'
<1>1. ASSUME NEW x \in Calls, Begin(x) PROVE WorkInv'
  BY <1>1, WorkSpawn, WorkSend, WorkWait, WorkDelete, WorkDirect DEF Begin
<1>2. ASSUME NEW x \in Calls, CallStep(x) PROVE WorkInv'
  BY <1>2, WorkCreate, WorkLink, WorkDiscard, WorkRegister, WorkRollback,
     WorkJoin, WorkLoad, WorkDeliver, WorkSteer, WorkFollowup, WorkWaitEnds,
     WorkMessages, WorkSpawns, WorkUnregister, WorkRemove DEF CallStep
<1>3. ASSUME NEW p \in Paths, Decide(p) PROVE WorkInv'
  BY <1>3, WorkDecide
<1>4. ASSUME NEW c \in Children, WorkerStep(c) PROVE WorkInv'
  BY <1>4, WorkNext, WorkCheck, WorkLaunch, WorkFail, WorkSettle, WorkName,
     WorkOutcome, WorkDelivered, WorkEnds DEF WorkerStep
<1>5. ASSUME NEW c \in Children, TurnStep(c) PROVE WorkInv'
  BY <1>5, WorkTurn
<1>6. ASSUME RestoreStep \/ Retry \/ Crash PROVE WorkInv'
  BY <1>6, WorkRestore, WorkRetry, WorkCrash
<1>7. ASSUME UNCHANGED vars PROVE WorkInv'
  BY <1>7
     DEF vars, storeVars, turnVars, restoreVars, slotVars, workVars, mailVars,
         closeVars, history, WorkInv, HeldInv, TaskInv, CloseInv, DeleteInv,
         Pending, Cut, Quiet, Sending, Spawner, Running, Subtree, Under
<1> QED
  BY <1>1, <1>2, <1>3, <1>4, <1>5, <1>6, <1>7 DEF Next

\* Children at work have slots of their own, of which there are Limit.
LEMMA LimitKept == BaseInv /\ WorkInv => ExecutionLimit
<1> SUFFICES ASSUME BaseInv, WorkInv PROVE ExecutionLimit
  OBVIOUS
<1> DEFINE executing == {c \in Children : worker[c] \in {"launching", "running"}}
           f == [c \in executing |-> Path[c]]
<1>1. f \in Injection(executing, Reserved)
  <2>1. \A c \in executing : Path[c] \in Reserved
    BY Constants DEF WorkInv, HeldInv, Working, Reserved
  <2>2. \A c, d \in executing : Path[c] = Path[d] => c = d
    BY OneWorker
  <2> QED
    BY <2>1, <2>2 DEF Injection, IsInjective
<1>2. IsFiniteSet(Reserved)
  BY PathsFinite, FS_Subset DEF Reserved
<1>3. IsFiniteSet(executing) /\ Cardinality(executing) <= Cardinality(Reserved)
  BY <1>1, <1>2, FS_Injection
<1>4. Cardinality(executing) \in Nat /\ Cardinality(Reserved) \in Nat
  BY <1>2, <1>3, FS_CardinalityType
<1>5. Cardinality(Reserved) <= Limit /\ Limit \in Nat
  BY BoundsAssumption DEF BaseInv, SlotInv
<1> QED
  BY <1>3, <1>4, <1>5 DEF ExecutionLimit

\* No more children execute than maxConcurrentAgents allows
\* (reserveExecutionSlot, agent-control.ts), whatever spawns, follow-ups,
\* retries, failures, deletions and restores meet: a slot is given back only
\* when nobody is left who would work on it.
THEOREM ExecutionLimitHolds == Spec /\ []DeletionsApart => []ExecutionLimit
<1>1. Init => WorkInv
  BY WorkInit
<1>2. /\ DeletionsApart /\ DeletionsApart' /\ BaseInv /\ BaseInv'
      /\ WorkInv /\ [Next]_vars
      => WorkInv'
  BY WorkNextKeeps
<1>3. BaseInv /\ WorkInv => ExecutionLimit
  BY LimitKept
<1> QED
  BY <1>1, <1>2, <1>3, BaseInvariant, PTL DEF Spec

-----------------------------------------------------------------------------
(* Which outcomes are announced.  An outcome is named by the place of a    *)
(* record in the child's rollout.  The records up to it stay, so it is     *)
(* enough that no name is the place of a task's start that has an end.     *)

\* Every spawn makes a thread of its own.
OwnThreads ==
  \A x, y \in Calls :
    x.type = "spawn" /\ y.type = "spawn" /\ x.to = y.to => x = y
\* A child of which there is nothing, and one that was spawned.
Unborn(c) ==
  /\ c \notin exists \cup edges \cup agents
  /\ life[c] = <<>> /\ turn[c] = "none" /\ tasks[c] = <<>> /\ found[c] = 0
  /\ \A n \in notes : n.from # c
Early(x) == op[x] \in {"unsent", "reserving", "creating"}
Spawned(c) == \E x \in Calls : x.type = "spawn" /\ x.to = c /\ ~Early(x)
FreshInv == \A c \in Children : Unborn(c) \/ Spawned(c)

\* A Turn that is open has a start, and an end comes next to its start.
Recorded(c) ==
  /\ turn[c] # "none" => life[c] # <<>> /\ life[c][Len(life[c])] \in Starts
  /\ \A i \in 1 .. Len(life[c]) :
       life[c][i] = "ended" => i > 1 /\ life[c][i - 1] \in Starts
\* The record is not a start of a task that has an end or may still get one.
Named(c, n) ==
  /\ n \in 0 .. Len(life[c])
  /\ n > 0 /\ life[c][n] = "started" =>
       IF n = Len(life[c]) THEN turn[c] = "none" ELSE life[c][n + 1] # "ended"
Notes(queue) == {queue[i].note : i \in 1 .. Len(queue)}
RecordInv ==
  \A c \in exists :
    /\ Recorded(c) /\ Named(c, found[c])
    /\ \A n \in Notes(tasks[c]) : Named(c, n)
NoteInv ==
  \A n \in notes : n.from \in exists => Named(n.from, n.at)

\* A worker past the check of its task has it, unless its path is closed.
Executes ==
  {"launching", "running", "failing", "ended", "naming", "delivering"}
HeadInv ==
  \A c \in Children :
    worker[c] \in Executes => tasks[c] # <<>> \/ Closing(Path[c])

NamesInv == FreshInv /\ RecordInv /\ NoteInv /\ HeadInv

\* Until the tree is restored no Turn runs but those that nobody in it asked for.
PromptInv ==
  ready # "yes" => \A c \in Children :
    turn[c] # "none" =>
      life[c] # <<>> /\ life[c][Len(life[c])] = "prompted"

LEMMA PromptKept ==
  ASSUME BaseInv, PromptInv, [Next]_vars
  PROVE  PromptInv'
<1> USE DEF SpawnFrame, SendFrame, CallFrame, WorkFrame, SessionFrame,
        WaitFrame, DeleteFrame, RestoreFrame, SessionStep, storeVars,
        turnVars, restoreVars, slotVars, workVars, mailVars, closeVars,
        history, To, Goes, Calling, Fails
<1> SUFFICES ASSUME ready' # "yes", NEW c \in Children, turn'[c] # "none"
             PROVE  life'[c] # <<>> /\ life'[c][Len(life'[c])] = "prompted"
  BY DEF PromptInv
<1>1. CASE turn'[c] # "none" /\ life'[c] = life[c] /\ turn[c] # "none"
           /\ ready # "yes"
  BY <1>1 DEF PromptInv
<1>2. ASSUME NEW x \in Calls, Begin(x), ready # "yes"
      PROVE  \/ turn'[c] = turn[c] /\ life'[c] = life[c]
             \/ life'[c] = Append(life[c], "prompted")
  BY <1>2 DEF Begin, Spawn, Send, Wait, Delete, DirectTurn, BaseInv, StoreInv
<1>3. ASSUME NEW x \in Calls, Running(x), ready # "yes" PROVE FALSE
  BY <1>3 DEF BaseInv, ReadyInv
<1>4. ASSUME NEW x \in Calls, CallStep(x) PROVE Running(x) /\ ready' = ready
  BY <1>4 DEF CallStep, CreateThread, LinkThread, DiscardChild, RegisterChild,
     RollbackChild, JoinEnds, LoadRecipient, DeliverMessage, SteerChild,
     StartFollowup, WaitEnds, MessagesSettle, SpawnsSettle, Unregister,
     RemoveNext, Running, Ended
<1>5. ASSUME NEW d \in Children, WorkerStep(d)
      PROVE  worker[d] # "none" /\ ready' = ready
  BY <1>5 DEF WorkerStep, NextTask, CheckTask, LaunchTask, FailTask, SettleTask,
     NameOutcome, DeliverOutcome, OutcomeDelivered, WorkerEnds
<1>6. ASSUME NEW d \in Children, TurnStep(d)
      PROVE  /\ ready' = ready
             /\ life'[c] = life[c] /\ turn[c] # "none"
  BY <1>6 DEF TurnStep, TurnTakes, TurnStops, TurnEnds, BaseInv, StoreInv
<1>7. ASSUME RestoreStep
      PROVE  life'[c] = life[c] /\ turn[c] # "none" /\ ready # "yes"
  <2>1. CASE Restore \/ Reconcile \/ RegisterFound \/ RestoreFails
    BY <2>1 DEF Restore, Reconcile, RegisterFound, RestoreFails
  <2>2. CASE ReadChild
    <3>1. ready # "yes" /\ \A d \in Children : life[d] = <<>> => turn[d] = "none"
      BY <2>2 DEF ReadChild, PromptInv
    <3>2. \/ UNCHANGED <<life, turn>>
          \/ \E d \in Children :
               \/ turn' = [turn EXCEPT ![d] = "none"]
                  /\ life' = [life EXCEPT ![d] = <<>>]
               \/ /\ life[d] = <<>> /\ UNCHANGED turn
                  /\ life' = [life EXCEPT ![d] = <<"failed">>]
      <4>1. PICK d \in Shallowest(Unread) :
              \/ /\ d \notin exists
                 /\ \E e \in NextRemoved(d) :
                      IF e \in exists THEN RemoveRollout(e) ELSE RemoveEdges(e)
              \/ /\ life[d] = <<>> /\ UNCHANGED turn
                 /\ life' = [life EXCEPT ![d] = <<"failed">>]
              \/ UNCHANGED <<life, turn>>
        BY <2>2 DEF ReadChild
      <4>2. d \in Children /\ NextRemoved(d) \subseteq Children
        BY NextRemovedFacts DEF Shallowest, Unread, BaseInv, StoreInv
      <4> QED
        BY <4>1, <4>2 DEF RemoveRollout, RemoveEdges
    <3> QED
      BY <3>1, <3>2 DEF BaseInv, StoreInv
  <2> QED
    BY <1>7, <2>1, <2>2 DEF RestoreStep
<1>8. ASSUME (\E p \in Paths : Decide(p)) \/ Retry \/ UNCHANGED vars
      PROVE  life'[c] = life[c] /\ turn[c] # "none" /\ ready # "yes"
  BY <1>8 DEF Decide, Retry, vars
<1>9. ~Crash
  BY DEF Crash
<1>10. ASSUME ready # "yes", life'[c] = Append(life[c], "prompted")
       PROVE  life'[c] # <<>> /\ life'[c][Len(life'[c])] = "prompted"
  <2>1. life[c] \in Seq({"started", "prompted", "ended", "failed"})
    BY DEF BaseInv, StoreInv
  <2>2. /\ Len(life'[c]) = Len(life[c]) + 1 /\ life'[c] # <<>>
        /\ life'[c][Len(life[c]) + 1] = "prompted"
    BY <1>10, <2>1, AppendProperties
  <2> QED
    BY <2>2
<1>11. ASSUME NEW x \in Calls, Begin(x) PROVE ready' = ready
  BY <1>11 DEF Begin, Spawn, Send, Wait, Delete, DirectTurn
<1>12. CASE \E x \in Calls : Begin(x)
  BY <1>1, <1>2, <1>10, <1>11, <1>12
<1>13. CASE \E x \in Calls : CallStep(x)
  BY <1>3, <1>4, <1>13
<1>14. CASE \E d \in Children : WorkerStep(d)
  BY <1>5, <1>14 DEF BaseInv, ReadyInv
<1>15. CASE \E d \in Children : TurnStep(d)
  BY <1>1, <1>6, <1>15
<1> QED
  BY <1>1, <1>7, <1>8, <1>9, <1>12, <1>13, <1>14, <1>15 DEF Next

\* Two names are of one execution only if they are of a direct Turn's start
\* and of its end.
LEMMA NamedApart ==
  ASSUME StoreInv, NEW c \in Children, Recorded(c),
         NEW n, Named(c, n), NEW m, Named(c, m), n < m
  PROVE  \/ \E i \in n + 1 .. m : life[c][i] \in Starts \cup {"failed"}
         \/ /\ m = n + 1
            /\ life[c][n] = "prompted" /\ life[c][m] = "ended"
<1>1. /\ Len(life[c]) \in Nat /\ n \in Nat /\ m \in Nat
      /\ m \in 1 .. Len(life[c]) /\ m \in n + 1 .. m
      /\ life[c][m] \in {"started", "prompted", "ended", "failed"}
  <2>1. life[c] \in Seq({"started", "prompted", "ended", "failed"})
    BY DEF StoreInv
  <2>2. Len(life[c]) \in Nat
    BY <2>1, LenProperties
  <2>3. n \in Nat /\ m \in Nat /\ m \in 1 .. Len(life[c]) /\ m \in n + 1 .. m
    BY <2>2 DEF Named
  <2> QED
    BY <2>1, <2>2, <2>3, ElementOfSeq
<1>2. CASE life[c][m] # "ended"
  BY <1>1, <1>2 DEF Starts
<1>3. CASE life[c][m] = "ended"
  <2>1. m > 1 /\ life[c][m - 1] \in Starts
    BY <1>1, <1>3 DEF Recorded
  <2>2. CASE n = m - 1
    <3>1. life[c][n] # "started"
      BY <1>1, <1>3, <2>1, <2>2 DEF Named
    <3>2. life[c][n] = "prompted"
      BY <2>1, <2>2, <3>1 DEF Starts
    <3> QED
      BY <1>1, <1>3, <2>2, <3>2
  <2>3. CASE n # m - 1
    <3>1. m - 1 \in n + 1 .. m
      BY <1>1, <2>1, <2>3
    <3> QED
      BY <2>1, <3>1
  <2> QED
    BY <2>2, <2>3
<1> QED
  BY <1>2, <1>3

\* What a step may do with the rollout of a child.
Grows(c) ==
  \/ life'[c] = life[c] /\ (turn[c] = "none" => turn'[c] = "none")
  \/ /\ \E r \in Starts : life'[c] = Append(life[c], r)
     /\ turn[c] = "none"
  \/ /\ life'[c] = Append(life[c], "failed")
     /\ turn[c] = "none" /\ turn'[c] = "none"
  \/ /\ life'[c] = Append(life[c], "ended")
     /\ turn[c] # "none" /\ turn'[c] = "none"
LEMMA Grown ==
  ASSUME StoreInv, NEW c \in Children, Recorded(c), Grows(c)
  PROVE  /\ Recorded(c)'
         /\ \A n : Named(c, n) => Named(c, n)'
<1> DEFINE k == Len(life[c])
<1>1. life[c] \in Seq({"started", "prompted", "ended", "failed"}) /\ k \in Nat
  BY LenProperties DEF StoreInv
<1>2. \A r \in {"started", "prompted", "ended", "failed"} :
        /\ Len(Append(life[c], r)) = k + 1 /\ Append(life[c], r)[k + 1] = r
        /\ \A i \in 1 .. k : Append(life[c], r)[i] = life[c][i]
        /\ Append(life[c], r) # <<>>
  BY <1>1, AppendProperties
<1>3. CASE life'[c] = life[c] /\ (turn[c] = "none" => turn'[c] = "none")
  BY <1>3 DEF Recorded, Named
<1>4. ASSUME NEW r \in Starts \cup {"failed", "ended"},
             life'[c] = Append(life[c], r),
             r # "ended" => turn[c] = "none",
             r = "ended" => turn[c] # "none",
             r \notin Starts => turn'[c] = "none"
      PROVE  Recorded(c)' /\ \A n : Named(c, n) => Named(c, n)'
  <2>1. /\ Len(life'[c]) = k + 1 /\ life'[c][k + 1] = r /\ life'[c] # <<>>
        /\ \A i \in 1 .. k : life'[c][i] = life[c][i]
    BY <1>2, <1>4 DEF Starts
  <2>2. r = "ended" => k \in 1 .. k /\ life[c][k] \in Starts
    <3>1. life[c] # <<>> => k # 0
      BY <1>1, EmptySeq
    <3> QED
      BY <1>1, <1>4, <3>1 DEF Recorded
  <2>3. ASSUME NEW i \in 1 .. k + 1, life'[c][i] = "ended"
        PROVE  i > 1 /\ life'[c][i - 1] \in Starts
    <3>1. CASE i = k + 1
      BY <1>1, <2>1, <2>2, <2>3, <3>1
    <3>2. CASE i \in 1 .. k
      <4>1. i > 1 /\ life[c][i - 1] \in Starts /\ i - 1 \in 1 .. k
        BY <1>1, <2>1, <2>3, <3>2 DEF Recorded
      <4> QED
        BY <2>1, <4>1
    <3> QED
      BY <1>1, <3>1, <3>2
  <2>4. Recorded(c)'
    BY <1>4, <2>1, <2>3 DEF Recorded
  <2>5. ASSUME NEW n, Named(c, n) PROVE Named(c, n)'
    <3>1. n \in 0 .. k /\ n \in 0 .. k + 1 /\ n # k + 1
      BY <1>1, <2>5 DEF Named
    <3>2. ASSUME n > 0, life'[c][n] = "started" PROVE life'[c][n + 1] # "ended"
      <4>1. n \in 1 .. k /\ life[c][n] = "started"
        BY <1>1, <2>1, <3>1, <3>2
      <4>2. CASE n = k
        BY <1>4, <2>1, <2>5, <3>2, <4>1, <4>2 DEF Named
      <4>3. CASE n # k
        BY <1>1, <2>1, <2>5, <4>1, <4>3 DEF Named
      <4> QED
        BY <4>2, <4>3
    <3> QED
      BY <2>1, <3>1, <3>2 DEF Named
  <2> QED
    BY <2>4, <2>5
<1> QED
  BY <1>3, <1>4 DEF Grows, Starts

\* The notes of a queue of tasks.
LEMMA NotesOfQueues ==
  /\ Notes(<<>>) = {}
  /\ \A q \in Seq(TaskType) :
       /\ \A t \in TaskType :
            Notes(Append(q, t)) \subseteq Notes(q) \cup {t.note}
       /\ q # <<>> =>
            /\ Notes(Tail(q)) \subseteq Notes(q) /\ q[1].note \in Notes(q)
            /\ \A t \in TaskType :
                 Notes([q EXCEPT ![1] = t]) \subseteq Notes(q) \cup {t.note}
<1>1. Notes(<<>>) = {}
  BY EmptySeq DEF Notes
<1>2. ASSUME NEW q \in Seq(TaskType), NEW t \in TaskType
      PROVE  Notes(Append(q, t)) \subseteq Notes(q) \cup {t.note}
  <2>1. /\ Len(q) \in Nat /\ Len(Append(q, t)) = Len(q) + 1
        /\ \A i \in 1 .. Len(q) : Append(q, t)[i] = q[i]
        /\ Append(q, t)[Len(q) + 1] = t
    BY AppendProperties, LenProperties
  <2> QED
    BY <2>1 DEF Notes
<1>3. ASSUME NEW q \in Seq(TaskType), q # <<>>
      PROVE  /\ Notes(Tail(q)) \subseteq Notes(q) /\ q[1].note \in Notes(q)
             /\ \A t \in TaskType :
                  Notes([q EXCEPT ![1] = t]) \subseteq Notes(q) \cup {t.note}
  <2>1. Len(q) \in Nat \ {0} /\ DOMAIN q = 1 .. Len(q)
    BY <1>3, EmptySeq, LenProperties
  <2>2. /\ Len(Tail(q)) = Len(q) - 1
        /\ \A i \in 1 .. Len(Tail(q)) : Tail(q)[i] = q[i + 1]
    BY <1>3, HeadTailProperties
  <2>3. Notes(Tail(q)) \subseteq Notes(q)
    BY <2>1, <2>2 DEF Notes
  <2>4. ASSUME NEW t \in TaskType
        PROVE  Notes([q EXCEPT ![1] = t]) \subseteq Notes(q) \cup {t.note}
    <3>1. /\ Len([q EXCEPT ![1] = t]) = Len(q)
          /\ \A i \in 1 .. Len(q) :
               [q EXCEPT ![1] = t][i] = IF i = 1 THEN t ELSE q[i]
      BY <2>1, ExceptSeq
    <3> QED
      BY <3>1 DEF Notes
  <2>5. q[1].note \in Notes(q)
    BY <2>1 DEF Notes
  <2> QED
    BY <2>3, <2>4, <2>5
<1> QED
  BY <1>1, <1>2, <1>3

\* Settling or naming the first task of a queue keeps its other notes.
LEMMA SettledNotes ==
  ASSUME WorkerInv, NEW c \in Children, tasks[c] # <<>>
  PROVE  /\ [tasks[c] EXCEPT ![1].settled = TRUE] # <<>>
         /\ Notes([tasks[c] EXCEPT ![1].settled = TRUE])
              \subseteq Notes(tasks[c])
         /\ \A n \in Nat :
              /\ [tasks[c] EXCEPT ![1].note = n] # <<>>
              /\ Notes([tasks[c] EXCEPT ![1].note = n])
                   \subseteq Notes(tasks[c]) \cup {n}
<1>1. /\ tasks[c] \in Seq(TaskType) /\ tasks[c][1] \in TaskType
      /\ DOMAIN tasks[c] # {}
  BY Queues DEF WorkerInv
<1>2. \A t : [tasks[c] EXCEPT ![1] = t] # <<>>
  <2>1. \A t : DOMAIN [tasks[c] EXCEPT ![1] = t] = DOMAIN tasks[c]
    OBVIOUS
  <2>2. DOMAIN <<>> = {}
    OBVIOUS
  <2> QED
    BY <1>1, <2>1, <2>2
<1>3. /\ [tasks[c][1] EXCEPT !.settled = TRUE] \in TaskType
      /\ [tasks[c][1] EXCEPT !.settled = TRUE].note = tasks[c][1].note
      /\ \A n \in Nat : /\ [tasks[c][1] EXCEPT !.note = n] \in TaskType
                        /\ [tasks[c][1] EXCEPT !.note = n].note = n
  BY <1>1 DEF TaskType
<1>4. [tasks[c] EXCEPT ![1].settled = TRUE] =
        [tasks[c] EXCEPT ![1] = [tasks[c][1] EXCEPT !.settled = TRUE]]
  OBVIOUS
<1>5. \A n \in Nat : [tasks[c] EXCEPT ![1].note = n] =
        [tasks[c] EXCEPT ![1] = [tasks[c][1] EXCEPT !.note = n]]
  OBVIOUS
<1>6. /\ tasks[c][1].note \in Notes(tasks[c])
      /\ \A t \in TaskType :
           Notes([tasks[c] EXCEPT ![1] = t])
             \subseteq Notes(tasks[c]) \cup {t.note}
  BY <1>1, NotesOfQueues
<1> QED
  BY <1>1, <1>2, <1>3, <1>4, <1>5, <1>6

\* A child is left as it is, or goes on, or is created.
Keeps(c) ==
  /\ c \in exists /\ Grows(c)
  /\ \A n \in {found'[c]} \cup Notes(tasks'[c]) :
       n \in {0, found[c]} \cup Notes(tasks[c]) \/ Named(c, n)'
Appears(c) ==
  /\ life'[c] = <<>> /\ turn'[c] = "none" /\ tasks'[c] = <<>> /\ found'[c] = 0
  /\ \A n \in notes : n.from # c
LEMMA RecordsKept ==
  ASSUME StoreInv, StoreInv', RecordInv, NoteInv,
         \A c \in exists' : Keeps(c) \/ Appears(c),
         \A n \in notes' \ notes : n.from \in exists' => Named(n.from, n.at)'
  PROVE  RecordInv' /\ NoteInv'
<1>1. exists \subseteq Children /\ exists' \subseteq Children
  BY DEF StoreInv
<1>2. \A c \in Children : Len(life[c]) \in Nat /\ Len(life'[c]) \in Nat
  BY LenProperties DEF StoreInv
<1>3. ASSUME NEW c \in exists', Keeps(c)
      PROVE  /\ Recorded(c)' /\ Named(c, found[c])'
             /\ \A n \in Notes(tasks'[c]) : Named(c, n)'
             /\ \A n : Named(c, n) => Named(c, n)'
  <2>1. Recorded(c)' /\ \A n : Named(c, n) => Named(c, n)'
    BY <1>1, <1>3, Grown DEF Keeps, RecordInv
  <2>2. Named(c, 0)
    BY <1>1, <1>2, <1>3 DEF Named
  <2>3. \A n \in {0, found[c]} \cup Notes(tasks[c]) : Named(c, n)
    BY <1>3, <2>2 DEF Keeps, RecordInv
  <2>4. \A n \in {found'[c]} \cup Notes(tasks'[c]) : Named(c, n)'
    BY <1>3, <2>1, <2>3 DEF Keeps
  <2>5. Named(c, found[c])'
    <3>1. \A n : n = found'[c] => Named(c, n)'
      BY <2>4
    <3> QED
      BY <3>1 DEF Named
  <2> QED
    BY <2>1, <2>4, <2>5
<1>4. ASSUME NEW c \in exists', Appears(c)
      PROVE  /\ Recorded(c)' /\ Named(c, found[c])'
             /\ \A n \in Notes(tasks'[c]) : Named(c, n)'
  <2>1. Len(life'[c]) = 0 /\ Notes(tasks'[c]) = {}
    BY <1>4, NotesOfQueues, EmptySeq DEF Appears
  <2> QED
    BY <1>4, <2>1 DEF Appears, Recorded, Named
<1>5. RecordInv'
  BY <1>3, <1>4 DEF RecordInv
<1>6. ASSUME NEW n \in notes', n.from \in exists' PROVE Named(n.from, n.at)'
  <2>1. CASE n \in notes
    <3>1. Keeps(n.from)
      BY <1>6, <2>1 DEF Appears
    <3> QED
      BY <1>3, <1>6, <2>1, <3>1 DEF NoteInv, Keeps
  <2> QED
    BY <1>6, <2>1
<1> QED
  BY <1>5, <1>6 DEF NoteInv

\* Spawns do not begin again.
Later == \A x \in Calls : x.type = "spawn" /\ ~Early(x) => ~Early(x)'
\* What is there was spawned and stays so.
LEMMA SpawnedKept ==
  ASSUME FreshInv, Later, NEW c \in Children, ~Unborn(c)
  PROVE  Spawned(c)'
BY DEF FreshInv, Spawned, Later
LEMMA FreshKept ==
  ASSUME FreshInv, Later,
         \A c \in Children : Unborn(c) => Unborn(c)' \/ Spawned(c)'
  PROVE  FreshInv'
BY SpawnedKept DEF FreshInv

\* A step that records nothing and creates nothing.
Steady ==
  /\ UNCHANGED notes /\ exists' \subseteq exists
  /\ \A c \in Children :
       /\ \/ life'[c] = life[c] /\ (turn[c] = "none" => turn'[c] = "none")
          \/ life'[c] = <<>> /\ turn'[c] = "none" /\ c \notin exists'
       /\ c \in edges' => c \in edges \/ Spawned(c)'
       /\ c \in agents' => c \in agents \/ Spawned(c)'
       /\ tasks[c] = <<>> => tasks'[c] = <<>> \/ Spawned(c)'
       /\ found'[c] \in {0, found[c]}
       /\ \/ tasks'[c] \in {tasks[c], <<>>}
          \/ Notes(tasks'[c]) \subseteq {0, found[c]} \cup Notes(tasks[c])
LEMMA SteadyKept ==
  ASSUME StoreInv, StoreInv', FreshInv, RecordInv, NoteInv, Later, Steady
  PROVE  FreshInv' /\ RecordInv' /\ NoteInv'
<1>1. ASSUME NEW c \in Children, Unborn(c) PROVE Unborn(c)' \/ Spawned(c)'
  BY <1>1 DEF Steady, Unborn
<1>2. FreshInv'
  BY <1>1, FreshKept
<1>3. ASSUME NEW c \in exists' PROVE Keeps(c)
  <2>1. c \in Children /\ c \in exists
    BY <1>3 DEF StoreInv, Steady
  <2>2. Notes(tasks'[c]) \subseteq {0, found[c]} \cup Notes(tasks[c])
    BY <2>1, NotesOfQueues DEF Steady
  <2>3. Grows(c) /\ found'[c] \in {0, found[c]}
    BY <1>3, <2>1 DEF Steady, Grows
  <2> QED
    BY <2>1, <2>2, <2>3 DEF Keeps
<1>4. RecordInv' /\ NoteInv'
  BY <1>3, RecordsKept DEF Steady
<1> QED
  BY <1>2, <1>4

\* A step of one child that is there.
LEMMA ChildKept ==
  ASSUME StoreInv, StoreInv', FreshInv, RecordInv, NoteInv, Later,
         NEW c \in Children, ~Unborn(c), UNCHANGED <<exists, edges, agents>>,
         \A d \in Children : d # c =>
           /\ life'[d] = life[d] /\ turn'[d] = turn[d]
           /\ tasks'[d] = tasks[d] /\ found'[d] = found[d],
         c \in exists => Keeps(c),
         \A n \in notes' \ notes :
           n.from = c /\ (c \in exists => Named(c, n.at)')
  PROVE  FreshInv' /\ RecordInv' /\ NoteInv'
<1>1. \A d \in Children : Unborn(d) => Unborn(d)'
  BY DEF Unborn
<1>2. FreshInv'
  BY <1>1, FreshKept
<1>3. ASSUME NEW d \in exists', d # c PROVE Keeps(d)
  BY <1>3 DEF StoreInv, Keeps, Grows
<1>4. RecordInv' /\ NoteInv'
  BY <1>3, RecordsKept
<1> QED
  BY <1>2, <1>4

\* A worker that executes keeps its task or its path stays closed.
LEMMA HeadKept ==
  ASSUME HeadInv,
         \A c \in Children : worker'[c] \in Executes =>
           \/ tasks'[c] # <<>> \/ Closing(Path[c])'
           \/ /\ worker[c] \in Executes /\ tasks[c] = <<>>
              /\ Closing(Path[c]) => Closing(Path[c])'
  PROVE  HeadInv'
BY DEF HeadInv
\* A spawn begins.
LEMMA NamesSpawn ==
  ASSUME BaseInv, BaseInv', WorkInv, NamesInv, NEW x \in Calls, Spawn(x)
  PROVE  NamesInv'
<1> USE DEF SpawnFrame, SendFrame, CallFrame, WorkFrame, SessionFrame,
        WaitFrame, DeleteFrame, RestoreFrame, SessionStep, storeVars,
        turnVars, restoreVars, slotVars, workVars, mailVars, closeVars,
        history, To, Goes, Calling, Fails
<1>1. Later
  BY DEF Spawn, Later, Early, Woken, BaseInv, CallInv, Fits
<1>2. Steady
  BY DEF Spawn, Steady, NamesInv, BaseInv, StoreInv, WorkerInv
<1>3. HeadInv'
  BY HeadKept DEF Spawn, Executes, Closing, NamesInv, BaseInv, WorkerInv
<1> QED
  BY <1>1, <1>2, <1>3, SteadyKept DEF NamesInv, BaseInv

\* A message or follow-up begins.
LEMMA NamesSend ==
  ASSUME BaseInv, BaseInv', WorkInv, NamesInv, NEW x \in Calls, Send(x)
  PROVE  NamesInv'
<1> USE DEF SpawnFrame, SendFrame, CallFrame, WorkFrame, SessionFrame,
        WaitFrame, DeleteFrame, RestoreFrame, SessionStep, storeVars,
        turnVars, restoreVars, slotVars, workVars, mailVars, closeVars,
        history, To, Goes, Calling, Fails
<1>1. Later
  BY DEF Send, Later, Early, Woken, BaseInv, CallInv, Fits
<1>2. Steady
  BY DEF Send, Steady, NamesInv, BaseInv, StoreInv, WorkerInv
<1>3. HeadInv'
  BY HeadKept DEF Send, Executes, Closing, NamesInv, BaseInv, WorkerInv
<1> QED
  BY <1>1, <1>2, <1>3, SteadyKept DEF NamesInv, BaseInv

\* A wait begins.
LEMMA NamesWait ==
  ASSUME BaseInv, BaseInv', WorkInv, NamesInv, NEW x \in Calls, Wait(x)
  PROVE  NamesInv'
<1> USE DEF SpawnFrame, SendFrame, CallFrame, WorkFrame, SessionFrame,
        WaitFrame, DeleteFrame, RestoreFrame, SessionStep, storeVars,
        turnVars, restoreVars, slotVars, workVars, mailVars, closeVars,
        history, To, Goes, Calling, Fails
<1>1. Later
  BY DEF Wait, Later, Early, Woken, BaseInv, CallInv, Fits
<1>2. Steady
  BY DEF Wait, Steady, NamesInv, BaseInv, StoreInv, WorkerInv
<1>3. HeadInv'
  BY HeadKept, StartedFacts DEF Wait, Executes, Closing, NamesInv, BaseInv
<1> QED
  BY <1>1, <1>2, <1>3, SteadyKept DEF NamesInv, BaseInv

\* An edge is recorded.
LEMMA NamesLink ==
  ASSUME BaseInv, BaseInv', WorkInv, NamesInv, NEW x \in Calls, LinkThread(x)
  PROVE  NamesInv'
<1> USE DEF SpawnFrame, SendFrame, CallFrame, WorkFrame, SessionFrame,
        WaitFrame, DeleteFrame, RestoreFrame, SessionStep, storeVars,
        turnVars, restoreVars, slotVars, workVars, mailVars, closeVars,
        history, To, Goes, Calling, Fails
<1>1. Later
  BY DEF LinkThread, Later, Early, Woken, BaseInv, CallInv, Fits
<1>2. Steady
  <2>1. Spawned(x.to)'
    BY DEF LinkThread, Spawned, Early, BaseInv, CallInv, Fits, SpawnPhases
  <2> QED
    BY <2>1 DEF LinkThread, Steady
<1>3. HeadInv'
  BY HeadKept DEF LinkThread, Executes, Closing, NamesInv, BaseInv, WorkerInv
<1> QED
  BY <1>1, <1>2, <1>3, SteadyKept DEF NamesInv, BaseInv

\* A thread is discarded.
LEMMA NamesDiscard ==
  ASSUME BaseInv, BaseInv', WorkInv, NamesInv, NEW x \in Calls, DiscardChild(x)
  PROVE  NamesInv'
<1> USE DEF SpawnFrame, SendFrame, CallFrame, WorkFrame, SessionFrame,
        WaitFrame, DeleteFrame, RestoreFrame, SessionStep, storeVars,
        turnVars, restoreVars, slotVars, workVars, mailVars, closeVars,
        history, To, Goes, Calling, Fails
<1>1. Later
  BY DEF DiscardChild, SpawnEnds, ReleaseIdle, ReleaseBut, Later, Early,
       Woken, BaseInv, CallInv, Fits
<1>2. Steady
  BY DEF DiscardChild, SpawnEnds, ReleaseIdle, ReleaseBut, Steady, NamesInv,
       BaseInv, StoreInv, WorkerInv
<1>3. HeadInv'
  BY HeadKept DEF DiscardChild, SpawnEnds, ReleaseIdle, ReleaseBut, Executes,
     Closing, NamesInv, BaseInv, WorkerInv
<1> QED
  BY <1>1, <1>2, <1>3, SteadyKept DEF NamesInv, BaseInv

\* A thread is rolled back.
LEMMA NamesRollback ==
  ASSUME BaseInv, BaseInv', WorkInv, NamesInv, NEW x \in Calls,
         RollbackChild(x)
  PROVE  NamesInv'
<1> USE DEF SpawnFrame, SendFrame, CallFrame, WorkFrame, SessionFrame,
        WaitFrame, DeleteFrame, RestoreFrame, SessionStep, storeVars,
        turnVars, restoreVars, slotVars, workVars, mailVars, closeVars,
        history, To, Goes, Calling, Fails
<1>1. Later
  BY DEF RollbackChild, RollbackFails, SpawnEnds, ReleaseIdle, ReleaseBut,
       Later, Early, Woken, BaseInv, CallInv, Fits
<1>2. Steady
  BY DEF RollbackChild, RollbackFails, SpawnEnds, ReleaseIdle, ReleaseBut,
       Steady, NamesInv, BaseInv, StoreInv, WorkerInv
<1>3. HeadInv'
  BY HeadKept DEF RollbackChild, RollbackFails, SpawnEnds, ReleaseIdle,
     ReleaseBut, Executes, Closing, NamesInv, BaseInv, WorkerInv
<1> QED
  BY <1>1, <1>2, <1>3, SteadyKept DEF NamesInv, BaseInv

\* A follow-up shares the end of another.
LEMMA NamesJoin ==
  ASSUME BaseInv, BaseInv', WorkInv, NamesInv, NEW x \in Calls, JoinEnds(x)
  PROVE  NamesInv'
<1> USE DEF SpawnFrame, SendFrame, CallFrame, WorkFrame, SessionFrame,
        WaitFrame, DeleteFrame, RestoreFrame, SessionStep, storeVars,
        turnVars, restoreVars, slotVars, workVars, mailVars, closeVars,
        history, To, Goes, Calling, Fails
<1>1. Later
  BY DEF JoinEnds, Later, Early, Woken, BaseInv, CallInv, Fits
<1>2. Steady
  BY DEF JoinEnds, Steady, NamesInv, BaseInv, StoreInv, WorkerInv
<1>3. HeadInv'
  BY HeadKept DEF JoinEnds, Executes, Closing, NamesInv, BaseInv, WorkerInv
<1> QED
  BY <1>1, <1>2, <1>3, SteadyKept DEF NamesInv, BaseInv

\* A recipient is loaded.
LEMMA NamesLoad ==
  ASSUME BaseInv, BaseInv', WorkInv, NamesInv, NEW x \in Calls,
         LoadRecipient(x)
  PROVE  NamesInv'
<1> USE DEF SpawnFrame, SendFrame, CallFrame, WorkFrame, SessionFrame,
        WaitFrame, DeleteFrame, RestoreFrame, SessionStep, storeVars,
        turnVars, restoreVars, slotVars, workVars, mailVars, closeVars,
        history, To, Goes, Calling, Fails
<1>1. Later
  BY DEF LoadRecipient, Later, Early, Woken, BaseInv, CallInv, Fits
<1>2. Steady
  BY DEF LoadRecipient, Steady, NamesInv, BaseInv, StoreInv, WorkerInv
<1>3. HeadInv'
  BY HeadKept DEF LoadRecipient, Executes, Closing, NamesInv, BaseInv,
     WorkerInv
<1> QED
  BY <1>1, <1>2, <1>3, SteadyKept DEF NamesInv, BaseInv

\* A message arrives.
LEMMA NamesDeliver ==
  ASSUME BaseInv, BaseInv', WorkInv, NamesInv, NEW x \in Calls,
         DeliverMessage(x)
  PROVE  NamesInv'
<1> USE DEF SpawnFrame, SendFrame, CallFrame, WorkFrame, SessionFrame,
        WaitFrame, DeleteFrame, RestoreFrame, SessionStep, storeVars,
        turnVars, restoreVars, slotVars, workVars, mailVars, closeVars,
        history, To, Goes, Calling, Fails
<1>1. Later
  BY DEF DeliverMessage, Arrives, Later, Early, Woken, BaseInv, CallInv, Fits
<1>2. Steady
  BY DEF DeliverMessage, Arrives, Steady, NamesInv, BaseInv, StoreInv,
       WorkerInv
<1>3. HeadInv'
  BY HeadKept DEF DeliverMessage, Arrives, Executes, Closing, NamesInv,
     BaseInv, WorkerInv
<1> QED
  BY <1>1, <1>2, <1>3, SteadyKept DEF NamesInv, BaseInv

\* A follow-up reaches a Session.
LEMMA NamesSteer ==
  ASSUME BaseInv, BaseInv', WorkInv, NamesInv, NEW x \in Calls, SteerChild(x)
  PROVE  NamesInv'
<1> USE DEF SpawnFrame, SendFrame, CallFrame, WorkFrame, SessionFrame,
        WaitFrame, DeleteFrame, RestoreFrame, SessionStep, storeVars,
        turnVars, restoreVars, slotVars, workVars, mailVars, closeVars,
        history, To, Goes, Calling, Fails
<1>1. Later
  BY DEF SteerChild, Arrives, ReleaseIdle, ReleaseBut, Later, Early, Woken,
       BaseInv, CallInv, Fits
<1>2. Steady
  BY DEF SteerChild, Arrives, ReleaseIdle, ReleaseBut, Steady, NamesInv,
       BaseInv, StoreInv, WorkerInv
<1>3. HeadInv'
  BY HeadKept DEF SteerChild, Arrives, ReleaseIdle, ReleaseBut, Executes,
     Closing, NamesInv, BaseInv, WorkerInv
<1> QED
  BY <1>1, <1>2, <1>3, SteadyKept DEF NamesInv, BaseInv

\* A wait ends.
LEMMA NamesWaitEnds ==
  ASSUME BaseInv, BaseInv', WorkInv, NamesInv, NEW x \in Calls, WaitEnds(x)
  PROVE  NamesInv'
<1> USE DEF SpawnFrame, SendFrame, CallFrame, WorkFrame, SessionFrame,
        WaitFrame, DeleteFrame, RestoreFrame, SessionStep, storeVars,
        turnVars, restoreVars, slotVars, workVars, mailVars, closeVars,
        history, To, Goes, Calling, Fails
<1>1. Later
  BY DEF WaitEnds, Later, Early, Woken, BaseInv, CallInv, Fits
<1>2. Steady
  BY DEF WaitEnds, Steady, NamesInv, BaseInv, StoreInv, WorkerInv
<1>3. HeadInv'
  BY HeadKept DEF WaitEnds, Executes, Closing, NamesInv, BaseInv, WorkerInv
<1> QED
  BY <1>1, <1>2, <1>3, SteadyKept DEF NamesInv, BaseInv

\* Messages have settled.
LEMMA NamesMessages ==
  ASSUME BaseInv, BaseInv', WorkInv, NamesInv, NEW x \in Calls,
         MessagesSettle(x)
  PROVE  NamesInv'
<1> USE DEF SpawnFrame, SendFrame, CallFrame, WorkFrame, SessionFrame,
        WaitFrame, DeleteFrame, RestoreFrame, SessionStep, storeVars,
        turnVars, restoreVars, slotVars, workVars, mailVars, closeVars,
        history, To, Goes, Calling, Fails
<1>1. Later
  BY DEF MessagesSettle, Later, Early, Woken, BaseInv, CallInv, Fits
<1>2. Steady
  BY DEF MessagesSettle, Steady, NamesInv, BaseInv, StoreInv, WorkerInv
<1>3. HeadInv'
  BY HeadKept DEF MessagesSettle, Executes, Closing, NamesInv, BaseInv,
     WorkerInv
<1> QED
  BY <1>1, <1>2, <1>3, SteadyKept DEF NamesInv, BaseInv

\* Tasks are dropped and Turns interrupted.
LEMMA NamesSpawns ==
  ASSUME BaseInv, BaseInv', WorkInv, NamesInv, NEW x \in Calls, SpawnsSettle(x)
  PROVE  NamesInv'
<1> USE DEF SpawnFrame, SendFrame, CallFrame, WorkFrame, SessionFrame,
        WaitFrame, DeleteFrame, RestoreFrame, SessionStep, storeVars,
        turnVars, restoreVars, slotVars, workVars, mailVars, closeVars,
        history, To, Goes, Calling, Fails
<1>1. Later
  BY DEF SpawnsSettle, Later, Early, Woken, BaseInv, CallInv, Fits
<1>2. Steady
  <2>1. /\ UNCHANGED <<notes, exists, edges, agents, found, life>>
        /\ \A c \in Children :
             /\ turn[c] = "none" => turn'[c] = "none"
             /\ tasks'[c] \in {tasks[c], <<>>}
    BY DEF SpawnsSettle
  <2> QED
    BY <2>1 DEF Steady
<1>3. HeadInv'
  <2>1. /\ x.to \in Children /\ Path[x.to] \in closing
        /\ UNCHANGED <<worker, closing>>
    BY Constants DEF SpawnsSettle, WorkInv, CloseInv, DeleteInv, DeletePhases,
       BaseInv, CallInv, Fits
  <2>2. ASSUME NEW c \in Children, tasks'[c] # tasks[c] PROVE Closing(Path[c])'
    <3>1. c \in Subtree(x)
      BY <2>2 DEF SpawnsSettle, BaseInv, WorkerInv
    <3>2. IsPrefix(Path[x.to], Path[c])
      BY <2>1, <3>1, Constants DEF Subtree, Under, IsPrefix, PathOf
    <3> QED
      BY <2>1, <3>2 DEF Closing
  <2> QED
    BY <2>1, <2>2, HeadKept DEF Closing, NamesInv
<1> QED
  BY <1>1, <1>2, <1>3, SteadyKept DEF NamesInv, BaseInv

\* A subtree leaves the registry.
LEMMA NamesUnregister ==
  ASSUME BaseInv, BaseInv', WorkInv, NamesInv, NEW x \in Calls, Unregister(x)
  PROVE  NamesInv'
<1> USE DEF SpawnFrame, SendFrame, CallFrame, WorkFrame, SessionFrame,
        WaitFrame, DeleteFrame, RestoreFrame, SessionStep, storeVars,
        turnVars, restoreVars, slotVars, workVars, mailVars, closeVars,
        history, To, Goes, Calling, Fails
<1>1. Later
  BY DEF Unregister, Later, Early, Woken, BaseInv, CallInv, Fits
<1>2. Steady
  BY DEF Unregister, Steady, NamesInv, BaseInv, StoreInv, WorkerInv
<1>3. HeadInv'
  <2>1. UNCHANGED <<worker, closing>>
    BY DEF Unregister
  <2>2. ASSUME NEW c \in Children, worker[c] \in Executes
        PROVE  tasks'[c] = tasks[c]
    <3>1. op[x] = "runs" /\ \A d \in Subtree(x) : worker[d] = "none"
      BY DEF Unregister
    <3>2. tasks' = [d \in Children |->
                      IF d \in Subtree(x) THEN <<>> ELSE tasks[d]]
      BY <3>1, AllUnregistered DEF WorkInv, CloseInv, DeleteInv
    <3> QED
      BY <2>2, <3>1, <3>2 DEF Executes
  <2> QED
    BY <2>1, <2>2, HeadKept DEF Closing, NamesInv
<1> QED
  BY <1>1, <1>2, <1>3, SteadyKept DEF NamesInv, BaseInv

\* A worker looks for its next task.
LEMMA NamesNext ==
  ASSUME BaseInv, BaseInv', WorkInv, NamesInv, NEW c \in Children, NextTask(c)
  PROVE  NamesInv'
<1> USE DEF SpawnFrame, SendFrame, CallFrame, WorkFrame, SessionFrame,
        WaitFrame, DeleteFrame, RestoreFrame, SessionStep, storeVars,
        turnVars, restoreVars, slotVars, workVars, mailVars, closeVars,
        history, To, Goes, Calling, Fails
<1>1. Later
  BY DEF NextTask, Rejects, ReleaseIdle, ReleaseBut, Reserve, Ask, Later,
       Early, Woken, BaseInv, CallInv, Fits
<1>2. Steady
  BY DEF NextTask, Rejects, ReleaseIdle, ReleaseBut, Reserve, Ask, Steady,
       NamesInv, BaseInv, StoreInv, WorkerInv
<1>3. HeadInv'
  BY HeadKept DEF NextTask, Rejects, ReleaseIdle, ReleaseBut, Reserve, Ask,
     Executes, Closing, NamesInv, BaseInv, WorkerInv
<1> QED
  BY <1>1, <1>2, <1>3, SteadyKept DEF NamesInv, BaseInv

\* A worker looks at its task again.
LEMMA NamesCheck ==
  ASSUME BaseInv, BaseInv', WorkInv, NamesInv, NEW c \in Children, CheckTask(c)
  PROVE  NamesInv'
<1> USE DEF SpawnFrame, SendFrame, CallFrame, WorkFrame, SessionFrame,
        WaitFrame, DeleteFrame, RestoreFrame, SessionStep, storeVars,
        turnVars, restoreVars, slotVars, workVars, mailVars, closeVars,
        history, To, Goes, Calling, Fails
<1>1. Later
  BY DEF CheckTask, ReleaseBut, Later, Early, Woken, BaseInv, CallInv, Fits
<1>2. Steady
  BY DEF CheckTask, ReleaseBut, Steady, NamesInv, BaseInv, StoreInv, WorkerInv
<1>3. HeadInv'
  BY HeadKept DEF CheckTask, ReleaseBut, Executes, Closing, NamesInv, BaseInv,
     WorkerInv
<1> QED
  BY <1>1, <1>2, <1>3, SteadyKept DEF NamesInv, BaseInv

\* A worker ends.
LEMMA NamesEnds ==
  ASSUME BaseInv, BaseInv', WorkInv, NamesInv, NEW c \in Children,
         WorkerEnds(c)
  PROVE  NamesInv'
<1> USE DEF SpawnFrame, SendFrame, CallFrame, WorkFrame, SessionFrame,
        WaitFrame, DeleteFrame, RestoreFrame, SessionStep, storeVars,
        turnVars, restoreVars, slotVars, workVars, mailVars, closeVars,
        history, To, Goes, Calling, Fails
<1>1. Later
  BY DEF WorkerEnds, ReleaseIdle, ReleaseBut, Later, Early, Woken, BaseInv,
       CallInv, Fits
<1>2. Steady
  BY DEF WorkerEnds, ReleaseIdle, ReleaseBut, Steady, NamesInv, BaseInv,
       StoreInv, WorkerInv
<1>3. HeadInv'
  BY HeadKept DEF WorkerEnds, ReleaseIdle, ReleaseBut, Executes, Closing,
     NamesInv, BaseInv, WorkerInv
<1> QED
  BY <1>1, <1>2, <1>3, SteadyKept DEF NamesInv, BaseInv

\* All above learn of an outcome.
LEMMA NamesDelivered ==
  ASSUME BaseInv, BaseInv', WorkInv, NamesInv, NEW c \in Children,
         OutcomeDelivered(c)
  PROVE  NamesInv'
<1> USE DEF SpawnFrame, SendFrame, CallFrame, WorkFrame, SessionFrame,
        WaitFrame, DeleteFrame, RestoreFrame, SessionStep, storeVars,
        turnVars, restoreVars, slotVars, workVars, mailVars, closeVars,
        history, To, Goes, Calling, Fails
<1>1. Later
  BY DEF OutcomeDelivered, Later, Early, Woken, BaseInv, CallInv, Fits
<1>2. Steady
  <2>1. tasks[c] # <<>> => Notes(Tail(tasks[c])) \subseteq Notes(tasks[c])
    BY NotesOfQueues DEF BaseInv, WorkerInv
  <2> QED
    BY <2>1 DEF OutcomeDelivered, Steady, BaseInv, WorkerInv
<1>3. HeadInv'
  BY HeadKept DEF OutcomeDelivered, Executes, Closing, NamesInv, BaseInv,
     WorkerInv
<1> QED
  BY <1>1, <1>2, <1>3, SteadyKept DEF NamesInv, BaseInv

\* The outcome of a task is known.
LEMMA NamesSettle ==
  ASSUME BaseInv, BaseInv', WorkInv, NamesInv, NEW c \in Children,
         SettleTask(c)
  PROVE  NamesInv'
<1> USE DEF SpawnFrame, SendFrame, CallFrame, WorkFrame, SessionFrame,
        WaitFrame, DeleteFrame, RestoreFrame, SessionStep, storeVars,
        turnVars, restoreVars, slotVars, workVars, mailVars, closeVars,
        history, To, Goes, Calling, Fails
<1>4. tasks[c] # <<>> =>
        /\ [tasks[c] EXCEPT ![1].settled = TRUE] # <<>>
        /\ Notes([tasks[c] EXCEPT ![1].settled = TRUE])
             \subseteq Notes(tasks[c])
  BY SettledNotes DEF BaseInv
<1>5. /\ tasks'[c] = IF tasks[c] = <<>> THEN <<>>
                     ELSE [tasks[c] EXCEPT ![1].settled = TRUE]
      /\ \A d \in Children : d # c => tasks'[d] = tasks[d]
  BY DEF SettleTask, BaseInv, WorkerInv
<1>1. Later
  BY DEF SettleTask, ReleaseIdle, ReleaseBut, Later, Early, Woken, BaseInv,
       CallInv, Fits
<1>2. Steady
  BY <1>4, <1>5 DEF SettleTask, Steady
<1>3. HeadInv'
  BY <1>4, <1>5, HeadKept DEF SettleTask, Executes, Closing, NamesInv,
     BaseInv, WorkerInv
<1> QED
  BY <1>1, <1>2, <1>3, SteadyKept DEF NamesInv, BaseInv

\* A reservation is answered.
LEMMA NamesDecide ==
  ASSUME BaseInv, BaseInv', WorkInv, NamesInv, NEW p \in Paths, Decide(p)
  PROVE  NamesInv'
<1> USE DEF SpawnFrame, SendFrame, CallFrame, WorkFrame, SessionFrame,
        WaitFrame, DeleteFrame, RestoreFrame, SessionStep, storeVars,
        turnVars, restoreVars, slotVars, workVars, mailVars, closeVars,
        history, To, Goes, Calling, Fails
<1>1. Later
  BY DEF Decide, Answer, Later, Early, Woken, BaseInv, CallInv, Fits
<1>2. Steady
  BY DEF Decide, Answer, Steady, NamesInv, BaseInv, StoreInv, WorkerInv
<1>3. HeadInv'
  BY HeadKept DEF Decide, Answer, Executes, Closing, NamesInv, BaseInv,
     WorkerInv
<1> QED
  BY <1>1, <1>2, <1>3, SteadyKept DEF NamesInv, BaseInv

\* Failed workers start again.
LEMMA NamesRetry ==
  ASSUME BaseInv, BaseInv', WorkInv, NamesInv, Retry
  PROVE  NamesInv'
<1> USE DEF SpawnFrame, SendFrame, CallFrame, WorkFrame, SessionFrame,
        WaitFrame, DeleteFrame, RestoreFrame, SessionStep, storeVars,
        turnVars, restoreVars, slotVars, workVars, mailVars, closeVars,
        history, To, Goes, Calling, Fails
<1>1. Later
  BY DEF Retry, Later, Early, Woken, BaseInv, CallInv, Fits
<1>2. Steady
  BY DEF Retry, Steady, NamesInv, BaseInv, StoreInv, WorkerInv
<1>3. HeadInv'
  BY HeadKept, StartedFacts DEF Retry, Executes, Closing, NamesInv, BaseInv
<1> QED
  BY <1>1, <1>2, <1>3, SteadyKept DEF NamesInv, BaseInv

\* The process dies.
LEMMA NamesCrash ==
  ASSUME BaseInv, BaseInv', WorkInv, NamesInv, Crash
  PROVE  NamesInv'
<1> USE DEF SpawnFrame, SendFrame, CallFrame, WorkFrame, SessionFrame,
        WaitFrame, DeleteFrame, RestoreFrame, SessionStep, storeVars,
        turnVars, restoreVars, slotVars, workVars, mailVars, closeVars,
        history, To, Goes, Calling, Fails
<1>1. Later
  BY DEF Crash, Later, Early, Woken, BaseInv, CallInv, Fits
<1>2. Steady
  BY Constants DEF Crash, NoneFound, Steady
<1>3. HeadInv'
  BY DEF Crash, HeadInv, Executes
<1> QED
  BY <1>1, <1>2, <1>3, SteadyKept DEF NamesInv, BaseInv

\* A child is registered.
LEMMA NamesRegister ==
  ASSUME BaseInv, BaseInv', WorkInv, NamesInv, NEW x \in Calls,
         RegisterChild(x)
  PROVE  NamesInv'
<1> USE DEF SpawnFrame, SendFrame, CallFrame, WorkFrame, SessionFrame,
        WaitFrame, DeleteFrame, RestoreFrame, SessionStep, storeVars,
        turnVars, restoreVars, slotVars, workVars, mailVars, closeVars,
        history, To, Goes, Calling, Fails
<1>4. x.to \in Children /\ Spawned(x.to)'
  BY Constants DEF RegisterChild, Spawned, Early, BaseInv, CallInv, Fits,
     SpawnPhases
<1>5. /\ Task("none") \in TaskType /\ Task("none").note = 0
      /\ tasks[x.to] \in Seq(TaskType)
  BY <1>4 DEF Task, TaskType, Ids, BaseInv, WorkerInv
<1>6. /\ Notes(Append(tasks[x.to], Task("none")))
           \subseteq {0} \cup Notes(tasks[x.to])
      /\ Append(tasks[x.to], Task("none")) # <<>>
  BY <1>5, NotesOfQueues, Queues
<1>1. Later
  BY DEF RegisterChild, Enqueue, Later, Early, Woken, BaseInv, CallInv, Fits
<1>2. Steady
  <2>1. \/ tasks' = tasks
        \/ tasks' = [tasks EXCEPT ![x.to] = Append(@, Task("none"))]
    BY DEF RegisterChild, Enqueue
  <2>2. \A c \in Children : c \in agents' => c \in agents \/ c = x.to
    BY DEF RegisterChild
  <2>3. UNCHANGED <<notes, exists, edges, found, life, turn>>
    BY DEF RegisterChild
  <2> QED
    BY <1>4, <1>6, <2>1, <2>2, <2>3 DEF Steady, BaseInv, WorkerInv
<1>3. HeadInv'
  <2>1. UNCHANGED closing
    BY DEF RegisterChild
  <2>2. CASE UNCHANGED workVars
    BY <2>1, <2>2, HeadKept DEF Closing, NamesInv
  <2>3. CASE Enqueue(x.to, Task("none"))
    BY <1>4, <1>6, <2>1, <2>3, HeadKept, StartedFacts DEF Enqueue, Closing,
       Executes, NamesInv, BaseInv, WorkerInv
  <2> QED
    BY <2>2, <2>3 DEF RegisterChild
<1> QED
  BY <1>1, <1>2, <1>3, SteadyKept DEF NamesInv, BaseInv

\* A follow-up becomes a task.
LEMMA NamesFollowup ==
  ASSUME BaseInv, BaseInv', WorkInv, NamesInv, NEW x \in Calls,
         StartFollowup(x)
  PROVE  NamesInv'
<1> USE DEF SpawnFrame, SendFrame, CallFrame, WorkFrame, SessionFrame,
        WaitFrame, DeleteFrame, RestoreFrame, SessionStep, storeVars,
        turnVars, restoreVars, slotVars, workVars, mailVars, closeVars,
        history, To, Goes, Calling, Fails
<1>4. x.to \in Children
  BY Constants DEF StartFollowup, BaseInv, CallInv, Fits, SendPhases
<1>5. /\ Task(x.id) \in TaskType /\ Task(x.id).note = 0
      /\ tasks[x.to] \in Seq(TaskType)
  BY <1>4 DEF Task, TaskType, Ids, BaseInv, WorkerInv
<1>6. /\ Notes(Append(tasks[x.to], Task(x.id)))
           \subseteq {0} \cup Notes(tasks[x.to])
      /\ Append(tasks[x.to], Task(x.id)) # <<>>
  BY <1>5, NotesOfQueues, Queues
<1>7. UNCHANGED workVars \/ (x.to \in agents /\ Enqueue(x.to, Task(x.id)))
  BY DEF StartFollowup, Live
<1>1. Later
  BY DEF StartFollowup, Enqueue, ReleaseIdle, ReleaseBut, Later, Early, Woken,
       BaseInv, CallInv, Fits
<1>2. Steady
  <2>1. \/ tasks' = tasks
        \/ tasks' = [tasks EXCEPT ![x.to] = Append(@, Task(x.id))]
    BY <1>7 DEF Enqueue
  <2>2. tasks' = tasks \/ Spawned(x.to)'
    BY <1>1, <1>4, <1>7, SpawnedKept DEF Unborn, NamesInv
  <2>3. UNCHANGED <<notes, exists, edges, agents, found, life, turn>>
    BY DEF StartFollowup
  <2> QED
    BY <1>4, <1>6, <2>1, <2>2, <2>3 DEF Steady, BaseInv, WorkerInv
<1>3. HeadInv'
  <2>1. UNCHANGED closing
    BY DEF StartFollowup
  <2>2. CASE UNCHANGED workVars
    BY <2>1, <2>2, HeadKept DEF Closing, NamesInv
  <2>3. CASE Enqueue(x.to, Task(x.id))
    BY <1>4, <1>6, <2>1, <2>3, HeadKept, StartedFacts DEF Enqueue, Closing,
       Executes, NamesInv, BaseInv, WorkerInv
  <2> QED
    BY <1>7, <2>2, <2>3
<1> QED
  BY <1>1, <1>2, <1>3, SteadyKept DEF NamesInv, BaseInv

\* A deletion begins.
LEMMA NamesDelete ==
  ASSUME BaseInv, BaseInv', WorkInv, NamesInv, NEW x \in Calls, Delete(x)
  PROVE  NamesInv'
<1> USE DEF SpawnFrame, SendFrame, CallFrame, WorkFrame, SessionFrame,
        WaitFrame, DeleteFrame, RestoreFrame, SessionStep, storeVars,
        turnVars, restoreVars, slotVars, workVars, mailVars, closeVars,
        history, To, Goes, Calling, Fails
<1>1. Later
  BY DEF Delete, Later, Early, Woken, BaseInv, CallInv, Fits
<1>2. Steady
  <2>1. CASE UNCHANGED agents
    BY <2>1 DEF Delete, Steady
  <2>2. CASE x.to \in exists /\ agents' = agents \cup {x.to}
    <3>1. x.to \in Children /\ ~Unborn(x.to)
      BY <2>2 DEF BaseInv, StoreInv, Unborn
    <3>2. Spawned(x.to)'
      BY <1>1, <3>1, SpawnedKept DEF NamesInv
    <3> QED
      BY <2>2, <3>2 DEF Delete, Steady
  <2> QED
    BY <2>1, <2>2 DEF Delete
<1>3. HeadInv'
  BY HeadKept DEF Delete, Closing, NamesInv
<1> QED
  BY <1>1, <1>2, <1>3, SteadyKept DEF NamesInv, BaseInv

\* A thread of a subtree is removed.
LEMMA NamesRemove ==
  ASSUME DeletionsApart, BaseInv, BaseInv', WorkInv, NamesInv,
         NEW x \in Calls, RemoveNext(x)
  PROVE  NamesInv'
<1> USE DEF SpawnFrame, SendFrame, CallFrame, WorkFrame, SessionFrame,
        WaitFrame, DeleteFrame, RestoreFrame, SessionStep, storeVars,
        turnVars, restoreVars, slotVars, workVars, mailVars, closeVars,
        history, To, Goes, Calling, Fails
<1>1. Later
  BY DEF RemoveNext, Later, Early, BaseInv, CallInv, Fits
<1>2. Steady
  <2>1. UNCHANGED <<notes, tasks, found, agents>>
    BY DEF RemoveNext
  <2>2. CASE UNCHANGED <<exists, edges, life, turn>>
    BY <2>1, <2>2 DEF Steady
  <2>3. ASSUME NEW d \in Children, RemoveRollout(d) \/ RemoveEdges(d)
        PROVE  Steady
    BY <2>1, <2>3 DEF RemoveRollout, RemoveEdges, Steady, BaseInv, StoreInv
  <2>4. x.to \in Children
    BY Constants DEF RemoveNext, BaseInv, CallInv, Fits, DeletePhases
  <2> QED
    BY <2>2, <2>3, <2>4, NextRemovedFacts DEF RemoveNext, BaseInv
<1>3. HeadInv'
  <2>1. /\ x.type = "delete" /\ x.to \in Children /\ UNCHANGED workVars
        /\ \A c \in agents \ {Root} : ~Under(c, Path[x.to])
    BY Constants DEF RemoveNext, BaseInv, CallInv, Fits, DeletePhases,
       WorkInv, CloseInv, DeleteInv, DeletionsApart
  <2>2. \A c \in Children :
          worker[c] # "none" => ~IsPrefix(Path[x.to], Path[c])
    BY <2>1, Constants DEF BaseInv, PlaceInv, Under
  <2>3. CASE UNCHANGED closing
    BY <2>1, <2>3, HeadKept DEF Closing, NamesInv
  <2>4. ASSUME NEW d \in NextRemoved(x.to), RemoveEdges(d)
        PROVE  HeadInv'
    <3>1. /\ d \in Children /\ (d = x.to \/ x.to \in Above[d])
          /\ closing \ {Path[d]} \subseteq closing'
      BY <2>1, <2>4, NextRemovedFacts DEF RemoveEdges, BaseInv
    <3>2. IsPrefix(Path[x.to], Path[d])
      BY <2>1, <3>1, PathsAreNames, AbovePaths, Constants DEF IsPrefix
    <3>3. ASSUME NEW c \in Children, worker[c] # "none", Closing(Path[c])
          PROVE  Closing(Path[c])'
      <4>1. ~IsPrefix(Path[d], Path[c])
        BY <2>1, <2>2, <3>1, <3>2, <3>3, PrefixTransitive
      <4> QED
        BY <3>1, <3>3, <4>1 DEF Closing
    <3> QED
      BY <2>1, <3>3, HeadKept DEF Executes, NamesInv
  <2> QED
    BY <2>3, <2>4 DEF RemoveNext, RemoveRollout
<1> QED
  BY <1>1, <1>2, <1>3, SteadyKept DEF NamesInv, BaseInv

\* A thread is created.
LEMMA NamesCreate ==
  ASSUME OwnThreads, BaseInv, BaseInv', WorkInv, NamesInv, NEW x \in Calls,
         CreateThread(x)
  PROVE  NamesInv'
<1> USE DEF SpawnFrame, SendFrame, CallFrame, WorkFrame, SessionFrame,
        WaitFrame, DeleteFrame, RestoreFrame, SessionStep, storeVars,
        turnVars, restoreVars, slotVars, workVars, mailVars, closeVars,
        history, To, Goes, Calling, Fails
<1>1. Later
  BY DEF CreateThread, SpawnEnds, ReleaseIdle, ReleaseBut, Later, Early,
       BaseInv, CallInv, Fits
<1>2. /\ x.type = "spawn" /\ x.to \in Children
      /\ Early(x) /\ op[x] = "creating"
  BY Constants DEF CreateThread, Early, BaseInv, CallInv, Fits, SpawnPhases
<1>3. Unborn(x.to)
  BY <1>2 DEF OwnThreads, NamesInv, FreshInv, Spawned
<1>4. HeadInv'
  BY HeadKept DEF CreateThread, SpawnEnds, Closing, NamesInv
<1>5. CASE UNCHANGED exists
  <2>1. Steady
    BY <1>5 DEF CreateThread, SpawnEnds, Steady
  <2> QED
    BY <1>1, <1>4, <2>1, SteadyKept DEF NamesInv, BaseInv
<1>6. CASE exists' = exists \cup {x.to} /\ To(x, "linking")
  <2>1. UNCHANGED <<life, turn, tasks, found, notes, edges, agents>>
    BY DEF CreateThread, SpawnEnds
  <2>2. Spawned(x.to)'
    BY <1>2, <1>6 DEF Spawned, Early, BaseInv, CallInv
  <2>3. FreshInv'
    BY <1>1, <1>6, <2>1, <2>2, FreshKept DEF Unborn, NamesInv
  <2>4. Appears(x.to)
    BY <1>3, <2>1 DEF Appears, Unborn
  <2>5. \A c \in exists : Keeps(c)
    BY <2>1 DEF Keeps, Grows
  <2>6. RecordInv' /\ NoteInv'
    BY <1>6, <2>1, <2>4, <2>5, RecordsKept DEF NamesInv, BaseInv
  <2> QED
    BY <1>4, <2>3, <2>6 DEF NamesInv
<1> QED
  BY <1>5, <1>6 DEF CreateThread

\* A Turn starts for a task.
LEMMA NamesLaunch ==
  ASSUME BaseInv, BaseInv', WorkInv, NamesInv, NEW c \in Children,
         LaunchTask(c)
  PROVE  NamesInv'
<1> USE DEF SpawnFrame, SendFrame, CallFrame, WorkFrame, SessionFrame,
        WaitFrame, DeleteFrame, RestoreFrame, SessionStep, storeVars,
        turnVars, restoreVars, slotVars, workVars, mailVars, closeVars,
        history, To, Goes, Calling, Fails
<1>1. ~Unborn(c)
  BY DEF LaunchTask, Unborn, BaseInv, PlaceInv
<1>2. Later
  BY DEF LaunchTask, Later, Early, Woken, BaseInv, CallInv, Fits
<1>3. /\ UNCHANGED <<exists, edges, agents>>
      /\ \A d \in Children : d # c =>
           /\ life'[d] = life[d] /\ turn'[d] = turn[d]
           /\ tasks'[d] = tasks[d] /\ found'[d] = found[d]
  BY DEF LaunchTask, BaseInv, StoreInv, WorkerInv
<1>4. ASSUME c \in exists PROVE Keeps(c)
  <2>1. UNCHANGED <<tasks, found>> /\ Grows(c)
    BY DEF LaunchTask, Grows, Starts, BaseInv, StoreInv
  <2> QED
    BY <1>4, <2>1 DEF Keeps
<1>5. \A n \in notes' \ notes :
        n.from = c /\ (c \in exists => Named(c, n.at)')
  BY DEF LaunchTask
<1>6. FreshInv' /\ RecordInv' /\ NoteInv'
  BY <1>1, <1>2, <1>3, <1>4, <1>5, ChildKept DEF NamesInv, BaseInv
<1>7. HeadInv'
  BY HeadKept DEF LaunchTask, Executes, Closing, NamesInv, BaseInv, WorkerInv
<1> QED
  BY <1>6, <1>7 DEF NamesInv

\* A task fails.
LEMMA NamesFail ==
  ASSUME BaseInv, BaseInv', WorkInv, NamesInv, NEW c \in Children, FailTask(c)
  PROVE  NamesInv'
<1> USE DEF SpawnFrame, SendFrame, CallFrame, WorkFrame, SessionFrame,
        WaitFrame, DeleteFrame, RestoreFrame, SessionStep, storeVars,
        turnVars, restoreVars, slotVars, workVars, mailVars, closeVars,
        history, To, Goes, Calling, Fails
<1>1. ~Unborn(c)
  BY DEF FailTask, Unborn, BaseInv, PlaceInv
<1>2. Later
  BY DEF FailTask, Dies, Rejects, Later, Early, Woken, BaseInv, CallInv, Fits
<1>3. /\ UNCHANGED <<exists, edges, agents>>
      /\ \A d \in Children : d # c =>
           /\ life'[d] = life[d] /\ turn'[d] = turn[d]
           /\ tasks'[d] = tasks[d] /\ found'[d] = found[d]
  BY DEF FailTask, Dies, Rejects, BaseInv, StoreInv, WorkerInv
<1>4. ASSUME c \in exists PROVE Keeps(c)
  <2>1. UNCHANGED <<tasks, found>> /\ Grows(c)
    BY DEF FailTask, Dies, Rejects, Grows, BaseInv, StoreInv
  <2> QED
    BY <1>4, <2>1 DEF Keeps
<1>5. \A n \in notes' \ notes :
        n.from = c /\ (c \in exists => Named(c, n.at)')
  BY DEF FailTask, Dies, Rejects
<1>6. FreshInv' /\ RecordInv' /\ NoteInv'
  BY <1>1, <1>2, <1>3, <1>4, <1>5, ChildKept DEF NamesInv, BaseInv
<1>7. HeadInv'
  BY HeadKept DEF FailTask, Dies, Rejects, Executes, Closing, NamesInv,
     BaseInv, WorkerInv
<1> QED
  BY <1>6, <1>7 DEF NamesInv

\* An outcome gets its name, the place of the child's last record but starts.
LEMMA NamesName ==
  ASSUME BaseInv, BaseInv', WorkInv, NamesInv, NEW c \in Children,
         NameOutcome(c)
  PROVE  NamesInv'
<1> USE DEF SpawnFrame, SendFrame, CallFrame, WorkFrame, SessionFrame,
        WaitFrame, DeleteFrame, RestoreFrame, SessionStep, storeVars,
        turnVars, restoreVars, slotVars, workVars, mailVars, closeVars,
        history, To, Goes, Calling, Fails
<1>1. ~Unborn(c)
  BY DEF NameOutcome, Unborn, BaseInv, PlaceInv
<1>2. Later
  BY DEF NameOutcome, Dies, Rejects, Later, Early, Woken, BaseInv, CallInv,
       Fits
<1>3. /\ UNCHANGED <<exists, edges, agents>>
      /\ \A d \in Children : d # c =>
           /\ life'[d] = life[d] /\ turn'[d] = turn[d]
           /\ tasks'[d] = tasks[d] /\ found'[d] = found[d]
  BY DEF NameOutcome, Dies, Rejects, BaseInv, StoreInv, WorkerInv
<1>4. ASSUME c \in exists PROVE Keeps(c)
  <2>1. UNCHANGED <<life, turn, found>>
    BY DEF NameOutcome, Dies, Rejects
  <2>2. \/ tasks'[c] = tasks[c]
        \/ /\ tasks[c] # <<>>
           /\ tasks'[c] = [tasks[c] EXCEPT ![1].note = LastTerminal(c)]
    BY DEF NameOutcome, Dies, Rejects, BaseInv, WorkerInv
  <2>3. /\ LastTerminal(c) \in Nat /\ LastTerminal(c) <= Len(life[c])
        /\ LastTerminal(c) > 0 => life[c][LastTerminal(c)] # "started"
    BY LastTerminalType DEF BaseInv, Starts
  <2>4. Notes(tasks'[c]) \subseteq Notes(tasks[c]) \cup {LastTerminal(c)}
    BY <2>2, <2>3, SettledNotes DEF BaseInv
  <2>5. \A n : n = LastTerminal(c) => Named(c, n)'
    BY <2>1, <2>3, Records DEF Named, BaseInv
  <2> QED
    BY <1>4, <2>1, <2>4, <2>5 DEF Keeps, Grows
<1>5. \A n \in notes' \ notes :
        n.from = c /\ (c \in exists => Named(c, n.at)')
  BY DEF NameOutcome, Dies, Rejects
<1>6. FreshInv' /\ RecordInv' /\ NoteInv'
  BY <1>1, <1>2, <1>3, <1>4, <1>5, ChildKept DEF NamesInv, BaseInv
<1>7. HeadInv'
  <2>1. /\ UNCHANGED closing
        /\ worker'[c] \in Executes => worker[c] \in Executes
        /\ \A d \in Children : d # c => worker'[d] = worker[d]
    BY DEF NameOutcome, Dies, Rejects, Executes, BaseInv, WorkerInv
  <2>2. tasks[c] # <<>> => tasks'[c] # <<>>
    BY SettledNotes, LastTerminalType DEF NameOutcome, Dies, Rejects, BaseInv,
       WorkerInv
  <2> QED
    BY <1>3, <2>1, <2>2, HeadKept DEF Closing, NamesInv
<1> QED
  BY <1>6, <1>7 DEF NamesInv

\* An outcome is delivered.
LEMMA NamesOutcome ==
  ASSUME BaseInv, BaseInv', WorkInv, NamesInv, NEW c \in Children,
         DeliverOutcome(c)
  PROVE  NamesInv'
<1> USE DEF SpawnFrame, SendFrame, CallFrame, WorkFrame, SessionFrame,
        WaitFrame, DeleteFrame, RestoreFrame, SessionStep, storeVars,
        turnVars, restoreVars, slotVars, workVars, mailVars, closeVars,
        history, To, Goes, Calling, Fails
<1>1. ~Unborn(c)
  BY DEF DeliverOutcome, Unborn, BaseInv, PlaceInv
<1>2. Later
  BY DEF DeliverOutcome, Dies, Rejects, Later, Early, Woken, BaseInv, CallInv,
       Fits
<1>3. /\ UNCHANGED <<exists, edges, agents>>
      /\ \A d \in Children : d # c =>
           /\ life'[d] = life[d] /\ turn'[d] = turn[d]
           /\ tasks'[d] = tasks[d] /\ found'[d] = found[d]
  BY DEF DeliverOutcome, Dies, Rejects, BaseInv, StoreInv, WorkerInv
<1>4. ASSUME c \in exists PROVE Keeps(c)
  <2>1. UNCHANGED <<life, turn, found>>
    BY DEF DeliverOutcome, Dies, Rejects
  <2>2. tasks'[c] = tasks[c] \/ (tasks[c] # <<>> /\ tasks'[c] = Tail(tasks[c]))
    BY DEF DeliverOutcome, Dies, Rejects, BaseInv, WorkerInv
  <2>3. Notes(tasks'[c]) \subseteq Notes(tasks[c])
    BY <2>2, NotesOfQueues DEF BaseInv, WorkerInv
  <2> QED
    BY <1>4, <2>1, <2>3 DEF Keeps, Grows
<1>5. \A n \in notes' \ notes :
        n.from = c /\ (c \in exists => Named(c, n.at)')
  <2>1. CASE UNCHANGED notes
    BY <2>1
  <2>2. CASE ~UNCHANGED notes
    <3>1. /\ worker[c] = "delivering" /\ ~Closing(Path[c])
          /\ notes' \subseteq
               notes \cup {[from |-> c, at |-> Head(tasks[c]).note]}
          /\ UNCHANGED <<life, turn>>
      BY <2>2 DEF DeliverOutcome, Dies, Rejects
    <3>2. tasks[c] # <<>>
      BY <3>1 DEF NamesInv, HeadInv, Executes
    <3>3. Head(tasks[c]) = tasks[c][1] /\ tasks[c][1].note \in Notes(tasks[c])
      BY <3>2, Queues, NotesOfQueues DEF BaseInv, WorkerInv
    <3>4. \A n : Named(c, n) => Named(c, n)'
      BY <3>1 DEF Named
    <3> QED
      BY <3>1, <3>3, <3>4 DEF NamesInv, RecordInv
  <2> QED
    BY <2>1, <2>2
<1>6. FreshInv' /\ RecordInv' /\ NoteInv'
  BY <1>1, <1>2, <1>3, <1>4, <1>5, ChildKept DEF NamesInv, BaseInv
<1>7. HeadInv'
  <2>1. /\ UNCHANGED closing /\ worker'[c] \notin Executes
        /\ \A d \in Children : d # c => worker'[d] = worker[d]
    BY DEF DeliverOutcome, Dies, Rejects, Executes, BaseInv, WorkerInv
  <2> QED
    BY <1>3, <2>1, HeadKept DEF Closing, NamesInv
<1> QED
  BY <1>6, <1>7 DEF NamesInv

\* A prompt starts a Turn.
LEMMA NamesDirect ==
  ASSUME BaseInv, BaseInv', WorkInv, NamesInv, NEW x \in Calls, DirectTurn(x)
  PROVE  NamesInv'
<1> USE DEF SpawnFrame, SendFrame, CallFrame, WorkFrame, SessionFrame,
        WaitFrame, DeleteFrame, RestoreFrame, SessionStep, storeVars,
        turnVars, restoreVars, slotVars, workVars, mailVars, closeVars,
        history, To, Goes, Calling, Fails
<1>0. x.to \in Children
  BY DEF DirectTurn, BaseInv, StoreInv
<1>1. ~Unborn(x.to)
  BY DEF DirectTurn, Unborn
<1>2. Later
  BY DEF DirectTurn, Later, Early, Woken, BaseInv, CallInv, Fits
<1>3. /\ UNCHANGED <<exists, edges, agents>>
      /\ \A d \in Children : d # x.to =>
           /\ life'[d] = life[d] /\ turn'[d] = turn[d]
           /\ tasks'[d] = tasks[d] /\ found'[d] = found[d]
  BY <1>0 DEF DirectTurn, BaseInv, StoreInv, WorkerInv
<1>4. ASSUME x.to \in exists PROVE Keeps(x.to)
  <2>1. UNCHANGED <<tasks, found>> /\ Grows(x.to)
    BY <1>0 DEF DirectTurn, Grows, Starts, BaseInv, StoreInv
  <2> QED
    BY <1>4, <2>1 DEF Keeps
<1>5. \A n \in notes' \ notes :
        n.from = x.to /\ (x.to \in exists => Named(x.to, n.at)')
  BY DEF DirectTurn
<1>6. FreshInv' /\ RecordInv' /\ NoteInv'
  BY <1>0, <1>1, <1>2, <1>3, <1>4, <1>5, ChildKept DEF NamesInv, BaseInv
<1>7. HeadInv'
  BY HeadKept DEF DirectTurn, Closing, NamesInv
<1> QED
  BY <1>6, <1>7 DEF NamesInv

\* A Turn goes on.
LEMMA NamesTurn ==
  ASSUME BaseInv, BaseInv', WorkInv, NamesInv, NEW c \in Children, TurnStep(c)
  PROVE  NamesInv'
<1> USE DEF SpawnFrame, SendFrame, CallFrame, WorkFrame, SessionFrame,
        WaitFrame, DeleteFrame, RestoreFrame, SessionStep, storeVars,
        turnVars, restoreVars, slotVars, workVars, mailVars, closeVars,
        history, To, Goes, Calling, Fails
<1>1. ~Unborn(c)
  BY DEF TurnStep, TurnTakes, TurnStops, TurnEnds, Unborn
<1>2. Later
  BY DEF TurnStep, TurnTakes, TurnStops, TurnEnds, Later, Early, Woken,
       BaseInv, CallInv, Fits
<1>3. /\ UNCHANGED <<exists, edges, agents>>
      /\ \A d \in Children : d # c =>
           /\ life'[d] = life[d] /\ turn'[d] = turn[d]
           /\ tasks'[d] = tasks[d] /\ found'[d] = found[d]
  BY DEF TurnStep, TurnTakes, TurnStops, TurnEnds, BaseInv, StoreInv, WorkerInv
<1>4. ASSUME c \in exists PROVE Keeps(c)
  <2>1. UNCHANGED <<tasks, found>> /\ Grows(c)
    BY DEF TurnStep, TurnTakes, TurnStops, TurnEnds, Grows, BaseInv, StoreInv
  <2> QED
    BY <1>4, <2>1 DEF Keeps
<1>5. \A n \in notes' \ notes :
        n.from = c /\ (c \in exists => Named(c, n.at)')
  BY DEF TurnStep, TurnTakes, TurnStops, TurnEnds
<1>6. FreshInv' /\ RecordInv' /\ NoteInv'
  BY <1>1, <1>2, <1>3, <1>4, <1>5, ChildKept DEF NamesInv, BaseInv
<1>7. HeadInv'
  BY HeadKept DEF TurnStep, TurnTakes, TurnStops, TurnEnds, Executes, Closing,
     NamesInv, BaseInv, WorkerInv
<1> QED
  BY <1>6, <1>7 DEF NamesInv

\* A restore goes on.
LEMMA NamesRestore ==
  ASSUME BaseInv, BaseInv', WorkInv, NamesInv, PromptInv, RestoreStep
  PROVE  NamesInv'
<1> USE DEF SpawnFrame, SendFrame, CallFrame, WorkFrame, SessionFrame,
        WaitFrame, DeleteFrame, RestoreFrame, SessionStep, storeVars,
        turnVars, restoreVars, slotVars, workVars, mailVars, closeVars,
        history, To, Goes, Calling, Fails
<1>1. /\ ready # "yes" /\ UNCHANGED op
      /\ \A c \in Children : worker'[c] \in {worker[c], "reserve"}
  BY StartedFacts DEF RestoreStep, Restore, Reconcile, ReadChild,
         RegisterFound, RestoreFails, RemoveRollout, RemoveEdges, BaseInv
<1>2. Later
  BY <1>1 DEF Later, Early
<1>3. HeadInv'
  BY <1>1 DEF BaseInv, ReadyInv, HeadInv, Executes
<1>4. ASSUME Steady PROVE NamesInv'
  BY <1>2, <1>3, <1>4, SteadyKept DEF NamesInv, BaseInv
<1>5. ASSUME Restore \/ (RestoreFails /\ UNCHANGED op /\ RestoreFrame)
      PROVE  Steady
  BY <1>5 DEF Restore, RestoreFails, NoneFound, Steady
<1>6. ASSUME Reconcile PROVE Steady
  <2>1. /\ UNCHANGED <<notes, life, turn, agents, tasks, found>>
        /\ exists' \subseteq exists
    BY <1>6 DEF Reconcile
  <2>2. \A c \in Children : c \in edges' => c \in edges \/ c \in exists
    BY <1>6 DEF Reconcile, Shallowest
  <2>3. \A c \in Children : c \in exists => Spawned(c)'
    BY <1>2, SpawnedKept DEF Unborn, NamesInv
  <2> QED
    BY <2>1, <2>2, <2>3 DEF Steady
<1>7. ASSUME ReadChild PROVE NamesInv'
  <2>1. PICK c \in Shallowest(Unread) :
          \/ /\ c \notin exists
             /\ \E d \in NextRemoved(c) :
                  IF d \in exists THEN RemoveRollout(d) ELSE RemoveEdges(d)
             /\ UNCHANGED found
          \/ /\ c \in exists /\ life[c] = <<>>
             /\ life' = [life EXCEPT ![c] = <<"failed">>]
             /\ UNCHANGED <<exists, edges, turnVars, closeVars, found>>
          \/ /\ c \in exists /\ life[c] # <<>>
             /\ found' = [found EXCEPT ![c] = Len(life[c])]
             /\ UNCHANGED <<exists, edges, life, turnVars, closeVars>>
    BY <1>7 DEF ReadChild
  <2>2. /\ c \in Children /\ c \in edges
        /\ UNCHANGED <<agents, tasks, notes>>
    BY <1>7 DEF ReadChild, Shallowest, Unread, BaseInv, StoreInv
  <2>3. ~Unborn(c)
    BY <2>2 DEF Unborn
  <2>4. CASE c \notin exists
    <3>1. /\ UNCHANGED found
          /\ \E d \in Children : RemoveRollout(d) \/ RemoveEdges(d)
      BY <2>1, <2>2, <2>4, NextRemovedFacts DEF BaseInv
    <3>2. Steady
      BY <2>2, <3>1 DEF RemoveRollout, RemoveEdges, Steady, BaseInv, StoreInv
    <3> QED
      BY <1>4, <3>2
  <2>5. CASE c \in exists /\ life[c] = <<>>
    <3>1. /\ life' = [life EXCEPT ![c] = <<"failed">>]
          /\ UNCHANGED <<exists, edges, turn, found>>
      BY <2>1, <2>5
    <3>2. turn[c] = "none"
      BY <2>5 DEF NamesInv, RecordInv, Recorded
    <3>3. <<"failed">> = Append(<<>>, "failed")
      OBVIOUS
    <3>4. Keeps(c)
      BY <2>2, <2>5, <3>1, <3>2, <3>3 DEF Keeps, Grows, BaseInv, StoreInv
    <3>5. FreshInv' /\ RecordInv' /\ NoteInv'
      BY <1>2, <2>2, <2>3, <3>1, <3>4, ChildKept DEF NamesInv, BaseInv,
         StoreInv
    <3> QED
      BY <1>3, <3>5 DEF NamesInv
  <2>6. CASE c \in exists /\ life[c] # <<>>
    <3>1. /\ found' = [found EXCEPT ![c] = Len(life[c])]
          /\ UNCHANGED <<exists, edges, life, turn>>
      BY <2>1, <2>6
    <3>2. Len(life[c]) \in Nat \ {0} /\ found'[c] = Len(life[c])
      BY <2>2, <2>6, <3>1, Records, EmptySeq DEF BaseInv, StoreInv
    <3>3. life[c][Len(life[c])] = "started" => turn[c] = "none"
      BY <1>1, <2>2 DEF PromptInv
    <3>4. \A n : n = Len(life[c]) => Named(c, n)'
      BY <3>1, <3>2, <3>3 DEF Named
    <3>5. Keeps(c)
      BY <2>2, <2>6, <3>1, <3>2, <3>4 DEF Keeps, Grows
    <3>6. FreshInv' /\ RecordInv' /\ NoteInv'
      BY <1>2, <2>2, <2>3, <3>1, <3>5, ChildKept DEF NamesInv, BaseInv,
         StoreInv
    <3> QED
      BY <1>3, <3>6 DEF NamesInv
  <2> QED
    BY <2>4, <2>5, <2>6
<1>8. ASSUME RegisterFound PROVE Steady
  <2>1. UNCHANGED <<notes, exists, edges, life, turn>> /\ found' = NoneFound
    BY <1>8 DEF RegisterFound
  <2>2. ASSUME NEW c \in Children
        PROVE  /\ c \in agents' => c \in agents \/ found[c] # 0
               /\ \/ tasks'[c] = tasks[c]
                  \/ /\ found[c] # 0
                     /\ tasks'[c] = Append(tasks[c], Restored(found[c]))
    BY <1>8, <2>2 DEF RegisterFound
  <2>3. ASSUME NEW c \in Children
        PROVE  /\ found[c] # 0 => Spawned(c)'
               /\ Notes(Append(tasks[c], Restored(found[c])))
                    \subseteq Notes(tasks[c]) \cup {found[c]}
    <3>1. /\ Restored(found[c]) \in TaskType /\ tasks[c] \in Seq(TaskType)
          /\ Restored(found[c]).note = found[c]
      BY <2>3 DEF Restored, TaskType, Ids, BaseInv, StoreInv, WorkerInv
    <3> QED
      BY <1>2, <2>3, <3>1, SpawnedKept, NotesOfQueues DEF Unborn, NamesInv
  <2> QED
    BY <2>1, <2>2, <2>3 DEF Steady, NoneFound
<1> QED
  BY <1>1, <1>4, <1>5, <1>6, <1>7, <1>8 DEF RestoreStep

\* Nothing is there and nothing is named at first; every step keeps what names
\* say.
LEMMA NamesInit == Init => NamesInv
<1> SUFFICES ASSUME Init PROVE NamesInv
  OBVIOUS
<1>1. FreshInv
  BY Constants DEF Init, NoneFound, FreshInv, Unborn
<1>2. RecordInv /\ NoteInv
  BY DEF Init, RecordInv, NoteInv
<1>3. HeadInv
  BY DEF Init, HeadInv, Executes
<1> QED
  BY <1>1, <1>2, <1>3 DEF NamesInv

LEMMA NamesNextKeeps ==
  ASSUME OwnThreads, DeletionsApart, BaseInv, BaseInv', WorkInv, NamesInv,
         PromptInv, [Next]_vars
  PROVE  NamesInv'
<1>1. ASSUME NEW x \in Calls, Begin(x) PROVE NamesInv'
  BY <1>1, NamesSpawn, NamesSend, NamesWait, NamesDelete, NamesDirect DEF Begin
<1>2. ASSUME NEW x \in Calls, CallStep(x) PROVE NamesInv'
  BY <1>2, NamesCreate, NamesLink, NamesDiscard, NamesRegister, NamesRollback,
     NamesJoin, NamesLoad, NamesDeliver, NamesSteer, NamesFollowup,
     NamesWaitEnds, NamesMessages, NamesSpawns, NamesUnregister, NamesRemove
     DEF CallStep
<1>3. ASSUME NEW p \in Paths, Decide(p) PROVE NamesInv'
  BY <1>3, NamesDecide
<1>4. ASSUME NEW c \in Children, WorkerStep(c) PROVE NamesInv'
  BY <1>4, NamesNext, NamesCheck, NamesLaunch, NamesFail, NamesSettle,
     NamesName, NamesOutcome, NamesDelivered, NamesEnds DEF WorkerStep
<1>5. ASSUME NEW c \in Children, TurnStep(c) PROVE NamesInv'
  BY <1>5, NamesTurn
<1>6. ASSUME RestoreStep \/ Retry \/ Crash PROVE NamesInv'
  BY <1>6, NamesRestore, NamesRetry, NamesCrash
<1>7. ASSUME UNCHANGED vars PROVE NamesInv'
  BY <1>7
     DEF vars, storeVars, turnVars, restoreVars, workVars, closeVars, NamesInv,
         FreshInv, Unborn, Spawned, Early, RecordInv, Recorded, Named, Notes,
         NoteInv, HeadInv, Closing
<1> QED
  BY <1>1, <1>2, <1>3, <1>4, <1>5, <1>6, <1>7 DEF Next

\* Two outcomes of one child have a start or a failure between them, unless
\* they are of one direct Turn.
LEMMA NamesAnnouncedOnce == BaseInv /\ NamesInv => AnnouncedOnce
<1> SUFFICES ASSUME BaseInv, NamesInv, NEW n \in notes, NEW m \in notes,
                    n.from = m.from, n.at < m.at, n.from \in exists
             PROVE  \/ \E i \in n.at + 1 .. m.at :
                         life[n.from][i] \in Starts \cup {"failed"}
                    \/ /\ m.at = n.at + 1
                       /\ life[n.from][n.at] = "prompted"
                       /\ life[n.from][m.at] = "ended"
  BY DEF AnnouncedOnce
<1>1. n.from \in Children /\ Recorded(n.from)
  BY DEF BaseInv, StoreInv, NamesInv, RecordInv
<1>2. Named(n.from, n.at) /\ Named(n.from, m.at)
  BY DEF NamesInv, NoteInv
<1> QED
  BY <1>1, <1>2, NamedApart DEF BaseInv

\* A parent hears of every execution of a child at most once (deliverOutcome
\* and completionDeliveryId, agent-runtime.ts), across failed deliveries,
\* retries, crashes and restores, if every spawn makes a thread of its own;
\* a restore that reads a child while a direct Turn of it is open announces
\* that one, and only that one may be announced again.
THEOREM AnnouncedOnceHolds ==
  ASSUME OwnThreads
  PROVE  Spec /\ []DeletionsApart => []AnnouncedOnce
<1>1. Init => WorkInv /\ NamesInv /\ PromptInv
  BY WorkInit, NamesInit DEF Init, PromptInv
<1>2. /\ DeletionsApart /\ DeletionsApart' /\ BaseInv /\ BaseInv'
      /\ WorkInv /\ NamesInv /\ PromptInv /\ [Next]_vars
      => WorkInv' /\ NamesInv' /\ PromptInv'
  BY WorkNextKeeps, NamesNextKeeps, PromptKept
<1>3. BaseInv /\ NamesInv => AnnouncedOnce
  BY NamesAnnouncedOnce
<1> QED
  BY <1>1, <1>2, <1>3, BaseInvariant, PTL DEF Spec

-----------------------------------------------------------------------------
(* What deletions leave.  The graph is kept whole from below: an agent is  *)
(* gone from it only when nothing in it is below, registered or on its way *)
(* to be.  So a deletion that has removed the last thread, its own, has    *)
(* left no edge, and nobody is left who could bring one back: whoever is   *)
(* to spawn below it would have to be registered there, or be restored     *)
(* from an edge.                                                           *)

\* The threads that the graph store leads to.
Present == (exists \cap edges) \cup {Root}
Unfinished(y) == Running(y) \/ op[y] = "failed"
FailedSpawn(c) ==
  \E y \in Calls : y.type = "spawn" /\ y.to = c /\ op[y] = "failed"

\* Edges lead down from the root.
EdgeInv == \A c \in edges : Parent[c] \in edges \cup {Root}
\* An agent that spawns is there, and nothing is below its new child.
SpawnInv ==
  \A y \in Calls : Spawner(y) =>
    /\ y.by \in Present
    /\ y.to \in agents => Closing(Path[y.to])
    /\ op[y] \in {"linking", "created"} => y.to \in exists
    /\ op[y] = "created" => y.to \in edges
    /\ \A e \in edges : Parent[e] # y.to
    /\ \A z \in Calls : Spawner(z) => z.by # y.to
\* A registered agent is there unless its path is closed.
LiveInv == \A c \in agents : c \in Present \/ Closing(Path[c])
\* A rollout without an edge is of a spawn that is not over or that failed.
LeftInv ==
  \A c \in exists \ edges :
    \E y \in Calls : y.type = "spawn" /\ y.to = c /\ Unfinished(y)
\* Only registered agents have tasks.
IdleInv == \A c \in Children \ agents : tasks[c] = <<>>
\* A restore has read what is there, from the root down.
FoundInv ==
  /\ ready # "reading" => found = NoneFound
  /\ \A c \in Children : found[c] # 0 =>
       c \in Present /\ \A e \in Unread : Len(Path[c]) <= Len(Path[e])
\* What is there, or was deleted, was spawned.
BornInv ==
  /\ \A c \in exists \cup edges : Spawned(c)
  /\ \A x \in Calls :
       x.type = "delete" /\ op[x] \notin {"unsent", "failed"} => Spawned(x.to)
\* Nothing of a child is left but what a failed spawn or deletion left.
Gone(c) ==
  /\ c \notin edges /\ worker[c] = "none" /\ tasks[c] = <<>>
  /\ c \in exists => FailedSpawn(c)
  /\ \A y \in Calls : Spawner(y) => y.to # c
  /\ c \in agents =>
       /\ Closing(Path[c])
       /\ \E y \in Calls : y.type = "delete" /\ y.to = c /\ Unfinished(y)
Deleted(x) ==
  /\ x.to \notin exists
  /\ \A c \in Children : c = x.to \/ x.to \in Above[c] => Gone(c)
Over(x) == x.type = "delete" /\ op[x] \in {"done", "past"}
GoneInv == \A x \in Calls : Over(x) => Deleted(x)
\* Once the tree is restored no thread has lost its parent.
WholeInv ==
  ready = "yes" => \A c \in exists \cap edges : Parent[c] \in exists \cup {Root}

GraphInv ==
  /\ EdgeInv /\ SpawnInv /\ LiveInv /\ LeftInv /\ IdleInv /\ FoundInv
  /\ BornInv /\ GoneInv /\ WholeInv

\* What is above a child is its parent or above that.
LEMMA AboveParent ==
  ASSUME NEW c \in Children, NEW a \in Above[c], a # Root
  PROVE  /\ Parent[c] \in Children
         /\ a = Parent[c] \/ a \in Above[Parent[c]]
<1>1. Parent[c] = Root \/ Parent[c] \in Children
  BY TreeAssumption DEF Agents
<1>2. Above[c] = IF Parent[c] = Root THEN {Root}
                 ELSE {Parent[c]} \cup Above[Parent[c]]
  BY AboveStep
<1> QED
  BY <1>1, <1>2

\* All above an edge have edges.
LEMMA EdgesAbove ==
  ASSUME StoreInv, EdgeInv, NEW d \in edges, NEW a \in Above[d], a # Root
  PROVE  a \in edges
<1> DEFINE Bad == {c \in edges : \E b \in Above[c] : b # Root /\ b \notin edges}
           Lengths == {Len(Path[c]) : c \in Bad}
<1>1. edges \subseteq Children /\ Bad \subseteq Children
  BY DEF StoreInv
<1>2. Lengths \subseteq Nat
  BY <1>1, PathsAreNames
<1>3. ASSUME Lengths # {} PROVE FALSE
  <2>1. PICK k \in Lengths : \A j \in Lengths : <<j, k>> \notin OpToRel(<, Nat)
    BY <1>2, <1>3, NatLessThanWellFounded, WFMin
  <2>2. \A j \in Lengths : ~(j < k)
    BY <1>2, <2>1 DEF OpToRel
  <2>3. PICK c \in Bad : k = Len(Path[c])
    BY <2>1
  <2>4. PICK b \in Above[c] : b # Root /\ b \notin edges
    BY <2>3
  <2>5. c \in Children /\ c \in edges
    BY <1>1, <2>3
  <2>6. /\ Parent[c] \in Children
        /\ b = Parent[c] \/ b \in Above[Parent[c]]
    BY <2>4, <2>5, AboveParent
  <2>7. Parent[c] \in edges
    BY <2>5, <2>6, Constants DEF EdgeInv
  <2>8. Parent[c] \in Bad
    BY <2>4, <2>6, <2>7
  <2>9. Len(Path[Parent[c]]) < Len(Path[c])
    BY <2>5, <2>6, ParentPath
  <2> QED
    BY <2>2, <2>3, <2>8, <2>9
<1>4. Bad = {}
  BY <1>3
<1> QED
  BY <1>4

\* What is removed next has no edge below it.
LEMMA NextIsLowest ==
  ASSUME StoreInv, EdgeInv, NEW c \in Children, NEW d \in NextRemoved(c),
         NEW e \in edges
  PROVE  Parent[e] # d /\ (d = c => c \notin Above[e])
<1>1. /\ e \in Children /\ d \in Children
      /\ d = c \/ (d \in edges /\ c \in Above[d])
  BY NextRemovedFacts DEF StoreInv
<1>2. Len(Path[e]) \in Nat /\ Len(Path[d]) \in Nat
  BY <1>1, PathsAreNames
<1>3. ASSUME c \in Above[e], Len(Path[d]) < Len(Path[e]) PROVE FALSE
  <2>1. \A b \in Above[e] \ {Root} : b \in edges
    BY EdgesAbove
  <2>2. e \in Descendants(c)
    BY <1>3, <2>1 DEF Descendants
  <2>3. Len(Path[e]) <= Len(Path[d])
    BY <2>2 DEF NextRemoved, Deepest
  <2> QED
    BY <1>2, <1>3, <2>3
<1>4. ASSUME Parent[e] = d PROVE FALSE
  <2>1. Above[e] = {d} \cup Above[d]
    BY <1>1, <1>4, AboveStep, Constants
  <2>2. Len(Path[d]) < Len(Path[e])
    BY <1>1, <1>4, ParentPath
  <2> QED
    BY <1>1, <1>3, <2>1, <2>2
<1>5. ASSUME d = c, c \in Above[e] PROVE FALSE
  <2>1. Len(Path[d]) < Len(Path[e])
    BY <1>1, <1>5, AbovePaths, Constants
  <2> QED
    BY <1>3, <1>5, <2>1
<1> QED
  BY <1>4, <1>5

\* A step that creates and registers nothing: the calls that are on their way
\* go on or fail, ...
CallFades(y) ==
  /\ y.type = "spawn" =>
       /\ Running(y)' => Running(y)
       /\ op'[y] \in {"linking", "created"} => op'[y] = op[y]
       /\ Early(y)' => Early(y)
       /\ Unfinished(y) => Unfinished(y)'
       /\ op[y] = "failed" => op'[y] = "failed"
  /\ y.type = "delete" =>
       /\ Unfinished(y) => Unfinished(y)' \/ y.to \notin agents'
       /\ op[y] = "unsent" => op'[y] = "unsent" \/ op'[y] = "failed"
       /\ op[y] = "failed" => op'[y] = "failed"
       /\ Over(y)' => Over(y) \/ Deleted(y)'
\* ... only registered agents work, ...
WorkFades(c) ==
  /\ c \in agents \ agents' => tasks'[c] = <<>>
  /\ \/ worker[c] # "none" \/ tasks[c] # <<>> \/ Live(c)
     \/ worker'[c] = "none" /\ tasks'[c] = <<>>
  /\ c \in agents' /\ Closing(Path[c]) => Closing(Path[c])'
\* ... what goes has nothing below it, ...
GoesAlone(d) ==
  /\ d \in agents' => Closing(Path[d])'
  /\ found'[d] = 0
  /\ \A e \in edges : Parent[e] # d
  /\ \A z \in Calls : Spawner(z)' => z.by # d
  /\ d \in exists' => FailedSpawn(d)'
  /\ \A y \in Calls : y.type = "spawn" /\ y.to = d =>
       op'[y] \notin {"linking", "created"}
\* ... and a restore starts or fails.
Fades ==
  /\ exists' \subseteq exists /\ edges' \subseteq edges
  /\ agents' \subseteq agents \cup {Root}
  /\ \A d \in (exists \ exists') \cup (edges \ edges') : GoesAlone(d)
  /\ \A y \in Calls : CallFades(y)
  /\ \A c \in Children : WorkFades(c)
  /\ \/ found' = NoneFound
     \/ found' = found /\ (ready' = "reading" \/ ready # "reading")
  /\ ready' = "yes" => ready = "yes"

LEMMA GraphFades ==
  ASSUME BaseInv, BaseInv', GraphInv, Fades
  PROVE  GraphInv'
<1>0. /\ exists \subseteq Children /\ edges \subseteq Children
      /\ agents \subseteq Agents
      /\ exists' \subseteq exists /\ edges' \subseteq edges
      /\ agents' \subseteq agents \cup {Root} /\ Root \notin Children
      /\ \A y \in Calls : y.type = "spawn" => y.to \in Children
      /\ \A y \in Calls : y.type = "delete" => y.to \in Children
  BY Constants DEF BaseInv, StoreInv, WorkerInv, Fades
<1>1. EdgeInv'
  BY <1>0 DEF EdgeInv, Fades, GoesAlone, GraphInv
<1>2. SpawnInv'
  <2> SUFFICES ASSUME NEW y \in Calls, Spawner(y)'
               PROVE  /\ y.by \in Present'
                      /\ y.to \in agents' => Closing(Path[y.to])'
                      /\ op'[y] \in {"linking", "created"} => y.to \in exists'
                      /\ op'[y] = "created" => y.to \in edges'
                      /\ \A e \in edges' : Parent[e] # y.to
                      /\ \A z \in Calls : Spawner(z)' => z.by # y.to
    BY DEF SpawnInv
  <2>1. /\ y.type = "spawn" /\ y.to \in Children
        /\ \A z \in Calls : Spawner(z)' => Spawner(z)
    BY <1>0 DEF Spawner, Fades, CallFades
  <2>2. /\ Spawner(y) /\ y.by \in Present
        /\ y.to \in agents => Closing(Path[y.to])
        /\ op[y] \in {"linking", "created"} => y.to \in exists
        /\ op[y] = "created" => y.to \in edges
        /\ \A e \in edges : Parent[e] # y.to
        /\ \A z \in Calls : Spawner(z) => z.by # y.to
    BY <2>1 DEF GraphInv, SpawnInv
  <2>3. y.by \in Present'
    BY <2>2 DEF Present, Fades, GoesAlone
  <2>4. y.to \in agents' => Closing(Path[y.to])'
    BY <1>0, <2>1, <2>2 DEF Fades, WorkFades
  <2>5. op'[y] \in {"linking", "created"} => op'[y] = op[y]
    BY <2>1 DEF Fades, CallFades
  <2>6. op'[y] \in {"linking", "created"} => y.to \in exists'
    BY <2>1, <2>2, <2>5 DEF Fades, GoesAlone
  <2>7. op'[y] = "created" => y.to \in edges'
    BY <2>1, <2>2, <2>5 DEF Fades, GoesAlone
  <2> QED
    BY <1>0, <2>1, <2>2, <2>3, <2>4, <2>6, <2>7
<1>3. LiveInv'
  <2> SUFFICES ASSUME NEW c \in agents', c # Root
               PROVE  c \in Present' \/ Closing(Path[c])'
    BY Constants, <1>0 DEF LiveInv, Present
  <2>1. c \in Children /\ (c \in Present \/ Closing(Path[c]))
    BY <1>0, Constants DEF GraphInv, LiveInv
  <2>2. CASE Closing(Path[c])
    BY <2>1, <2>2 DEF Fades, WorkFades
  <2>3. CASE c \in Present
    BY <2>3 DEF Present, Fades, GoesAlone
  <2> QED
    BY <2>1, <2>2, <2>3
<1>4. LeftInv'
  <2> SUFFICES ASSUME NEW c \in exists', c \notin edges'
               PROVE  \E y \in Calls : y.type = "spawn" /\ y.to = c
                                       /\ Unfinished(y)'
    BY DEF LeftInv
  <2>1. CASE c \in edges
    <3>1. FailedSpawn(c)'
      BY <2>1 DEF Fades, GoesAlone
    <3> QED
      BY <3>1 DEF FailedSpawn, Unfinished
  <2>2. CASE c \notin edges
    <3>1. PICK y \in Calls : y.type = "spawn" /\ y.to = c /\ Unfinished(y)
      BY <1>0, <2>2 DEF GraphInv, LeftInv
    <3>2. Unfinished(y)'
      BY <3>1 DEF Fades, CallFades
    <3> QED
      BY <3>1, <3>2
  <2> QED
    BY <2>1, <2>2
<1>5. IdleInv'
  <2> SUFFICES ASSUME NEW c \in Children, c \notin agents'
               PROVE  tasks'[c] = <<>>
    BY DEF IdleInv
  <2>1. CASE c \in agents
    BY <2>1 DEF Fades, WorkFades
  <2>2. CASE c \notin agents
    <3>1. worker[c] = "none" /\ tasks[c] = <<>> /\ ~Live(c)
      BY <2>2 DEF BaseInv, PlaceInv, GraphInv, IdleInv, Live
    <3> QED
      BY <3>1 DEF Fades, WorkFades
  <2> QED
    BY <2>1, <2>2
<1>6. FoundInv'
  <2>1. CASE found' = NoneFound
    BY <2>1 DEF FoundInv, NoneFound
  <2>2. CASE found' # NoneFound
    <3>1. found' = found /\ ready' = "reading"
      BY <2>2 DEF Fades, GraphInv, FoundInv
    <3>2. Unread' \subseteq Unread
      BY <1>0, <3>1 DEF Unread
    <3>3. ASSUME NEW c \in Children, found'[c] # 0 PROVE c \in Present'
      BY <1>0, <3>1, <3>3, Constants
         DEF GraphInv, FoundInv, Present, Fades, GoesAlone
    <3> QED
      BY <3>1, <3>2, <3>3 DEF GraphInv, FoundInv
  <2> QED
    BY <2>1, <2>2
<1>7. BornInv'
  <2>1. \A c : Spawned(c) => Spawned(c)'
    BY DEF Spawned, Fades, CallFades
  <2>2. \A x \in Calls : x.type = "delete" /\ op'[x] \notin {"unsent", "failed"}
                         => op[x] \notin {"unsent", "failed"}
    BY DEF Fades, CallFades
  <2> QED
    BY <1>0, <2>1, <2>2 DEF GraphInv, BornInv
<1>8. GoneInv'
  <2>1. ASSUME NEW c \in Children, Gone(c) PROVE Gone(c)'
    <3>1. ~Live(c) /\ worker[c] = "none" /\ tasks[c] = <<>>
      BY <2>1, Constants DEF Gone, Live
    <3>2. worker'[c] = "none" /\ tasks'[c] = <<>> /\ c \notin edges'
      BY <1>0, <2>1, <3>1 DEF Gone, Fades, WorkFades
    <3>3. c \in exists' => FailedSpawn(c)'
      BY <1>0, <2>1 DEF Gone, FailedSpawn, Fades, CallFades
    <3>4. \A y \in Calls : Spawner(y)' => y.to # c
      BY <2>1 DEF Gone, Spawner, Fades, CallFades
    <3>5. ASSUME c \in agents'
          PROVE  /\ Closing(Path[c])'
                 /\ \E y \in Calls : y.type = "delete" /\ y.to = c
                                     /\ Unfinished(y)'
      <4>1. PICK y \in Calls : y.type = "delete" /\ y.to = c /\ Unfinished(y)
        BY <1>0, <2>1, <3>5 DEF Gone
      <4>2. Closing(Path[c]) /\ Closing(Path[c])'
        BY <1>0, <2>1, <3>5 DEF Gone, Fades, WorkFades
      <4>3. Unfinished(y)'
        BY <3>5, <4>1 DEF Fades, CallFades
      <4> QED
        BY <4>1, <4>2, <4>3
    <3> QED
      BY <3>2, <3>3, <3>4, <3>5 DEF Gone
  <2>2. \A x \in Calls : Over(x) => Deleted(x)'
    BY <1>0, <2>1 DEF GraphInv, GoneInv, Deleted
  <2>3. \A x \in Calls : Over(x)' => Over(x) \/ Deleted(x)'
    BY DEF Over, Fades, CallFades
  <2> QED
    BY <2>2, <2>3 DEF GoneInv
<1>9. WholeInv'
  <2> SUFFICES ASSUME ready' = "yes", NEW c \in exists' \cap edges'
               PROVE  Parent[c] \in exists' \cup {Root}
    BY DEF WholeInv
  <2>1. Parent[c] \in exists \cup {Root}
    BY <1>0 DEF GraphInv, WholeInv, Fades
  <2> QED
    BY <1>0, <2>1 DEF Fades, GoesAlone
<1> QED
  BY <1>1, <1>2, <1>3, <1>4, <1>5, <1>6, <1>7, <1>8, <1>9 DEF GraphInv

\* A call goes on without creating anything, or it fails.
Moves(y) ==
  \/ y.type \notin {"spawn", "delete"} \/ op'[y] \in {op[y], "failed"}
  \/ /\ op[y] \in {"reserving", "creating"}
     /\ op'[y] \in {"creating", "discarding", "rollback", "unlinking"}
  \/ /\ op[y] \in SpawnPhases
     /\ op'[y] \in {"discarding", "rollback", "unlinking"}
  \/ op[y] \in DeletePhases /\ op'[y] \in DeletePhases
LEMMA MovesFade ==
  ASSUME CallInv, NEW y \in Calls, Moves(y)
  PROVE  CallFades(y)
BY DEF Moves, CallFades, CallInv, Fits, Running, Ended, Unfinished, Early,
       SpawnPhases, DeletePhases, Over

\* Work is taken up only by agents that are registered.
Rests(c) ==
  \/ worker[c] # "none" \/ tasks[c] # <<>> \/ Live(c)
  \/ worker'[c] = "none" /\ tasks'[c] = <<>>
LEMMA PlainKept ==
  ASSUME BaseInv, BaseInv', GraphInv,
         UNCHANGED <<exists, edges, agents, ready, found, closing>>,
         \A y \in Calls : Moves(y), \A c \in Children : Rests(c)
  PROVE  GraphInv'
<1>1. \A y \in Calls : CallFades(y)
  BY MovesFade DEF BaseInv
<1>2. \A c \in Children : WorkFades(c)
  BY DEF WorkFades, Rests, Closing
<1>3. found' = NoneFound \/ ready # "reading" \/ ready' = "reading"
  OBVIOUS
<1> QED
  BY <1>1, <1>2, <1>3, GraphFades DEF Fades

\* A message or follow-up begins.
LEMMA GraphSend ==
  ASSUME BaseInv, BaseInv', GraphInv, NEW x \in Calls, Send(x)
  PROVE  GraphInv'
<1> USE DEF SpawnFrame, SendFrame, CallFrame, WorkFrame, SessionFrame,
        WaitFrame, DeleteFrame, RestoreFrame, SessionStep, storeVars,
        turnVars, restoreVars, slotVars, workVars, mailVars, closeVars,
        history, To, Goes, Calling, Fails
<1>1. \A y \in Calls : Moves(y)
  BY DEF Send, Moves, Woken, BaseInv, CallInv, Fits
<1>2. \A c \in Children : Rests(c)
  BY Constants DEF Send, Rests, Live, BaseInv, CallInv, Fits, WorkerInv
<1> QED
  BY <1>1, <1>2, PlainKept DEF Send

\* A wait begins.
LEMMA GraphWait ==
  ASSUME BaseInv, BaseInv', GraphInv, NEW x \in Calls, Wait(x)
  PROVE  GraphInv'
<1> USE DEF SpawnFrame, SendFrame, CallFrame, WorkFrame, SessionFrame,
        WaitFrame, DeleteFrame, RestoreFrame, SessionStep, storeVars,
        turnVars, restoreVars, slotVars, workVars, mailVars, closeVars,
        history, To, Goes, Calling, Fails
<1>1. \A y \in Calls : Moves(y)
  BY DEF Wait, Drain, Started, Moves, Woken, BaseInv, CallInv, Fits
<1>2. \A c \in Children : Rests(c)
  BY Constants DEF Wait, Drain, Started, Rests, Live, BaseInv, CallInv, Fits,
     WorkerInv
<1> QED
  BY <1>1, <1>2, PlainKept DEF Wait, Drain, Started

\* A direct Turn begins.
LEMMA GraphDirect ==
  ASSUME BaseInv, BaseInv', GraphInv, NEW x \in Calls, DirectTurn(x)
  PROVE  GraphInv'
<1> USE DEF SpawnFrame, SendFrame, CallFrame, WorkFrame, SessionFrame,
        WaitFrame, DeleteFrame, RestoreFrame, SessionStep, storeVars,
        turnVars, restoreVars, slotVars, workVars, mailVars, closeVars,
        history, To, Goes, Calling, Fails
<1>1. \A y \in Calls : Moves(y)
  BY DEF DirectTurn, Moves, Woken, BaseInv, CallInv, Fits
<1>2. \A c \in Children : Rests(c)
  BY Constants DEF DirectTurn, Rests, Live, BaseInv, CallInv, Fits, WorkerInv
<1> QED
  BY <1>1, <1>2, PlainKept DEF DirectTurn

\* A follow-up shares the end of another.
LEMMA GraphJoin ==
  ASSUME BaseInv, BaseInv', GraphInv, NEW x \in Calls, JoinEnds(x)
  PROVE  GraphInv'
<1> USE DEF SpawnFrame, SendFrame, CallFrame, WorkFrame, SessionFrame,
        WaitFrame, DeleteFrame, RestoreFrame, SessionStep, storeVars,
        turnVars, restoreVars, slotVars, workVars, mailVars, closeVars,
        history, To, Goes, Calling, Fails
<1>1. \A y \in Calls : Moves(y)
  BY DEF JoinEnds, Moves, Woken, BaseInv, CallInv, Fits
<1>2. \A c \in Children : Rests(c)
  BY Constants DEF JoinEnds, Rests, Live, BaseInv, CallInv, Fits, WorkerInv
<1> QED
  BY <1>1, <1>2, PlainKept DEF JoinEnds

\* A recipient is loaded.
LEMMA GraphLoad ==
  ASSUME BaseInv, BaseInv', GraphInv, NEW x \in Calls, LoadRecipient(x)
  PROVE  GraphInv'
<1> USE DEF SpawnFrame, SendFrame, CallFrame, WorkFrame, SessionFrame,
        WaitFrame, DeleteFrame, RestoreFrame, SessionStep, storeVars,
        turnVars, restoreVars, slotVars, workVars, mailVars, closeVars,
        history, To, Goes, Calling, Fails
<1>1. \A y \in Calls : Moves(y)
  BY DEF LoadRecipient, Moves, Woken, BaseInv, CallInv, Fits, SendPhases
<1>2. \A c \in Children : Rests(c)
  BY Constants DEF LoadRecipient, Rests, Live, BaseInv, CallInv, Fits,
     WorkerInv
<1> QED
  BY <1>1, <1>2, PlainKept DEF LoadRecipient

\* A message arrives.
LEMMA GraphDeliver ==
  ASSUME BaseInv, BaseInv', GraphInv, NEW x \in Calls, DeliverMessage(x)
  PROVE  GraphInv'
<1> USE DEF SpawnFrame, SendFrame, CallFrame, WorkFrame, SessionFrame,
        WaitFrame, DeleteFrame, RestoreFrame, SessionStep, storeVars,
        turnVars, restoreVars, slotVars, workVars, mailVars, closeVars,
        history, To, Goes, Calling, Fails
<1>1. \A y \in Calls : Moves(y)
  BY DEF DeliverMessage, Arrives, Moves, Woken, BaseInv, CallInv, Fits,
     SendPhases
<1>2. \A c \in Children : Rests(c)
  BY Constants DEF DeliverMessage, Arrives, Rests, Live, BaseInv, CallInv,
     Fits, WorkerInv
<1> QED
  BY <1>1, <1>2, PlainKept DEF DeliverMessage, Arrives

\* A follow-up reaches a Session.
LEMMA GraphSteer ==
  ASSUME BaseInv, BaseInv', GraphInv, NEW x \in Calls, SteerChild(x)
  PROVE  GraphInv'
<1> USE DEF SpawnFrame, SendFrame, CallFrame, WorkFrame, SessionFrame,
        WaitFrame, DeleteFrame, RestoreFrame, SessionStep, storeVars,
        turnVars, restoreVars, slotVars, workVars, mailVars, closeVars,
        history, To, Goes, Calling, Fails
<1>1. \A y \in Calls : Moves(y)
  BY DEF SteerChild, Arrives, Moves, Woken, BaseInv, CallInv, Fits
<1>2. \A c \in Children : Rests(c)
  BY Constants DEF SteerChild, Arrives, Rests, Live, BaseInv, CallInv, Fits,
     WorkerInv
<1> QED
  BY <1>1, <1>2, PlainKept DEF SteerChild, Arrives

\* A follow-up is queued.
LEMMA GraphFollowup ==
  ASSUME BaseInv, BaseInv', GraphInv, NEW x \in Calls, StartFollowup(x)
  PROVE  GraphInv'
<1> USE DEF SpawnFrame, SendFrame, CallFrame, WorkFrame, SessionFrame,
        WaitFrame, DeleteFrame, RestoreFrame, SessionStep, storeVars,
        turnVars, restoreVars, slotVars, workVars, mailVars, closeVars,
        history, To, Goes, Calling, Fails
<1>1. \A y \in Calls : Moves(y)
  BY DEF StartFollowup, Enqueue, Started, Moves, Woken, BaseInv, CallInv,
     Fits
<1>2. \A c \in Children : Rests(c)
  BY Constants DEF StartFollowup, Enqueue, Started, Rests, Live, BaseInv,
     CallInv, Fits, WorkerInv
<1> QED
  BY <1>1, <1>2, PlainKept DEF StartFollowup, Enqueue, Started

\* A wait ends.
LEMMA GraphWaitEnds ==
  ASSUME BaseInv, BaseInv', GraphInv, NEW x \in Calls, WaitEnds(x)
  PROVE  GraphInv'
<1> USE DEF SpawnFrame, SendFrame, CallFrame, WorkFrame, SessionFrame,
        WaitFrame, DeleteFrame, RestoreFrame, SessionStep, storeVars,
        turnVars, restoreVars, slotVars, workVars, mailVars, closeVars,
        history, To, Goes, Calling, Fails
<1>1. \A y \in Calls : Moves(y)
  BY DEF WaitEnds, Drain, Moves, Woken, BaseInv, CallInv, Fits
<1>2. \A c \in Children : Rests(c)
  BY Constants DEF WaitEnds, Drain, Rests, Live, BaseInv, CallInv, Fits,
     WorkerInv
<1> QED
  BY <1>1, <1>2, PlainKept DEF WaitEnds, Drain

\* Messages have settled.
LEMMA GraphMessages ==
  ASSUME BaseInv, BaseInv', GraphInv, NEW x \in Calls, MessagesSettle(x)
  PROVE  GraphInv'
<1> USE DEF SpawnFrame, SendFrame, CallFrame, WorkFrame, SessionFrame,
        WaitFrame, DeleteFrame, RestoreFrame, SessionStep, storeVars,
        turnVars, restoreVars, slotVars, workVars, mailVars, closeVars,
        history, To, Goes, Calling, Fails
<1>1. \A y \in Calls : Moves(y)
  BY DEF MessagesSettle, Moves, Woken, BaseInv, CallInv, Fits, DeletePhases
<1>2. \A c \in Children : Rests(c)
  BY Constants DEF MessagesSettle, Rests, Live, BaseInv, CallInv, Fits,
     WorkerInv
<1> QED
  BY <1>1, <1>2, PlainKept DEF MessagesSettle

\* Tasks are dropped and Turns interrupted.
LEMMA GraphSpawns ==
  ASSUME BaseInv, BaseInv', GraphInv, NEW x \in Calls, SpawnsSettle(x)
  PROVE  GraphInv'
<1> USE DEF SpawnFrame, SendFrame, CallFrame, WorkFrame, SessionFrame,
        WaitFrame, DeleteFrame, RestoreFrame, SessionStep, storeVars,
        turnVars, restoreVars, slotVars, workVars, mailVars, closeVars,
        history, To, Goes, Calling, Fails
<1>1. \A y \in Calls : Moves(y)
  BY DEF SpawnsSettle, Moves, Woken, BaseInv, CallInv, Fits, DeletePhases
<1>2. \A c \in Children : Rests(c)
  BY Constants DEF SpawnsSettle, Rests, Live, BaseInv, CallInv, Fits,
     WorkerInv
<1> QED
  BY <1>1, <1>2, PlainKept DEF SpawnsSettle

\* A reservation is answered.
LEMMA GraphDecide ==
  ASSUME BaseInv, BaseInv', GraphInv, NEW p \in Paths, Decide(p)
  PROVE  GraphInv'
<1> USE DEF SpawnFrame, SendFrame, CallFrame, WorkFrame, SessionFrame,
        WaitFrame, DeleteFrame, RestoreFrame, SessionStep, storeVars,
        turnVars, restoreVars, slotVars, workVars, mailVars, closeVars,
        history, To, Goes, Calling, Fails
<1>1. \A y \in Calls : Moves(y)
  <2>1. PICK admitted : Answer(p, admitted)
    BY DEF Decide
  <2>2. \A y \in Calls :
          \/ op'[y] \in {op[y], "failed"}
          \/ op[y] = "waiting"
          \/ op[y] = "reserving" /\ (y.type = "spawn" => op'[y] = "creating")
    BY <2>1 DEF Answer, Woken
  <2> QED
    BY <2>2 DEF Moves, BaseInv, CallInv, Fits
<1>2. \A c \in Children : Rests(c)
  BY Constants DEF Decide, Answer, Rests, Live, BaseInv, CallInv, Fits,
     WorkerInv
<1> QED
  BY <1>1, <1>2, PlainKept DEF Decide, Answer

\* A failed worker is started again.
LEMMA GraphRetry ==
  ASSUME BaseInv, BaseInv', GraphInv, Retry
  PROVE  GraphInv'
<1> USE DEF SpawnFrame, SendFrame, CallFrame, WorkFrame, SessionFrame,
        WaitFrame, DeleteFrame, RestoreFrame, SessionStep, storeVars,
        turnVars, restoreVars, slotVars, workVars, mailVars, closeVars,
        history, To, Goes, Calling, Fails
<1>1. \A y \in Calls : Moves(y)
  BY DEF Retry, Started, Moves, Woken, BaseInv, CallInv, Fits
<1>2. \A c \in Children : Rests(c)
  BY Constants DEF Retry, Started, Rests, Live, BaseInv, CallInv, Fits,
     WorkerInv
<1> QED
  BY <1>1, <1>2, PlainKept DEF Retry, Started

\* A Turn goes on.
LEMMA GraphTurn ==
  ASSUME BaseInv, BaseInv', GraphInv, NEW c \in Children, TurnStep(c)
  PROVE  GraphInv'
<1> USE DEF SpawnFrame, SendFrame, CallFrame, WorkFrame, SessionFrame,
        WaitFrame, DeleteFrame, RestoreFrame, SessionStep, storeVars,
        turnVars, restoreVars, slotVars, workVars, mailVars, closeVars,
        history, To, Goes, Calling, Fails
<1>1. \A y \in Calls : Moves(y)
  BY DEF TurnStep, TurnTakes, TurnStops, TurnEnds, Moves, Woken, BaseInv,
     CallInv, Fits
<1>2. \A d \in Children : Rests(d)
  BY Constants DEF TurnStep, TurnTakes, TurnStops, TurnEnds, Rests, Live,
     BaseInv, CallInv, Fits, WorkerInv
<1> QED
  BY <1>1, <1>2, PlainKept DEF TurnStep, TurnTakes, TurnStops, TurnEnds

\* A worker goes on.
LEMMA GraphWork ==
  ASSUME BaseInv, BaseInv', GraphInv, NEW c \in Children, WorkerStep(c)
  PROVE  GraphInv'
<1> USE DEF SpawnFrame, SendFrame, CallFrame, WorkFrame, SessionFrame,
        WaitFrame, DeleteFrame, RestoreFrame, SessionStep, storeVars,
        turnVars, restoreVars, slotVars, workVars, mailVars, closeVars,
        history, To, Goes, Calling, Fails
<1>1. worker[c] # "none"
  BY DEF WorkerStep, NextTask, CheckTask, LaunchTask, FailTask, SettleTask,
     NameOutcome, DeliverOutcome, OutcomeDelivered, WorkerEnds
<1>2. /\ \A y \in Calls : op'[y] = op[y] \/ op[y] = "waiting"
      /\ \A d \in Children : d # c =>
           worker'[d] = worker[d] /\ tasks'[d] = tasks[d]
      /\ UNCHANGED <<exists, edges, agents, ready, found, closing>>
  BY DEF WorkerStep, NextTask, CheckTask, LaunchTask, FailTask, SettleTask,
     NameOutcome, DeliverOutcome, OutcomeDelivered, WorkerEnds, Rejects,
     Dies, Woken, BaseInv, WorkerInv
<1>3. \A y \in Calls : Moves(y)
  BY <1>2 DEF Moves, BaseInv, CallInv, Fits
<1>4. \A d \in Children : Rests(d)
  BY <1>1, <1>2 DEF Rests
<1> QED
  BY <1>2, <1>3, <1>4, PlainKept

\* What a call does that only fails, or goes on without creating anything.
LEMMA OneMoves ==
  ASSUME BaseInv, BaseInv', GraphInv, NEW x \in Calls, Moves(x),
         UNCHANGED <<exists, edges, agents, ready, found, closing, tasks,
                     worker>>,
         \A y \in Calls : y # x => op'[y] \in {op[y], "failed"}
  PROVE  GraphInv'
BY PlainKept DEF Moves, Rests

\* A spawn begins: its agent is open, so nothing of it is gone.
LEMMA GraphSpawn ==
  ASSUME OwnThreads, BaseInv, BaseInv', GraphInv, NEW x \in Calls, Spawn(x)
  PROVE  GraphInv'
<1> USE DEF SpawnFrame, SendFrame, CallFrame, WorkFrame, SessionFrame,
        WaitFrame, DeleteFrame, RestoreFrame, SessionStep, storeVars,
        turnVars, restoreVars, slotVars, workVars, mailVars, closeVars,
        history, To, Goes, Calling, Fails
<1>1. /\ UNCHANGED <<exists, edges, agents, ready, found, closing, tasks,
                     worker>>
      /\ \A y \in Calls : y # x => op'[y] = op[y]
      /\ x.type = "spawn" /\ op[x] = "unsent" /\ ready = "yes"
      /\ x.to \in Children /\ x.by = Parent[x.to]
      /\ x.to \notin exists /\ x.to \notin edges
  BY Constants, CallsAssumption DEF Spawn, BaseInv, CallInv
<1>2. CASE op'[x] = "failed"
  BY <1>1, <1>2, OneMoves DEF Moves
<1>3. CASE op'[x] # "failed"
  <2>1. /\ Live(x.by) /\ op'[x] \in {"creating", "reserving"}
        /\ x.by # x.to
    <3>1. Live(x.by) /\ op'[x] \in {"creating", "reserving"}
      BY <1>3 DEF Spawn, BaseInv, CallInv
    <3>2. x.by # x.to
      BY <1>1, ParentPath, PathsAreNames
    <3> QED
      BY <3>1, <3>2
  <2>2. x.by \in Present
    BY <2>1 DEF Live, GraphInv, LiveInv, PathOf, Present
  <2>3. x.to \notin Present
    BY <1>1, Constants DEF Present
  <2>4. SpawnInv'
    <3> SUFFICES ASSUME NEW y \in Calls, Spawner(y)'
                 PROVE  /\ y.by \in Present
                        /\ y.to \in agents => Closing(Path[y.to])
                        /\ op'[y] \in {"linking", "created"} => y.to \in exists
                        /\ op'[y] = "created" => y.to \in edges
                        /\ \A e \in edges : Parent[e] # y.to
                        /\ \A z \in Calls : Spawner(z)' => z.by # y.to
      BY <1>1 DEF SpawnInv, Present, Closing
    <3>1. CASE y = x
      <4>1. x.to \in agents => Closing(Path[x.to])
        BY <1>1, <2>3, Constants DEF GraphInv, LiveInv
      <4>2. \A e \in edges : Parent[e] # x.to
        BY <1>1, Constants DEF GraphInv, EdgeInv
      <4>3. \A z \in Calls : Spawner(z)' => z.by # x.to
        BY <1>1, <2>2, <2>3 DEF Spawner, Running, GraphInv, SpawnInv
      <4> QED
        BY <2>1, <2>2, <3>1, <4>1, <4>2, <4>3
    <3>2. CASE y # x
      <4>1. Spawner(y) /\ op'[y] = op[y] /\ y.to \in Children
        BY <1>1, <3>2, Constants DEF Spawner, Running
      <4>2. x.by # y.to
        <5>1. x.by = y.to => Closing(Path[x.by]) /\ x.by # Root
          BY <2>1, <4>1, Constants DEF GraphInv, SpawnInv, Live
        <5> QED
          BY <2>1, <5>1 DEF Live, PathOf
      <4>3. \A z \in Calls : Spawner(z)' /\ z # x => Spawner(z)
        BY <1>1 DEF Spawner, Running
      <4> QED
        BY <4>1, <4>2, <4>3 DEF GraphInv, SpawnInv
    <3> QED
      BY <3>1, <3>2
  <2>5. ASSUME NEW w \in Calls, Over(w)' PROVE Deleted(w)'
    <3>1. Over(w) /\ w.to \in Children /\ Deleted(w)
      BY <1>1, <2>5, Constants DEF Over, GraphInv, GoneInv
    <3>2. ASSUME NEW c \in Children, c = w.to \/ w.to \in Above[c], c = x.to
          PROVE  FALSE
      <4>1. CASE c = w.to
        <5>1. Spawned(x.to)
          BY <3>1, <3>2, <4>1 DEF Over, GraphInv, BornInv
        <5> QED
          BY <1>1, <5>1 DEF OwnThreads, Spawned, Early
      <4>2. CASE w.to \in Above[c]
        <5>1. /\ x.by \in Children
              /\ w.to = x.by \/ w.to \in Above[x.by]
          BY <1>1, <3>1, <3>2, <4>2, AboveParent, Constants
        <5>2. Gone(x.by)
          BY <3>1, <5>1 DEF Deleted
        <5> QED
          BY <2>1, <5>1, <5>2, Constants DEF Gone, Live
      <4> QED
        BY <3>2, <4>1, <4>2
    <3>3. ASSUME NEW c \in Children, c # x.to, Gone(c) PROVE Gone(c)'
      BY <1>1, <3>3
         DEF Gone, FailedSpawn, Spawner, Running, Closing, Unfinished
    <3> QED
      BY <1>1, <3>1, <3>2, <3>3 DEF Deleted
  <2>6. LeftInv' /\ BornInv'
    <3>1. \A y \in Calls : Unfinished(y) => Unfinished(y)'
      BY <1>1, <2>1 DEF Unfinished, Running, Ended
    <3>2. \A y \in Calls : ~Early(y) => ~Early(y)'
      BY <1>1 DEF Early
    <3> QED
      BY <1>1, <3>1, <3>2 DEF GraphInv, LeftInv, BornInv, Spawned
  <2> QED
    BY <1>1, <2>4, <2>5, <2>6
       DEF GraphInv, EdgeInv, LiveInv, Present, Closing, IdleInv, FoundInv,
           Unread, GoneInv, WholeInv
<1> QED
  BY <1>2, <1>3

\* Whoever spawns creates nothing that a deletion has removed.
LEMMA SpawnsApart ==
  ASSUME GraphInv, NEW x \in Calls, Spawner(x), NEW w \in Calls, Over(w),
         x.to \in Children
  PROVE  x.to # w.to /\ w.to \notin Above[x.to]
BY DEF GraphInv, GoneInv, Deleted, Gone

\* What a spawn changes leaves the rest that is gone as it is.
LEMMA GoneKept ==
  ASSUME GraphInv, NEW x \in Calls, Spawner(x), x.to \in Children,
         \A y \in Calls : y # x => op'[y] = op[y],
         closing' = closing,
         exists' \subseteq exists \cup {x.to},
         edges' \subseteq edges \cup {x.to},
         agents' \subseteq agents \cup {x.to},
         \A c \in Children : c # x.to =>
           worker'[c] = worker[c] /\ tasks'[c] = tasks[c],
         \A w \in Calls : w.type = "delete" => w.to \in Children
  PROVE  GoneInv'
<1>1. ASSUME NEW w \in Calls, Over(w)' PROVE Deleted(w)'
  <2>1. /\ Over(w) /\ Deleted(w) /\ w.to # x.to /\ w.to \notin Above[x.to]
        /\ w.to \in Children
    <3>1. w # x /\ w.type = "delete"
      BY <1>1 DEF Over, Spawner
    <3>2. Over(w)
      BY <1>1, <3>1 DEF Over
    <3> QED
      BY <3>1, <3>2, SpawnsApart DEF GraphInv, GoneInv
  <2>2. ASSUME NEW c \in Children, c # x.to, Gone(c) PROVE Gone(c)'
    <3>1. \A y \in Calls : y.to = c => op'[y] = op[y]
      BY <2>2
    <3> QED
      BY <2>2, <3>1
         DEF Gone, FailedSpawn, Spawner, Running, Closing, Unfinished
  <2> QED
    BY <2>1, <2>2 DEF Deleted
<1> QED
  BY <1>1 DEF GoneInv

\* A thread is created.
LEMMA GraphCreate ==
  ASSUME BaseInv, BaseInv', GraphInv, NEW x \in Calls, CreateThread(x)
  PROVE  GraphInv'
<1> USE DEF SpawnFrame, SendFrame, CallFrame, WorkFrame, SessionFrame,
        WaitFrame, DeleteFrame, RestoreFrame, SessionStep, storeVars,
        turnVars, restoreVars, slotVars, workVars, mailVars, closeVars,
        history, To, Goes, Calling, Fails
<1>1. /\ x.type = "spawn" /\ Spawner(x) /\ x.to \in Children
      /\ x.by = Parent[x.to] /\ op[x] = "creating"
      /\ UNCHANGED <<edges, agents, ready, found, closing, tasks, worker>>
      /\ \A y \in Calls : y # x => op'[y] = op[y]
  BY Constants, CallsAssumption
     DEF CreateThread, SpawnEnds, BaseInv, CallInv, Fits, SpawnPhases,
         Spawner, Running, Ended
<1>2. CASE op'[x] # "linking"
  BY <1>1, <1>2, OneMoves
     DEF CreateThread, SpawnEnds, Moves, BaseInv, CallInv
<1>3. CASE op'[x] = "linking"
  <2>1. exists' = exists \cup {x.to}
    BY <1>3 DEF CreateThread, SpawnEnds, BaseInv, CallInv
  <2>2. /\ \A y \in Calls : Spawner(y)' <=> Spawner(y)
        /\ \A y \in Calls : Unfinished(y)' <=> Unfinished(y)
        /\ \A y \in Calls : ~Early(y) => ~Early(y)'
    BY <1>1, <1>3 DEF Spawner, Running, Ended, Unfinished, Early
  <2>3. Present \subseteq Present'
    BY <1>1, <2>1 DEF Present
  <2>4. SpawnInv'
    <3> SUFFICES ASSUME NEW y \in Calls, Spawner(y)
                 PROVE  /\ y.by \in Present'
                        /\ y.to \in agents => Closing(Path[y.to])
                        /\ op'[y] \in {"linking", "created"} => y.to \in exists'
                        /\ op'[y] = "created" => y.to \in edges
                        /\ \A e \in edges : Parent[e] # y.to
                        /\ \A z \in Calls : Spawner(z) => z.by # y.to
      BY <1>1, <2>2 DEF SpawnInv, Closing
    <3> QED
      BY <1>1, <1>3, <2>1, <2>3 DEF GraphInv, SpawnInv
  <2>5. LeftInv'
    BY <1>1, <2>1, <2>2 DEF GraphInv, LeftInv, Unfinished, Spawner
  <2>6. BornInv'
    <3>1. Spawned(x.to)'
      BY <1>1, <1>3 DEF Spawned, Early
    <3> QED
      BY <1>1, <2>1, <2>2, <3>1 DEF GraphInv, BornInv, Spawned
  <2>7. GoneInv'
    BY <1>1, <2>1, GoneKept, Constants
  <2>8. WholeInv'
    <3>1. x.by \in Present
      BY <1>1 DEF GraphInv, SpawnInv
    <3> QED
      BY <1>1, <2>1, <3>1 DEF GraphInv, WholeInv, Present
  <2> QED
    BY <1>1, <2>3, <2>4, <2>5, <2>6, <2>7, <2>8
       DEF GraphInv, EdgeInv, LiveInv, Closing, IdleInv, FoundInv, Unread
<1> QED
  BY <1>2, <1>3

\* An edge is recorded.
LEMMA GraphLink ==
  ASSUME BaseInv, BaseInv', GraphInv, NEW x \in Calls, LinkThread(x)
  PROVE  GraphInv'
<1> USE DEF SpawnFrame, SendFrame, CallFrame, WorkFrame, SessionFrame,
        WaitFrame, DeleteFrame, RestoreFrame, SessionStep, storeVars,
        turnVars, restoreVars, slotVars, workVars, mailVars, closeVars,
        history, To, Goes, Calling, Fails
<1>1. /\ x.type = "spawn" /\ Spawner(x) /\ x.to \in Children
      /\ x.by = Parent[x.to] /\ op[x] = "linking"
      /\ UNCHANGED <<exists, agents, ready, found, closing, tasks, worker>>
      /\ \A y \in Calls : y # x => op'[y] = op[y]
  BY Constants, CallsAssumption
     DEF LinkThread, BaseInv, CallInv, Fits, SpawnPhases, Spawner, Running,
         Ended
<1>2. CASE op'[x] # "created"
  BY <1>1, <1>2, OneMoves DEF LinkThread, Moves, SpawnPhases, BaseInv, CallInv
<1>3. CASE op'[x] = "created"
  <2>1. edges' = edges \cup {x.to}
    BY <1>3 DEF LinkThread, BaseInv, CallInv
  <2>2. /\ \A y \in Calls : Spawner(y)' <=> Spawner(y)
        /\ \A y \in Calls : Unfinished(y)' <=> Unfinished(y)
        /\ \A y \in Calls : ~Early(y) => ~Early(y)'
    BY <1>1, <1>3 DEF Spawner, Running, Ended, Unfinished, Early
  <2>3. Present \subseteq Present'
    BY <1>1, <2>1 DEF Present
  <2>4. x.by \in Present /\ x.to \in exists
    BY <1>1 DEF GraphInv, SpawnInv
  <2>5. EdgeInv'
    BY <1>1, <2>1, <2>4 DEF GraphInv, EdgeInv, Present
  <2>6. SpawnInv'
    <3> SUFFICES ASSUME NEW y \in Calls, Spawner(y)
                 PROVE  /\ y.by \in Present'
                        /\ y.to \in agents => Closing(Path[y.to])
                        /\ op'[y] \in {"linking", "created"} => y.to \in exists
                        /\ op'[y] = "created" => y.to \in edges'
                        /\ \A e \in edges' : Parent[e] # y.to
                        /\ \A z \in Calls : Spawner(z) => z.by # y.to
      BY <1>1, <2>2 DEF SpawnInv, Closing
    <3>1. x.by # y.to
      BY <1>1 DEF GraphInv, SpawnInv
    <3> QED
      BY <1>1, <2>1, <2>3, <2>4, <3>1 DEF GraphInv, SpawnInv
  <2>7. LeftInv'
    BY <1>1, <2>1, <2>2 DEF GraphInv, LeftInv
  <2>8. FoundInv'
    <3>1. ready = "yes"
      BY <1>1 DEF BaseInv, ReadyInv, Spawner
    <3>2. found' = NoneFound
      BY <1>1, <3>1 DEF GraphInv, FoundInv
    <3> QED
      BY <3>2 DEF FoundInv, NoneFound
  <2>9. BornInv'
    <3>1. Spawned(x.to)'
      BY <1>1, <1>3 DEF Spawned, Early
    <3> QED
      BY <1>1, <2>1, <2>2, <3>1 DEF GraphInv, BornInv, Spawned
  <2>10. GoneInv'
    BY <1>1, <2>1, GoneKept, Constants
  <2>11. WholeInv'
    BY <1>1, <2>1, <2>4 DEF GraphInv, WholeInv, Present
  <2> QED
    BY <1>1, <2>3, <2>5, <2>6, <2>7, <2>8, <2>9, <2>10, <2>11
       DEF GraphInv, LiveInv, Closing, IdleInv
<1> QED
  BY <1>2, <1>3

\* A child is registered.
LEMMA GraphRegister ==
  ASSUME OwnThreads, BaseInv, BaseInv', GraphInv, NEW x \in Calls,
         RegisterChild(x)
  PROVE  GraphInv'
<1> USE DEF SpawnFrame, SendFrame, CallFrame, WorkFrame, SessionFrame,
        WaitFrame, DeleteFrame, RestoreFrame, SessionStep, storeVars,
        turnVars, restoreVars, slotVars, workVars, mailVars, closeVars,
        history, To, Goes, Calling, Fails
<1>1. /\ x.type = "spawn" /\ Spawner(x) /\ x.to \in Children
      /\ op[x] = "created"
      /\ UNCHANGED <<exists, edges, ready, found, closing>>
      /\ \A y \in Calls : y # x => op'[y] = op[y]
  BY Constants
     DEF RegisterChild, BaseInv, CallInv, Fits, SpawnPhases, Spawner, Running,
         Ended
<1>2. CASE op'[x] # "done"
  BY <1>1, <1>2, OneMoves
     DEF RegisterChild, Moves, SpawnPhases, BaseInv, CallInv
<1>3. CASE op'[x] = "done"
  <2>1. /\ agents' = agents \cup {x.to}
        /\ \A c \in Children : c # x.to =>
             worker'[c] = worker[c] /\ tasks'[c] = tasks[c]
    BY <1>3 DEF RegisterChild, Enqueue, Started, BaseInv, CallInv, WorkerInv
  <2>2. /\ \A y \in Calls : Spawner(y)' <=> Spawner(y) /\ y # x
        /\ \A y \in Calls : y # x => (Unfinished(y)' <=> Unfinished(y))
        /\ \A y \in Calls : ~Early(y) => ~Early(y)'
    BY <1>1, <1>3 DEF Spawner, Running, Ended, Unfinished, Early
  <2>3. x.to \in exists /\ x.to \in edges
    BY <1>1 DEF GraphInv, SpawnInv
  <2>4. SpawnInv'
    <3> SUFFICES ASSUME NEW y \in Calls, Spawner(y), y # x
                 PROVE  /\ y.by \in Present
                        /\ y.to \in agents' => Closing(Path[y.to])
                        /\ op[y] \in {"linking", "created"} => y.to \in exists
                        /\ op[y] = "created" => y.to \in edges
                        /\ \A e \in edges : Parent[e] # y.to
                        /\ \A z \in Calls : Spawner(z) => z.by # y.to
      BY <1>1, <2>2 DEF SpawnInv, Closing, Present
    <3>1. y.to # x.to
      BY <1>1 DEF OwnThreads, Spawner
    <3> QED
      BY <2>1, <3>1 DEF GraphInv, SpawnInv
  <2>5. LiveInv'
    BY <1>1, <2>1, <2>3 DEF GraphInv, LiveInv, Present, Closing
  <2>6. LeftInv'
    BY <1>1, <2>2, <2>3 DEF GraphInv, LeftInv
  <2>7. BornInv'
    BY <1>1, <2>2 DEF GraphInv, BornInv, Spawned
  <2>8. GoneInv'
    BY <1>1, <2>1, GoneKept, Constants
  <2> QED
    BY <1>1, <2>1, <2>4, <2>5, <2>6, <2>7, <2>8
       DEF GraphInv, EdgeInv, IdleInv, FoundInv, Unread, Present, WholeInv
<1> QED
  BY <1>2, <1>3

\* A spawn is undone: nothing is below its child.
LEMMA SpawnUndone ==
  ASSUME OwnThreads, BaseInv, BaseInv', GraphInv, NEW x \in Calls, Spawner(x),
         x.to \in Children, op[x] \in SpawnPhases,
         op'[x] \in {"failed", "unlinking"},
         \A y \in Calls : y # x => op'[y] = op[y],
         UNCHANGED <<agents, ready, found, closing, tasks, worker>>,
         exists' \in {exists, exists \ {x.to}},
         edges' \in {edges, edges \ {x.to}},
         edges' # edges => op'[x] = "failed"
  PROVE  GraphInv'
<1>1. /\ x.to \in agents => Closing(Path[x.to])
      /\ \A e \in edges : Parent[e] # x.to
      /\ \A z \in Calls : Spawner(z) => z.by # x.to
  BY DEF GraphInv, SpawnInv
<1>2. \A y \in Calls : CallFades(y)
  <2>1. \A y \in Calls : Moves(y)
    BY DEF Moves, Spawner
  <2> QED
    BY <2>1, MovesFade DEF BaseInv
<1>3. \A c \in Children : WorkFades(c)
  BY DEF WorkFades, Closing
<1>4. ready = "yes" /\ found = NoneFound
  BY DEF Spawner, BaseInv, ReadyInv, GraphInv, FoundInv
<1>5. ASSUME NEW d \in (exists \ exists') \cup (edges \ edges')
      PROVE  GoesAlone(d)
  <2>1. d = x.to
    OBVIOUS
  <2>2. d \in exists' => FailedSpawn(d)'
    BY <2>1 DEF FailedSpawn, Spawner
  <2>3. \A z \in Calls : Spawner(z)' => z.by # d
    BY <1>1, <1>2, <2>1 DEF CallFades, Spawner
  <2>4. \A y \in Calls : y.type = "spawn" /\ y.to = d =>
          op'[y] \notin {"linking", "created"}
    BY <2>1 DEF OwnThreads, Spawner
  <2>5. found'[d] = 0 /\ (d \in agents' => Closing(Path[d])')
    BY <1>1, <1>4, <2>1 DEF NoneFound, Closing
  <2> QED
    BY <1>1, <2>1, <2>2, <2>3, <2>4, <2>5 DEF GoesAlone
<1> QED
  BY <1>2, <1>3, <1>4, <1>5, GraphFades DEF Fades

\* A thread is discarded.
LEMMA GraphDiscard ==
  ASSUME OwnThreads, BaseInv, BaseInv', GraphInv, NEW x \in Calls,
         DiscardChild(x)
  PROVE  GraphInv'
<1> USE DEF SpawnFrame, SendFrame, CallFrame, WorkFrame, SessionFrame,
        WaitFrame, DeleteFrame, RestoreFrame, SessionStep, storeVars,
        turnVars, restoreVars, slotVars, workVars, mailVars, closeVars,
        history, To, Goes, Calling, Fails
<1>1. /\ Spawner(x) /\ x.to \in Children /\ op[x] \in SpawnPhases
      /\ op'[x] = "failed" /\ \A y \in Calls : y # x => op'[y] = op[y]
      /\ UNCHANGED <<edges, agents, ready, found, closing, tasks, worker>>
      /\ exists' \in {exists, exists \ {x.to}}
  BY Constants
     DEF DiscardChild, SpawnEnds, BaseInv, CallInv, SpawnPhases, Spawner,
         Running, Ended
<1> QED
  BY <1>1, SpawnUndone

\* A thread is rolled back.
LEMMA GraphRollback ==
  ASSUME OwnThreads, BaseInv, BaseInv', GraphInv, NEW x \in Calls,
         RollbackChild(x)
  PROVE  GraphInv'
<1> USE DEF SpawnFrame, SendFrame, CallFrame, WorkFrame, SessionFrame,
        WaitFrame, DeleteFrame, RestoreFrame, SessionStep, storeVars,
        turnVars, restoreVars, slotVars, workVars, mailVars, closeVars,
        history, To, Goes, Calling, Fails
<1>1. /\ Spawner(x) /\ x.to \in Children /\ op[x] \in SpawnPhases
      /\ UNCHANGED <<agents, ready, found, closing, tasks, worker>>
  BY Constants
     DEF RollbackChild, BaseInv, CallInv, Fits, SpawnPhases, Spawner, Running,
         Ended
<1>2. CASE RollbackFails(x) /\ UNCHANGED <<exists, edges>>
  <2>1. \A y \in Calls : op'[y] \in {op[y], "failed"}
    BY <1>2 DEF RollbackFails
  <2> QED
    BY <1>1, <1>2, <2>1, OneMoves DEF Moves
<1>3. CASE ~(RollbackFails(x) /\ UNCHANGED <<exists, edges>>)
  <2>1. /\ op'[x] \in {"failed", "unlinking"}
        /\ \A y \in Calls : y # x => op'[y] = op[y]
        /\ exists' \in {exists, exists \ {x.to}}
        /\ edges' \in {edges, edges \ {x.to}}
        /\ edges' # edges => op'[x] = "failed"
    BY <1>3 DEF RollbackChild, SpawnEnds, BaseInv, CallInv
  <2> QED
    BY <1>1, <2>1, SpawnUndone
<1> QED
  BY <1>2, <1>3

\* A deletion begins: a child that a failed spawn has left is registered again.
LEMMA GraphDelete ==
  ASSUME DeletionsApart', BaseInv, BaseInv', GraphInv, NEW x \in Calls, Delete(x)
  PROVE  GraphInv'
<1> USE DEF SpawnFrame, SendFrame, CallFrame, WorkFrame, SessionFrame,
        WaitFrame, DeleteFrame, RestoreFrame, SessionStep, storeVars,
        turnVars, restoreVars, slotVars, workVars, mailVars, closeVars,
        history, To, Goes, Calling, Fails
<1>1. /\ x.type = "delete" /\ x.to \in Children /\ x.to \in exists
      /\ op[x] = "unsent"
      /\ UNCHANGED <<exists, edges, ready, found, tasks, worker>>
  <2>1. x.type = "delete" /\ op[x] = "unsent"
    BY DEF Delete
  <2>2. x.to \in Children
    BY <2>1, Constants
  <2>3. UNCHANGED <<exists, edges, ready, found, tasks, worker>>
    BY DEF Delete
  <2>4. x.to \in exists
    BY DEF Delete, DeletionsApart, BaseInv, CallInv
  <2> QED
    BY <2>1, <2>2, <2>3, <2>4
<1>2. CASE Taken(x.to)
  <2>1. op' = [op EXCEPT ![x] = "failed"] /\ UNCHANGED <<agents, closing>>
    BY <1>1, <1>2, Zenon DEF Delete
  <2> QED
    BY <1>1, <2>1, OneMoves DEF Moves, BaseInv, CallInv
<1>3. CASE ~Taken(x.to)
  <2>1. /\ agents' = agents \cup {x.to}
        /\ closing' = closing \cup {Path[x.to]}
        /\ op'[x] = "messages"
        /\ \A y \in Calls : y # x => op'[y] = op[y] \/ y.type = "wait"
    <3>1. /\ agents' = agents \cup {x.to}
          /\ closing' = closing \cup {Path[x.to]}
          /\ op' = Woken([op EXCEPT ![x] = "messages"], Below(x))
      BY <1>1, <1>3, Zenon DEF Delete
    <3> QED
      BY <1>1, <3>1 DEF Woken, BaseInv, CallInv, Fits
  <2>2. /\ \A y \in Calls : Spawner(y)' <=> Spawner(y)
        /\ \A y \in Calls : y.type = "spawn" => op'[y] = op[y]
        /\ \A y \in Calls : y.type = "delete" /\ Unfinished(y) => Unfinished(y)'
        /\ \A y \in Calls : Over(y)' <=> Over(y)
        /\ Unfinished(x)'
    BY <1>1, <2>1 DEF Spawner, Running, Ended, Unfinished, Over
  <2>3. \A c \in Children : Closing(Path[c]) => Closing(Path[c])'
    BY <2>1 DEF Closing
  <2>4. Closing(Path[x.to])'
    <3>1. IsPrefix(Path[x.to], Path[x.to])
      BY <1>1, PathsAreNames DEF IsPrefix
    <3> QED
      BY <2>1, <3>1 DEF Closing
  <2>5. SpawnInv'
    <3> SUFFICES ASSUME NEW y \in Calls, Spawner(y)
                 PROVE  /\ y.by \in Present
                        /\ y.to \in agents' => Closing(Path[y.to])'
                        /\ op'[y] \in {"linking", "created"} => y.to \in exists
                        /\ op'[y] = "created" => y.to \in edges
                        /\ \A e \in edges : Parent[e] # y.to
                        /\ \A z \in Calls : Spawner(z) => z.by # y.to
      BY <1>1, <2>2 DEF SpawnInv, Present
    <3>1. y.to \in Children /\ y.type = "spawn"
      BY Constants DEF Spawner
    <3> QED
      BY <2>1, <2>2, <2>3, <2>4, <3>1 DEF GraphInv, SpawnInv
  <2>6. LiveInv'
    BY <1>1, <2>1, <2>3, <2>4, Constants
       DEF GraphInv, LiveInv, Present, BaseInv, WorkerInv
  <2>7. LeftInv'
    BY <1>1, <2>2 DEF GraphInv, LeftInv, Unfinished, Running
  <2>8. BornInv'
    <3>1. Spawned(x.to)
      BY <1>1 DEF GraphInv, BornInv
    <3>2. \A c : Spawned(c) => Spawned(c)'
      BY <2>2 DEF Spawned, Early
    <3> QED
      BY <1>1, <2>1, <3>1, <3>2 DEF GraphInv, BornInv
  <2>9. GoneInv'
    <3>1. ASSUME NEW c \in Children, Gone(c) PROVE Gone(c)'
      <4>1. c \in exists => FailedSpawn(c)'
        BY <2>2, <3>1 DEF Gone, FailedSpawn
      <4>2. c \in agents' =>
              /\ Closing(Path[c])'
              /\ \E y \in Calls : y.type = "delete" /\ y.to = c
                                  /\ Unfinished(y)'
        BY <1>1, <2>1, <2>2, <2>3, <2>4, <3>1 DEF Gone
      <4> QED
        BY <1>1, <2>2, <3>1, <4>1, <4>2 DEF Gone
    <3> QED
      BY <1>1, <2>2, <3>1 DEF GraphInv, GoneInv, Deleted
  <2> QED
    BY <1>1, <2>1, <2>5, <2>6, <2>7, <2>8, <2>9
       DEF GraphInv, EdgeInv, IdleInv, FoundInv, Unread, Present, WholeInv
<1> QED
  BY <1>2, <1>3

\* A subtree leaves the registry.
LEMMA GraphUnregister ==
  ASSUME BaseInv, BaseInv', WorkInv, GraphInv, NEW x \in Calls, Unregister(x)
  PROVE  GraphInv'
<1> USE DEF SpawnFrame, SendFrame, CallFrame, WorkFrame, SessionFrame,
        WaitFrame, DeleteFrame, RestoreFrame, SessionStep, storeVars,
        turnVars, restoreVars, slotVars, workVars, mailVars, closeVars,
        history, To, Goes, Calling, Fails
<1>1. /\ UNCHANGED <<exists, edges, ready, found, closing, worker>>
      /\ agents' = agents \ Subtree(x)
      /\ \A c \in Children :
           tasks'[c] = IF c \in Subtree(x) THEN <<>> ELSE tasks[c]
  <2>1. UNCHANGED <<exists, edges, ready, found, closing, worker>>
    BY DEF Unregister
  <2>2. Subtree(x) \subseteq listed[x]
    BY DEF Unregister, WorkInv, CloseInv, DeleteInv
  <2> QED
    BY <2>1, <2>2, AllUnregistered
<1>2. \A y \in Calls : Moves(y)
  BY DEF Unregister, Moves, Woken, DeletePhases, BaseInv, CallInv, Fits
<1>3. \A y \in Calls : CallFades(y)
  BY <1>2, MovesFade DEF BaseInv
<1>4. \A c \in Children : WorkFades(c)
  BY <1>1 DEF WorkFades, Closing
<1> QED
  BY <1>1, <1>3, <1>4, GraphFades DEF Fades

\* What a deletion removes next is below it, and what is below it is not
\* registered or being spawned.
LEMMA NextRests ==
  ASSUME BaseInv, WorkInv, EdgeInv, NEW x \in Calls, op[x] = "removing",
         NEW d \in NextRemoved(x.to)
  PROVE  /\ x.type = "delete" /\ x.to \in Children /\ d \in Children
         /\ IsPrefix(Path[x.to], Path[d]) /\ d \notin agents
         /\ \A e \in edges : Parent[e] # d /\ (d = x.to => d \notin Above[e])
         /\ \A z \in Calls : Spawner(z) => z.by # d /\ z.to # d
<1>1. x.type = "delete" /\ x.to \in Children
  BY Constants DEF BaseInv, CallInv, Fits, DeletePhases, SendPhases, SpawnPhases
<1>2. d \in Children /\ (d = x.to \/ x.to \in Above[d])
  BY <1>1, NextRemovedFacts DEF BaseInv
<1>3. IsPrefix(Path[x.to], Path[d])
  <2>1. IsPrefix(Path[x.to], Path[x.to])
    BY <1>1, PathsAreNames DEF IsPrefix
  <2> QED
    BY <1>1, <1>2, <2>1, AbovePaths, Constants
<1>4. /\ Quiet(Path[x.to])
      /\ \A c \in agents \ {Root} : ~Under(c, Path[x.to])
  BY DEF WorkInv, CloseInv, DeleteInv
<1>5. d \notin agents
  BY <1>2, <1>3, <1>4, Constants DEF Under
<1>6. ASSUME NEW e \in edges
      PROVE  Parent[e] # d /\ (d = x.to => d \notin Above[e])
  BY <1>1, NextIsLowest DEF BaseInv
<1>7. ASSUME NEW z \in Calls, Spawner(z) PROVE z.by # d /\ z.to # d
  <2>1. /\ z.to \in Children /\ z.by = Parent[z.to]
        /\ ~IsPrefix(Path[x.to], Path[z.to])
    BY <1>4, <1>7, Constants, CallsAssumption DEF Spawner, Quiet, Under
  <2>2. ASSUME z.by = d PROVE FALSE
    <3>1. IsPrefix(Path[d], Path[z.to])
      BY <1>2, <2>1, <2>2, ParentPath
    <3> QED
      BY <1>1, <1>2, <1>3, <2>1, <3>1, PrefixTransitive
  <2> QED
    BY <1>3, <2>1, <2>2
<1> QED
  BY <1>1, <1>2, <1>3, <1>5, <1>6, <1>7

\* The deletion that removes its own thread has left nothing below it.
LEMMA DeletedNow ==
  ASSUME BaseInv, WorkInv, GraphInv, NEW x \in Calls, op[x] = "removing",
         x.to \in NextRemoved(x.to), x.to \notin exists
  PROVE  \A c \in Children : c = x.to \/ x.to \in Above[c] =>
           /\ c # x.to => c \notin edges
           /\ worker[c] = "none" /\ tasks[c] = <<>> /\ c \notin agents
           /\ c \in exists => FailedSpawn(c)
           /\ \A y \in Calls : Spawner(y) => y.to # c
<1> TAKE c \in Children
<1> SUFFICES ASSUME c = x.to \/ x.to \in Above[c]
             PROVE  /\ c # x.to => c \notin edges
                    /\ worker[c] = "none" /\ tasks[c] = <<>> /\ c \notin agents
                    /\ c \in exists => FailedSpawn(c)
                    /\ \A y \in Calls : Spawner(y) => y.to # c
  OBVIOUS
<1>1. /\ x.to \in Children /\ IsPrefix(Path[x.to], Path[x.to])
      /\ \A e \in edges : x.to \notin Above[e]
  BY NextRests DEF GraphInv
<1>2. IsPrefix(Path[x.to], Path[c])
  BY <1>1, AbovePaths, Constants
<1>3. /\ Quiet(Path[x.to])
      /\ \A b \in agents \ {Root} : ~Under(b, Path[x.to])
  BY DEF WorkInv, CloseInv, DeleteInv
<1>4. c \notin agents
  BY <1>2, <1>3, Constants DEF Under
<1>5. worker[c] = "none" /\ tasks[c] = <<>>
  BY <1>4 DEF BaseInv, PlaceInv, GraphInv, IdleInv
<1>6. \A y \in Calls : Spawner(y) => y.to # c
  BY <1>2, <1>3, Constants DEF Quiet, Under
<1>7. c # x.to => c \notin edges
  BY <1>1
<1>8. c \in exists => FailedSpawn(c)
  <2>1. ASSUME c \in exists, NEW y \in Calls, y.type = "spawn", y.to = c,
               Unfinished(y)
        PROVE  op[y] = "failed"
    BY <1>6, <2>1 DEF Unfinished, Spawner
  <2> QED
    BY <1>7, <2>1 DEF GraphInv, LeftInv, FailedSpawn
<1> QED
  BY <1>4, <1>5, <1>6, <1>7, <1>8

\* A deletion removes a thread, deepest first.
LEMMA GraphRemove ==
  ASSUME DeletionsApart, BaseInv, BaseInv', WorkInv, GraphInv,
         NEW x \in Calls, RemoveNext(x)
  PROVE  GraphInv'
<1> USE DEF SpawnFrame, SendFrame, CallFrame, WorkFrame, SessionFrame,
        WaitFrame, DeleteFrame, RestoreFrame, SessionStep, storeVars,
        turnVars, restoreVars, slotVars, workVars, mailVars, closeVars,
        history, To, Goes, Calling, Fails
<1>1. /\ x.type = "delete" /\ x.to \in Children /\ op[x] = "removing"
      /\ UNCHANGED <<agents, ready, found, tasks, worker>>
      /\ \A y \in Calls : y # x => op'[y] = op[y]
      /\ ready = "yes" /\ found = NoneFound
  <2>1. op[x] = "removing"
    BY DEF RemoveNext, DeletionsApart
  <2>2. x.type = "delete" /\ x.to \in Children
    BY <2>1, Constants DEF BaseInv, CallInv, Fits, DeletePhases
  <2>3. /\ UNCHANGED <<agents, ready, found, tasks, worker>>
        /\ \A y \in Calls : y # x => op'[y] = op[y]
    BY DEF RemoveNext, RemoveRollout, RemoveEdges, BaseInv, CallInv
  <2>4. ready = "yes" /\ found = NoneFound
    BY <2>1 DEF BaseInv, ReadyInv, Running, Ended, GraphInv, FoundInv
  <2> QED
    BY <2>1, <2>2, <2>3, <2>4
<1>2. CASE /\ op' = [op EXCEPT ![x] = "failed"]
           /\ UNCHANGED <<exists, edges, closing>>
  BY <1>1, <1>2, OneMoves DEF Moves, BaseInv, CallInv
<1>3. ASSUME NEW d \in NextRemoved(x.to),
             \/ d \in exists /\ RemoveRollout(d) /\ UNCHANGED op
             \/ /\ d \notin exists /\ RemoveEdges(d)
                /\ op' = [op EXCEPT ![x] = IF d = x.to THEN "done" ELSE "removing"]
      PROVE  GraphInv'
  <2>1. /\ d \in Children /\ IsPrefix(Path[x.to], Path[d]) /\ d \notin agents
        /\ \A e \in edges : Parent[e] # d
        /\ \A z \in Calls : Spawner(z) => z.by # d /\ z.to # d
    BY <1>1, NextRests DEF GraphInv
  <2>2. /\ \/ exists' = exists \ {d} /\ edges' = edges
           \/ exists' = exists /\ d \notin exists /\ edges' = edges \ {d}
        /\ \A p \in closing \ closing' : p = Path[d]
    BY <1>3, <2>1 DEF RemoveRollout, RemoveEdges
  <2>3. \/ op'[x] = "removing"
        \/ /\ op'[x] = "done" /\ d = x.to /\ x.to \notin exists
           /\ edges' = edges \ {x.to} /\ exists' = exists
    BY <1>1, <1>3, <2>1 DEF RemoveEdges, BaseInv, CallInv
  <2>4. GoesAlone(d)
    <3>1. \A y \in Calls : y.type = "spawn" => op'[y] = op[y]
      BY <1>1
    <3>2. \A y \in Calls : y.type = "spawn" /\ y.to = d =>
            op[y] \notin {"linking", "created"}
      BY <2>1 DEF Spawner, Running, Ended
    <3>3. \A z \in Calls : Spawner(z)' => z.by # d
      BY <2>1, <3>1 DEF Spawner, Running
    <3>4. found'[d] = 0
      BY <1>1, <2>1 DEF NoneFound
    <3>5. d \notin exists'
      BY <2>2
    <3> QED
      BY <1>1, <2>1, <3>1, <3>2, <3>3, <3>4, <3>5 DEF GoesAlone
  <2>5. \A c \in Children : WorkFades(c)
    <3>1. ASSUME NEW c \in Children, c \in agents, Closing(Path[c])
          PROVE  Closing(Path[c])'
      <4>1. PICK p \in closing : IsPrefix(p, Path[c])
        BY <3>1 DEF Closing
      <4>2. p # Path[d]
        <5>1. ~IsPrefix(Path[x.to], Path[c])
          BY <1>1, <3>1, Constants DEF WorkInv, CloseInv, DeleteInv, Under
        <5> QED
          BY <1>1, <2>1, <3>1, <4>1, <5>1, PrefixTransitive
      <4> QED
        BY <2>2, <4>1, <4>2 DEF Closing
    <3> QED
      BY <1>1, <3>1 DEF WorkFades
  <2>6. ASSUME op'[x] = "done" PROVE Deleted(x)'
    <3>1. x.to \in NextRemoved(x.to) /\ x.to \notin exists
      BY <2>3, <2>6
    <3>2. ASSUME NEW c \in Children, c = x.to \/ x.to \in Above[c]
          PROVE  Gone(c)'
      <4>1. /\ c # x.to => c \notin edges
            /\ worker[c] = "none" /\ tasks[c] = <<>> /\ c \notin agents
            /\ c \in exists => FailedSpawn(c)
            /\ \A y \in Calls : Spawner(y) => y.to # c
        BY <1>1, <3>1, <3>2, DeletedNow
      <4>2. c \in exists' => FailedSpawn(c)'
        BY <1>1, <2>2, <4>1 DEF FailedSpawn
      <4>3. \A y \in Calls : Spawner(y)' => y.to # c
        BY <1>1, <4>1 DEF Spawner, Running
      <4> QED
        BY <1>1, <2>3, <2>6, <4>1, <4>2, <4>3 DEF Gone
    <3> QED
      BY <2>3, <2>6, <3>2 DEF Deleted
  <2>7. CallFades(x)
    <3>1. op'[x] = "done" => x.to \notin agents'
      BY <1>1, <2>1, <2>3
    <3> QED
      BY <1>1, <2>3, <2>6, <3>1
         DEF CallFades, Unfinished, Running, Ended, Over
  <2>8. \A y \in Calls : CallFades(y)
    <3>1. \A y \in Calls : y # x => Moves(y)
      BY <1>1 DEF Moves
    <3> QED
      BY <2>7, <3>1, MovesFade DEF BaseInv
  <2> QED
    BY <1>1, <2>2, <2>4, <2>5, <2>8, GraphFades DEF Fades
<1> QED
  BY <1>1, <1>2, <1>3 DEF RemoveNext

\* While the tree is restored nothing is registered or on its way.
LEMMA Restoring ==
  ASSUME BaseInv, ready # "yes", UNCHANGED <<op, agents>>
  PROVE  /\ \A y \in Calls : ~Spawner(y) /\ ~Spawner(y)'
         /\ \A c \in Children : c \notin agents /\ c \notin agents'
         /\ \A y \in Calls : CallFades(y)
<1>1. \A y \in Calls : Moves(y)
  BY DEF Moves
<1> QED
  BY <1>1, MovesFade, Constants DEF BaseInv, ReadyInv, Spawner, Running

\* A restore drops what is left of a thread.
LEMMA RestoreFades ==
  ASSUME BaseInv, BaseInv', GraphInv, ready # "yes", ready' # "yes",
         UNCHANGED <<op, agents, tasks, worker>>,
         exists' \subseteq exists, edges' \subseteq edges,
         \A d \in (exists \ exists') \cup (edges \ edges') :
           d \notin exists' /\ found'[d] = 0 /\ \A e \in edges : Parent[e] # d,
         \/ found' = NoneFound
         \/ found' = found /\ (ready' = "reading" \/ ready # "reading")
  PROVE  GraphInv'
<1>1. /\ \A y \in Calls : ~Spawner(y) /\ ~Spawner(y)'
      /\ \A c \in Children : c \notin agents /\ c \notin agents'
      /\ \A y \in Calls : CallFades(y)
  BY Restoring
<1>2. ASSUME NEW d \in (exists \ exists') \cup (edges \ edges')
      PROVE  GoesAlone(d)
  <2>1. d \in Children /\ d \notin agents'
    BY <1>1 DEF BaseInv, StoreInv
  <2>2. \A y \in Calls : y.type = "spawn" => op'[y] \notin {"linking", "created"}
    BY <1>1 DEF Spawner, Running, Ended
  <2> QED
    BY <1>1, <1>2, <2>1, <2>2 DEF GoesAlone
<1>3. \A c \in Children : WorkFades(c)
  BY <1>1 DEF WorkFades
<1> QED
  BY <1>1, <1>2, <1>3, GraphFades DEF Fades

\* A restore begins or fails.
LEMMA GraphStart ==
  ASSUME BaseInv, BaseInv', GraphInv,
         Restore \/ (RestoreFails /\ UNCHANGED op /\ RestoreFrame)
  PROVE  GraphInv'
<1> USE DEF SpawnFrame, SendFrame, CallFrame, WorkFrame, SessionFrame,
        WaitFrame, DeleteFrame, RestoreFrame, SessionStep, storeVars,
        turnVars, restoreVars, slotVars, workVars, mailVars, closeVars,
        history, To, Goes, Calling, Fails
<1>1. /\ UNCHANGED <<op, agents, tasks, worker, exists, edges>>
      /\ ready # "yes" /\ ready' # "yes" /\ found' = NoneFound
  BY DEF Restore, RestoreFails
<1> QED
  BY <1>1, RestoreFades

\* A thread without an edge joins its parent or goes.
LEMMA GraphReconcile ==
  ASSUME BaseInv, BaseInv', GraphInv, Reconcile
  PROVE  GraphInv'
<1> USE DEF SpawnFrame, SendFrame, CallFrame, WorkFrame, SessionFrame,
        WaitFrame, DeleteFrame, RestoreFrame, SessionStep, storeVars,
        turnVars, restoreVars, slotVars, workVars, mailVars, closeVars,
        history, To, Goes, Calling, Fails
<1>1. /\ UNCHANGED <<op, agents, tasks, worker, found, closing>>
      /\ ready = "linking" /\ ready' \in {"linking", "reading"}
      /\ found = NoneFound
  BY DEF Reconcile, GraphInv, FoundInv
<1>2. CASE UNCHANGED <<exists, edges>>
  BY <1>1, <1>2, RestoreFades
<1>3. ASSUME NEW c \in exists, c \notin edges, exists' = exists \ {c},
             edges' = edges
      PROVE  GraphInv'
  <2>1. c \in Children /\ c # Root /\ found'[c] = 0
    BY <1>1, Constants DEF BaseInv, StoreInv, NoneFound
  <2>2. \A e \in edges : Parent[e] # c
    BY <1>3, <2>1 DEF GraphInv, EdgeInv
  <2> QED
    BY <1>1, <1>3, <2>1, <2>2, RestoreFades
<1>4. ASSUME NEW c \in exists, c \notin edges, exists' = exists,
             edges' = edges \cup {c}, Parent[c] \in edges \cup {Root},
             ready' = ready
      PROVE  GraphInv'
  <2>1. c \in Children /\ edges \subseteq Children
    BY DEF BaseInv, StoreInv
  <2>2. /\ \A y \in Calls : ~Spawner(y) /\ ~Spawner(y)'
        /\ \A d \in Children : d \notin agents /\ d \notin agents'
    BY <1>1, Restoring
  <2>3. EdgeInv' /\ SpawnInv' /\ LeftInv' /\ BornInv'
    BY <1>1, <1>4, <2>2
       DEF GraphInv, EdgeInv, SpawnInv, LeftInv, BornInv, Spawned, Early,
           Unfinished, Running
  <2>4. LiveInv' /\ IdleInv' /\ WholeInv' /\ FoundInv'
    BY <1>1, <1>4, <2>2, Constants
       DEF GraphInv, LiveInv, IdleInv, WholeInv, FoundInv, Present, Closing,
           NoneFound
  <2>5. ASSUME NEW w \in Calls, Over(w)' PROVE Deleted(w)'
    <3>1. Over(w) /\ Deleted(w) /\ w.to \in Children
      BY <1>1, <2>5, Constants DEF Over, GraphInv, GoneInv
    <3>2. ASSUME c = w.to \/ w.to \in Above[c] PROVE FALSE
      <4>1. c # w.to
        BY <3>1 DEF Deleted
      <4>2. /\ Parent[c] \in Children
            /\ w.to = Parent[c] \/ w.to \in Above[Parent[c]]
        BY <2>1, <3>1, <3>2, <4>1, AboveParent, Constants
      <4>3. Gone(Parent[c])
        BY <3>1, <4>2 DEF Deleted
      <4> QED
        BY <1>4, <4>2, <4>3, Constants DEF Gone
    <3>3. \A d \in Children : d # c /\ Gone(d) => Gone(d)'
      BY <1>1, <1>4, <2>2
         DEF Gone, FailedSpawn
    <3> QED
      BY <1>4, <3>1, <3>2, <3>3 DEF Deleted
  <2> QED
    BY <2>3, <2>4, <2>5 DEF GraphInv, GoneInv
<1>5. \/ UNCHANGED <<exists, edges>>
      \/ \E c \in exists \ edges :
           /\ ready' = ready
           /\ \/ exists' = exists \ {c} /\ edges' = edges
              \/ /\ exists' = exists /\ edges' = edges \cup {c}
                 /\ Parent[c] \in edges \cup {Root}
  BY DEF Reconcile, Shallowest
<1> QED
  BY <1>2, <1>3, <1>4, <1>5

\* The next child is read: the subtree of a tombstone has not been read yet.
LEMMA GraphRead ==
  ASSUME BaseInv, BaseInv', GraphInv, ReadChild
  PROVE  GraphInv'
<1> USE DEF SpawnFrame, SendFrame, CallFrame, WorkFrame, SessionFrame,
        WaitFrame, DeleteFrame, RestoreFrame, SessionStep, storeVars,
        turnVars, restoreVars, slotVars, workVars, mailVars, closeVars,
        history, To, Goes, Calling, Fails
<1>1. /\ UNCHANGED <<op, agents, tasks, worker, ready>> /\ ready = "reading"
  BY DEF ReadChild
<1>2. PICK c \in Shallowest(Unread) :
        \/ /\ c \notin exists
           /\ \E d \in NextRemoved(c) :
                IF d \in exists THEN RemoveRollout(d) ELSE RemoveEdges(d)
           /\ UNCHANGED found
        \/ UNCHANGED <<exists, edges, found, closing>>
        \/ /\ c \in exists /\ life[c] # <<>>
           /\ found' = [found EXCEPT ![c] = Len(life[c])]
           /\ UNCHANGED <<exists, edges, closing>>
  BY DEF ReadChild
<1>3. /\ c \in Children /\ c \in edges /\ found[c] = 0
      /\ \A e \in Unread : Len(Path[c]) <= Len(Path[e])
  BY DEF Shallowest, Unread, BaseInv, StoreInv
<1>4. CASE UNCHANGED <<exists, edges, found, closing>>
  BY <1>1, <1>4, RestoreFades
<1>5. ASSUME NEW d \in NextRemoved(c), UNCHANGED found,
             IF d \in exists THEN RemoveRollout(d) ELSE RemoveEdges(d)
      PROVE  GraphInv'
  <2>1. /\ d \in Children /\ (d = c \/ c \in Above[d])
        /\ \A e \in edges : Parent[e] # d
    BY <1>3, NextRemovedFacts, NextIsLowest DEF BaseInv, GraphInv
  <2>2. \/ exists' = exists \ {d} /\ edges' = edges
        \/ exists' = exists /\ d \notin exists /\ edges' = edges \ {d}
    BY <1>5, <2>1 DEF RemoveRollout, RemoveEdges
  <2>3. found[d] = 0
    <3>1. found[d] # 0 => Len(Path[d]) <= Len(Path[c])
      BY <1>3, <2>1 DEF GraphInv, FoundInv, Unread
    <3>2. d # c => Len(Path[c]) < Len(Path[d])
      BY <1>3, <2>1, AbovePaths, Constants
    <3>3. Len(Path[c]) \in Nat /\ Len(Path[d]) \in Nat
      BY <1>3, <2>1, PathsAreNames
    <3> QED
      BY <1>3, <3>1, <3>2, <3>3
  <2> QED
    BY <1>1, <1>5, <2>1, <2>2, <2>3, RestoreFades
<1>6. ASSUME c \in exists, life[c] # <<>>,
             found' = [found EXCEPT ![c] = Len(life[c])],
             UNCHANGED <<exists, edges, closing>>
      PROVE  GraphInv'
  <2>1. /\ \A y \in Calls : ~Spawner(y) /\ ~Spawner(y)'
        /\ \A d \in Children : d \notin agents /\ d \notin agents'
    BY <1>1, Restoring
  <2>2. /\ found' \in [Children -> Nat] /\ found'[c] # 0
        /\ \A d \in Children : d # c => found'[d] = found[d]
    <3>1. life[c] \in Seq({"started", "prompted", "ended", "failed"})
      BY <1>3 DEF BaseInv, StoreInv
    <3>2. Len(life[c]) \in Nat /\ Len(life[c]) # 0
      BY <1>6, <3>1, EmptySeq, LenProperties
    <3> QED
      BY <1>3, <1>6, <3>2 DEF BaseInv, StoreInv
  <2>3. FoundInv'
    <3>1. Unread' \subseteq Unread
      BY <1>6, <2>2 DEF Unread, BaseInv, StoreInv
    <3>2. c \in Present' /\ Present' = Present
      BY <1>3, <1>6 DEF Present
    <3>3. ready' = "reading"
      BY <1>1
    <3> QED
      BY <1>3, <2>2, <3>1, <3>2, <3>3 DEF GraphInv, FoundInv
  <2>4. SpawnInv'
    BY <2>1 DEF SpawnInv
  <2> QED
    BY <1>1, <1>6, <2>1, <2>3, <2>4
       DEF GraphInv, EdgeInv, LiveInv, LeftInv, IdleInv, BornInv, GoneInv,
           WholeInv, Present, Closing, Unfinished, Running, Spawned, Early,
           Over, Deleted, Gone, FailedSpawn
<1> QED
  BY <1>2, <1>4, <1>5, <1>6

\* All that was read is registered, and all that has an edge was read.
LEMMA GraphFound ==
  ASSUME BaseInv, BaseInv', GraphInv, RegisterFound
  PROVE  GraphInv'
<1> USE DEF SpawnFrame, SendFrame, CallFrame, WorkFrame, SessionFrame,
        WaitFrame, DeleteFrame, RestoreFrame, SessionStep, storeVars,
        turnVars, restoreVars, slotVars, workVars, mailVars, closeVars,
        history, To, Goes, Calling, Fails
<1> DEFINE read == {c \in Children : found[c] # 0}
<1>1. /\ UNCHANGED <<op, exists, edges, closing>> /\ ready = "reading"
      /\ found' = NoneFound /\ Unread = {}
  BY DEF RegisterFound
<1>2. CASE ready' # "yes"
  <2>1. UNCHANGED <<agents, tasks, worker>>
    BY <1>2 DEF RegisterFound
  <2> QED
    BY <1>1, <1>2, <2>1, RestoreFades
<1>3. CASE ready' = "yes"
  <2>1. /\ agents' = agents \cup read
        /\ \A c \in Children \ read :
             worker'[c] = worker[c] /\ tasks'[c] = tasks[c]
    BY <1>1, <1>3 DEF RegisterFound, Started, BaseInv, WorkerInv
  <2>2. \A y \in Calls : ~Running(y) /\ ~Running(y)'
    BY <1>1 DEF BaseInv, ReadyInv, Running
  <2>3. \A c \in read : c \in Present
    BY DEF GraphInv, FoundInv
  <2>4. SpawnInv' /\ EdgeInv' /\ LeftInv' /\ BornInv'
    BY <1>1, <2>2
       DEF SpawnInv, Spawner, GraphInv, EdgeInv, LeftInv, BornInv, Spawned,
           Early, Unfinished, Running
  <2>5. LiveInv' /\ IdleInv' /\ FoundInv'
    BY <1>1, <2>1, <2>3
       DEF GraphInv, LiveInv, IdleInv, FoundInv, Present, Closing, NoneFound
  <2>6. WholeInv'
    <3>1. ASSUME NEW c \in edges PROVE Parent[c] \in exists \cup {Root}
      <4>1. c \in Children /\ Parent[c] \in edges \cup {Root}
        BY DEF GraphInv, EdgeInv, BaseInv, StoreInv
      <4>2. \A e \in edges : e \in Children /\ found[e] # 0
        BY <1>1 DEF Unread, BaseInv, StoreInv
      <4>3. \A e \in edges : e \in exists
        BY <2>3, <4>2, Constants DEF Present
      <4> QED
        BY <4>1, <4>3
    <3> QED
      BY <1>1, <3>1 DEF WholeInv
  <2>7. ASSUME NEW c \in Children, Gone(c) PROVE Gone(c)'
    <3>1. c \notin read
      BY <2>3, <2>7, Constants DEF Gone, Present
    <3> QED
      BY <1>1, <2>1, <2>2, <2>7, <3>1
         DEF Gone, FailedSpawn, Spawner, Running, Closing, Unfinished
  <2>8. GoneInv'
    BY <1>1, <2>7 DEF GraphInv, GoneInv, Over, Deleted
  <2> QED
    BY <2>4, <2>5, <2>6, <2>8 DEF GraphInv
<1> QED
  BY <1>2, <1>3

LEMMA GraphRestore ==
  ASSUME BaseInv, BaseInv', GraphInv, RestoreStep
  PROVE  GraphInv'
BY GraphStart, GraphReconcile, GraphRead, GraphFound DEF RestoreStep

\* The process dies.
LEMMA GraphCrash ==
  ASSUME BaseInv, BaseInv', GraphInv, Crash
  PROVE  GraphInv'
<1> USE DEF SpawnFrame, SendFrame, CallFrame, WorkFrame, SessionFrame,
        WaitFrame, DeleteFrame, RestoreFrame, SessionStep, storeVars,
        turnVars, restoreVars, slotVars, workVars, mailVars, closeVars,
        history, To, Goes, Calling, Fails
<1>1. /\ UNCHANGED <<exists, edges>> /\ agents' = {Root}
      /\ ready' = "no" /\ found' = NoneFound
      /\ \A c \in Children : worker'[c] = "none" /\ tasks'[c] = <<>>
      /\ \A y \in Calls :
           op'[y] = IF op[y] = "unsent" THEN "unsent"
                    ELSE IF op[y] \in {"done", "past"} THEN "past" ELSE "failed"
  BY DEF Crash
<1>2. \A y \in Calls : CallFades(y)
  BY <1>1 DEF CallFades, Running, Ended, Unfinished, Early, Over
<1>3. \A c \in Children : WorkFades(c)
  BY <1>1, Constants DEF WorkFades
<1> QED
  BY <1>1, <1>2, <1>3, GraphFades DEF Fades

LEMMA GraphInit == Init => GraphInv
<1> SUFFICES ASSUME Init PROVE GraphInv
  OBVIOUS
<1>1. EdgeInv /\ SpawnInv /\ LiveInv /\ LeftInv /\ IdleInv /\ WholeInv
  BY DEF Init, EdgeInv, SpawnInv, Spawner, Running, Ended, LiveInv, Present,
         LeftInv, IdleInv, WholeInv
<1>2. FoundInv /\ BornInv /\ GoneInv
  BY DEF Init, FoundInv, NoneFound, BornInv, GoneInv, Over
<1> QED
  BY <1>1, <1>2 DEF GraphInv

LEMMA GraphNextKeeps ==
  ASSUME OwnThreads, DeletionsApart, DeletionsApart', BaseInv, BaseInv',
         WorkInv, GraphInv, [Next]_vars
  PROVE  GraphInv'
<1>1. ASSUME NEW x \in Calls, Begin(x) PROVE GraphInv'
  BY <1>1, GraphSpawn, GraphSend, GraphWait, GraphDelete, GraphDirect DEF Begin
<1>2. ASSUME NEW x \in Calls, CallStep(x) PROVE GraphInv'
  BY <1>2, GraphCreate, GraphLink, GraphDiscard, GraphRegister, GraphRollback,
     GraphJoin, GraphLoad, GraphDeliver, GraphSteer, GraphFollowup,
     GraphWaitEnds, GraphMessages, GraphSpawns, GraphUnregister, GraphRemove
     DEF CallStep
<1>3. ASSUME NEW p \in Paths, Decide(p) PROVE GraphInv'
  BY <1>3, GraphDecide
<1>4. ASSUME NEW c \in Children, WorkerStep(c) PROVE GraphInv'
  BY <1>4, GraphWork
<1>5. ASSUME NEW c \in Children, TurnStep(c) PROVE GraphInv'
  BY <1>5, GraphTurn
<1>6. ASSUME RestoreStep \/ Retry \/ Crash PROVE GraphInv'
  BY <1>6, GraphRestore, GraphRetry, GraphCrash
<1>7. ASSUME UNCHANGED vars PROVE GraphInv'
  <2>1. /\ UNCHANGED <<exists, edges, agents, ready, found, closing>>
        /\ \A y \in Calls : Moves(y)
        /\ \A c \in Children : Rests(c)
    BY <1>7
       DEF vars, storeVars, restoreVars, workVars, closeVars, Moves, Rests
  <2> QED
    BY <2>1, PlainKept
<1> QED
  BY <1>1, <1>2, <1>3, <1>4, <1>5, <1>6, <1>7 DEF Next

LEMMA GraphWhole == GraphInv => DeletionsAreWhole
<1> SUFFICES ASSUME GraphInv PROVE DeletionsAreWhole
  OBVIOUS
<1>1. ASSUME NEW x \in Calls, x.type = "delete", op[x] \in {"done", "past"},
             NEW c \in Children, c = x.to \/ x.to \in Above[c]
      PROVE  Gone(c)
  BY <1>1 DEF GraphInv, GoneInv, Over, Deleted
<1>2. WholeInv
  BY DEF GraphInv
<1> QED
  BY <1>1, <1>2 DEF DeletionsAreWhole, WholeInv, Gone, FailedSpawn, Unfinished

\* A deletion that has returned has left nothing of the subtree in the graph,
\* the registry or at work (closeAgent and discardStoredSubtree,
\* agent-control.ts and agent-runtime.ts), whatever was created, sent or run
\* in it meanwhile, and one that failed or crashed leaves no thread without a
\* parent once the tree is restored, if every spawn makes a thread of its own
\* and no deletion runs inside another or finds its thread deleted by one.
THEOREM DeletionsAreWholeHolds ==
  ASSUME OwnThreads
  PROVE  Spec /\ []DeletionsApart => []DeletionsAreWhole
<1>1. Init => WorkInv /\ GraphInv
  BY WorkInit, GraphInit
<1>2. /\ DeletionsApart /\ DeletionsApart' /\ BaseInv /\ BaseInv'
      /\ WorkInv /\ GraphInv /\ [Next]_vars
      => WorkInv' /\ GraphInv'
  BY WorkNextKeeps, GraphNextKeeps
<1>3. GraphInv => DeletionsAreWhole
  BY GraphWhole
<1> QED
  BY <1>1, <1>2, <1>3, BaseInvariant, PTL DEF Spec
=============================================================================
