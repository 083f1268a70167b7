---------------------------- MODULE ThreadStorage ----------------------------
(***************************************************************************)
(* The thread store around its live writers                                *)
(* (src/core/jsonl-thread-store.ts): which threads and rollouts are on     *)
(* disk, who may write them, and how they are staged, created, resumed,    *)
(* forked, deleted and collected by the processes that share a directory.  *)
(*                                                                         *)
(* On disk a thread is a metadata file, which makes it exist, and a        *)
(* rollout, which may continue a prefix of another thread's rollout.       *)
(* Processes exclude each other with file locks that die with their owner: *)
(* one per thread for its writer, one for the storage as a whole, one per  *)
(* prepared fork.                                                          *)
(*                                                                         *)
(* Abstractions.  A rollout is named after its thread, as every creation   *)
(* names it, and is reduced to the rollout it continues: what is appended  *)
(* to it is RolloutWriter's subject, and appending keeps every prefix.     *)
(* Assets, sidebar entries and the search and usage projections are left   *)
(* out, except that a projection may fail.  Releasing a lock is one step;  *)
(* taking one that is not waited for is one step with the checks on its    *)
(* own thread that follow it.                                              *)
(***************************************************************************)
EXTENDS Naturals, FiniteSets

CONSTANTS
  Process,            \* processes with a store over the same directory
  Client,             \* the callers of a store
  Boot,               \* Boot[p]: the caller that opens the store of p
  ProcessOf,          \* the process of a client
  Thread,
  Scripts,            \* what is stored at first and what clients may call
  GoalsRaceCloses,    \* whether a goal may be set on a thread that is being
                      \* closed or has been
  MaxFailures,        \* bound: operations on files that fail
  MaxCrashes          \* bound: crashes of a process

Boots == {Boot[p] : p \in Process}
Actor == Client \cup Boots
Operations ==
  {"create", "spawn", "resume", "persist", "shutdown", "discard", "fork",
   "delete"}
\* A fork makes thread from the thread source.
CallType ==
  {k \in [op : Operations, thread : Thread, source : Thread \cup {"none"}] :
     k.op = "fork" => k.source # "none"}
NoCall == [op |-> "none", thread |-> "none", source |-> "none"]
Bases == {"absent", "none"} \cup Thread

ASSUME NamesAssumption ==
  /\ Thread \subseteq STRING /\ {"none", "absent", "free"} \cap Thread = {}
  /\ Client \subseteq STRING /\ Process \subseteq STRING
  /\ Boot \in [Process -> STRING \ (Client \cup Process)]
  /\ "free" \notin Actor \cup Process /\ Client \cap Process = {}
  /\ \A p, q \in Process : Boot[p] = Boot[q] => p = q
ASSUME ProcessOfAssumption ==
  /\ ProcessOf \in [Actor -> Process]
  /\ \A p \in Process : ProcessOf[Boot[p]] = p
ASSUME ScriptsAssumption ==
  Scripts \subseteq [stored : [Thread -> Bases],
                     calls : [Client -> SUBSET CallType]]
\* Every creation makes a thread with a new id (createSessionId).
Creates(k) == k.op \in {"create", "spawn", "fork"}
ASSUME CreationsAssumption ==
  \A script \in Scripts : \A c, d \in Client :
    \A k \in script.calls[c], l \in script.calls[d] :
      Creates(k) /\ Creates(l) /\ k.thread = l.thread => c = d /\ k = l
\* Stored threads can be read.
ASSUME StoredAssumption ==
  \A script \in Scripts : \A t \in Thread :
    script.stored[t] \in Thread => script.stored[script.stored[t]] # "absent"
ASSUME BoundsAssumption ==
  GoalsRaceCloses \in BOOLEAN /\ MaxFailures \in Nat /\ MaxCrashes \in Nat

VARIABLES
  index,         \* threads whose metadata file exists
  journal,       \* the rollout a rollout continues; "absent": no directory
  lockFiles,     \* threads that have a writer lock file
  lock,          \* who holds a thread's writer lock: the process that
                 \* stages or writes it, or a caller in the middle of a call
  coordination,  \* who holds storage.lock
  ready,         \* #ready of the store of a process
  staged,        \* #staged, the threads that have their lock
  unlocked,      \* #staged, those whose lock is gone: a shutdown could not
                 \* discard them, and released it all the same
  making,        \* staged threads that are materializing
  closing,       \* staged threads that are being discarded by shutdownThread
  writers,       \* #writers
  draining,      \* writers that no longer accept: a shutdown or a rollback
  reservation,   \* the fork a client has prepared
  held,          \* threads of which a process has a Session
  kept,          \* history: threads whose creation or resumption was answered
                 \* and that nobody has deleted
  left,          \* calls a client has not made
  call,          \* the call a caller is making
  at,            \* where it is
  todo,          \* what a collection has left to probe or to remove
  failures,
  crashes

diskVars == <<index, journal, lockFiles>>
lockVars == <<lock, coordination>>
stagedVars == <<staged, unlocked, making, closing>>
writerVars == <<writers, draining>>
storeVars == <<ready, stagedVars, writerVars, reservation, held>>
boundVars == <<failures, crashes>>
vars == <<diskVars, lockVars, storeVars, kept, left, call, at, todo,
          boundVars>>

NoReservation == [source |-> "none", base |-> "none"]
Exists(t) == t \in index \/ journal[t] # "absent"

\* The rollouts that reading the rollout of a thread of T reads as well.
Closed(T) == \A t \in T : journal[t] \in Thread => journal[t] \in T
Lineage(T) ==
  CHOOSE L \in SUBSET Thread :
    /\ T \subseteq L /\ Closed(L)
    /\ \A M \in SUBSET Thread : T \subseteq M /\ Closed(M) => L \subseteq M
Readable(t) == \A u \in Lineage({t}) : journal[u] # "absent"

\* Stored threads can be read, whatever else the disk holds.
Init ==
  \E script \in Scripts :
    /\ journal = script.stored
    /\ index = {t \in Thread : journal[t] # "absent"}
    /\ lockFiles = index
    /\ left = script.calls
    /\ kept = index
    /\ lock = [t \in Thread |-> "free"] /\ coordination = "free"
    /\ ready = [p \in Process |-> "down"]
    /\ staged = [p \in Process |-> {}]
    /\ unlocked = [p \in Process |-> {}]
    /\ making = [p \in Process |-> {}]
    /\ closing = [p \in Process |-> {}]
    /\ writers = [p \in Process |-> {}]
    /\ draining = [p \in Process |-> {}]
    /\ reservation = [c \in Client |-> NoReservation]
    /\ held = [p \in Process |-> {}]
    /\ call = [c \in Actor |-> NoCall]
    /\ at = [c \in Actor |-> "idle"]
    /\ todo = [c \in Actor |-> {}]
    /\ failures = 0 /\ crashes = 0

-----------------------------------------------------------------------------
T(c) == call[c].thread
S(c) == call[c].source
Goes(c, step) == at' = [at EXCEPT ![c] = step] /\ UNCHANGED <<call, todo>>
\* The call returns or throws.
Returns(c) ==
  /\ at' = [at EXCEPT ![c] = "idle"]
  /\ call' = [call EXCEPT ![c] = NoCall]
  /\ UNCHANGED todo
\* The client makes one of the calls it has left.
Calls(c, k, step) ==
  /\ at[c] = "idle" /\ ready[ProcessOf[c]] = "up"
  /\ k \in left[c]
  /\ left' = [left EXCEPT ![c] = @ \ {k}]
  /\ at' = [at EXCEPT ![c] = step]
  /\ call' = [call EXCEPT ![c] = IF step = "idle" THEN NoCall ELSE k]
  /\ UNCHANGED todo
Fails == failures < MaxFailures /\ failures' = failures + 1
Works == UNCHANGED failures
Locks(t, owner) ==
  lock' = [lock EXCEPT ![t] = owner] /\ lockFiles' = lockFiles \cup {t}
Unlocks(t) == lock' = [lock EXCEPT ![t] = "free"] /\ UNCHANGED lockFiles
Adds(set, p, t) == [set EXCEPT ![p] = @ \cup {t}]
Drops(set, p, t) == [set EXCEPT ![p] = @ \ {t}]

-----------------------------------------------------------------------------
\* createThread without a parent: the thread is staged, on disk there is only
\* its lock.
CreateThread(c, k) ==
  LET p == ProcessOf[c]  t == k.thread
      staging == lock[t] = "free" /\ ~ Exists(t) IN
  /\ k.op = "create"
  /\ Calls(c, k, "idle")
  /\ IF staging THEN lock' = [lock EXCEPT ![t] = p] ELSE UNCHANGED lock
  /\ lockFiles' = lockFiles \cup {t}
  /\ staged' = IF staging THEN Adds(staged, p, t) ELSE staged
  /\ unlocked' = IF staging THEN Drops(unlocked, p, t) ELSE unlocked
  /\ held' = IF staging THEN Adds(held, p, t) ELSE held
  /\ UNCHANGED <<index, journal, coordination, ready, making, closing,
                 writerVars, reservation, kept, boundVars>>

\* persistThread of a staged thread starts to materialize it, or joins.
PersistThread(c, k) ==
  LET p == ProcessOf[c] IN
  /\ k.op = "persist"
  /\ k.thread \in IF GoalsRaceCloses THEN staged[p] \cup unlocked[p]
                   ELSE (staged[p] \cap held[p]) \ closing[p]
  /\ Calls(c, k, IF k.thread \in making[p] THEN "materialization"
                  ELSE "storage")
  /\ making' = Adds(making, p, k.thread)
  /\ UNCHANGED <<diskVars, lockVars, ready, staged, unlocked, closing,
                 writerVars, reservation, held, kept, boundVars>>

\* The thread manager shuts down, discards or deletes a thread only when it
\* does not so already.
Ends == {"shutdown", "discard", "delete"}
Ending(p, t) ==
  \E c \in Client : ProcessOf[c] = p /\ T(c) = t /\ call[c].op \in Ends

\* createThread with a parent, and the calls that look at the thread first.
\* A Session that shuts its thread down, or discards it, lets go of it.
CallStore(c, k) ==
  LET p == ProcessOf[c] IN
  /\ k.op \notin {"create", "persist"}
  /\ Calls(c, k, k.op)
  /\ k.op \in Ends => ~ Ending(p, k.thread)
  /\ k.op \in {"shutdown", "discard"} => k.thread \in held[p]
  /\ held' = IF k.op \in {"shutdown", "discard"}
             THEN Drops(held, p, k.thread) ELSE held
  /\ UNCHANGED <<diskVars, lockVars, ready, stagedVars, writerVars,
                 reservation, kept, boundVars>>

\* #createPhysicalThread, of a thread that is not staged, claims its lock.
Claim(c) ==
  LET p == ProcessOf[c]  t == T(c) IN
  /\ at[c] \in {"spawn", "claim"}
  /\ IF t \notin writers[p] \cup staged[p] \cup unlocked[p] /\ lock[t] = "free"
     THEN Locks(t, c) /\ Goes(c, "storage")
     ELSE UNCHANGED <<lock, lockFiles>> /\ Goes(c, "unclaim")
  /\ UNCHANGED <<index, journal, coordination, storeVars, kept, left,
                 boundVars>>

FromStaged(c) == call[c].op = "persist"
EnterStorage(c) ==
  /\ at[c] = "storage" /\ coordination = "free"
  /\ coordination' = c
  /\ Goes(c, IF Exists(T(c)) THEN "giveUp" ELSE "journal")
  /\ UNCHANGED <<diskVars, lock, storeVars, kept, left, boundVars>>

\* The rollout is written before the metadata that makes the thread exist.  A
\* write that fails may have published its file.
BaseOf(c) == IF call[c].op = "fork" THEN reservation[c].base ELSE "none"
WriteJournal(c) ==
  /\ at[c] = "journal"
  /\ \/ Works /\ Goes(c, "index")
     \/ Fails /\ Goes(c, "undoIndex")
  /\ \/ journal' = [journal EXCEPT ![T(c)] = BaseOf(c)]
     \/ failures' # failures /\ UNCHANGED journal
  /\ UNCHANGED <<index, lockFiles, lockVars, storeVars, kept, left, crashes>>

WriteIndex(c) ==
  /\ at[c] = "index"
  /\ \/ Works /\ Goes(c, "open")
     \/ Fails /\ Goes(c, "undoIndex")
  /\ \/ index' = index \cup {T(c)}
     \/ failures' # failures /\ UNCHANGED index
  /\ UNCHANGED <<journal, lockFiles, lockVars, storeVars, kept, left, crashes>>

\* Mutant: the claim is released although the writer has taken it over.
OpenWriter_NotTransferred(c) ==
  LET p == ProcessOf[c]  t == T(c) IN
  /\ at[c] = "open"
  /\ Works /\ Goes(c, "leave")
  /\ writers' = Adds(writers, p, t)
  /\ lock' = IF FromStaged(c) THEN lock ELSE [lock EXCEPT ![t] = "free"]
  /\ UNCHANGED <<diskVars, coordination, ready, stagedVars, draining,
                 reservation, held, kept, left, crashes>>
\* #openClaimedWriter; the claim passes to the live writer.
OpenWriter(c) ==
  LET p == ProcessOf[c]  t == T(c) IN
  /\ at[c] = "open"
  /\ \/ /\ Works /\ Goes(c, "leave")
        /\ writers' = Adds(writers, p, t)
        /\ lock' = IF FromStaged(c) THEN lock ELSE [lock EXCEPT ![t] = p]
     \/ Fails /\ Goes(c, "undoIndex") /\ UNCHANGED <<writers, lock>>
  /\ UNCHANGED <<diskVars, coordination, ready, stagedVars, draining,
                 reservation, held, kept, left, crashes>>

UndoIndex(c) ==
  /\ at[c] = "undoIndex"
  /\ index' = index \ {T(c)}
  /\ Goes(c, "undoJournal")
  /\ UNCHANGED <<journal, lockFiles, lockVars, storeVars, kept, left,
                 boundVars>>
UndoJournal(c) ==
  /\ at[c] = "undoJournal"
  /\ journal' = [journal EXCEPT ![T(c)] = "absent"]
  /\ Goes(c, "giveUp")
  /\ UNCHANGED <<index, lockFiles, lockVars, storeVars, kept, left,
                 boundVars>>

\* The creation has failed.
\* Mutant: storage.lock stays taken after a creation that failed.
GiveUp_Held(c) ==
  LET p == ProcessOf[c] IN
  /\ at[c] = "giveUp"
  /\ UNCHANGED coordination
  /\ IF FromStaged(c)
     THEN making' = Drops(making, p, T(c)) /\ Returns(c)
     ELSE UNCHANGED making /\ Goes(c, "unclaim")
  /\ UNCHANGED <<diskVars, lock, ready, staged, unlocked, closing, writerVars,
                 reservation, held, kept, left, boundVars>>
GiveUp(c) ==
  LET p == ProcessOf[c] IN
  /\ at[c] = "giveUp"
  /\ coordination' = "free"
  /\ IF FromStaged(c)
     THEN making' = Drops(making, p, T(c)) /\ Returns(c)
     ELSE UNCHANGED making /\ Goes(c, "unclaim")
  /\ UNCHANGED <<diskVars, lock, ready, staged, unlocked, closing, writerVars,
                 reservation, held, kept, left, boundVars>>
Unclaim(c) ==
  /\ at[c] = "unclaim"
  /\ IF lock[T(c)] = c THEN Unlocks(T(c)) ELSE UNCHANGED <<lock, lockFiles>>
  /\ IF call[c].op = "fork" THEN Goes(c, "release") ELSE Returns(c)
  /\ UNCHANGED <<index, journal, coordination, storeVars, kept, left,
                 boundVars>>

\* The creation has succeeded.  Nobody holds a Session of a thread that was
\* materialized for a goal only while it was being closed.
LeaveStorage(c) ==
  LET p == ProcessOf[c]  t == T(c) IN
  /\ at[c] = "leave"
  /\ coordination' = "free"
  /\ IF FromStaged(c)
     THEN /\ staged' = Drops(staged, p, t)
          /\ unlocked' = Drops(unlocked, p, t)
          /\ making' = Drops(making, p, t)
          /\ kept' = kept \cup {t}
          /\ Returns(c)
     ELSE /\ UNCHANGED <<staged, unlocked, making, kept>>
          /\ Goes(c, IF call[c].op = "fork" THEN "consume" ELSE "deliver")
  /\ UNCHANGED <<diskVars, lock, ready, closing, writerVars, reservation,
                 held, left, boundVars>>
\* createFork gives the reservation back once its target exists.
Consume(c) ==
  /\ at[c] = "consume"
  /\ reservation' = [reservation EXCEPT ![c] = NoReservation]
  /\ Goes(c, "deliver")
  /\ UNCHANGED <<diskVars, lockVars, ready, stagedVars, writerVars, held,
                 kept, left, boundVars>>
\* The new thread is read and projected; if that fails it is removed again.
Deliver(c) ==
  LET p == ProcessOf[c]  t == T(c) IN
  /\ at[c] = "deliver"
  /\ \/ /\ Works /\ Readable(t)
        /\ kept' = kept \cup {t} /\ held' = Adds(held, p, t)
        /\ Returns(c)
        /\ UNCHANGED draining
     \/ /\ Fails /\ Goes(c, "rollback")
        /\ draining' = Adds(draining, p, t)
        /\ UNCHANGED <<kept, held>>
  /\ UNCHANGED <<diskVars, lockVars, ready, stagedVars, writers, reservation,
                 left, crashes>>

\* #rollbackCreatedThread.
Rollback(c) ==
  /\ at[c] = "rollback" /\ coordination = "free"
  /\ coordination' = c
  /\ Goes(c, "dropIndex")
  /\ UNCHANGED <<diskVars, lock, storeVars, kept, left, boundVars>>
DropIndex(c) ==
  /\ at[c] = "dropIndex"
  /\ index' = index \ {T(c)}
  /\ Goes(c, "dropJournal")
  /\ UNCHANGED <<journal, lockFiles, lockVars, storeVars, kept, left,
                 boundVars>>
DropJournal(c) ==
  /\ at[c] = "dropJournal"
  /\ journal' = [journal EXCEPT ![T(c)] = "absent"]
  /\ Goes(c, "dropWriter")
  /\ UNCHANGED <<index, lockFiles, lockVars, storeVars, kept, left,
                 boundVars>>
DropWriter(c) ==
  LET p == ProcessOf[c]  t == T(c) IN
  /\ at[c] = "dropWriter"
  /\ coordination' = "free"
  /\ writers' = Drops(writers, p, t) /\ draining' = Drops(draining, p, t)
  /\ Goes(c, "unlock")
  /\ UNCHANGED <<diskVars, lock, ready, stagedVars, reservation, held, kept,
                 left, boundVars>>

\* The file of a writer that has left #writers is closed and its lock
\* released, unless that has happened before.
Unlock(c) ==
  /\ at[c] = "unlock"
  /\ IF lock[T(c)] \in {c, ProcessOf[c]} THEN Unlocks(T(c))
     ELSE UNCHANGED <<lock, lockFiles>>
  /\ Returns(c)
  /\ UNCHANGED <<index, journal, coordination, storeVars, kept, left,
                 boundVars>>

-----------------------------------------------------------------------------
\* A call about a staged thread that is materializing waits for the end; it
\* goes on if the thread has been materialized and throws otherwise.
Materializing(c) == T(c) \in making[ProcessOf[c]]
Awaits(c) ==
  /\ Goes(c, "materialization")
  /\ UNCHANGED <<lockVars, lockFiles, stagedVars, writerVars>>
Materialized(c) ==
  /\ at[c] = "materialization" /\ ~ Materializing(c)
  /\ IF \/ call[c].op = "persist"
        \/ T(c) \in staged[ProcessOf[c]] \cup unlocked[ProcessOf[c]]
     THEN Returns(c)
     ELSE Goes(c, call[c].op)
  /\ UNCHANGED <<diskVars, lockVars, storeVars, kept, left, boundVars>>

\* shutdownThread.
ShutdownThread(c) ==
  LET p == ProcessOf[c]  t == T(c) IN
  /\ at[c] = "shutdown"
  /\ \/ Materializing(c) /\ Awaits(c)
     \/ /\ t \in staged[p] /\ ~ Materializing(c)
        /\ closing' = Adds(closing, p, t)
        /\ Goes(c, "discardStaged")
        /\ UNCHANGED <<lockFiles, lockVars, staged, unlocked, making,
                       writerVars>>
     \/ /\ t \in writers[p] /\ ~ Materializing(c)
        /\ draining' = Adds(draining, p, t)
        /\ Goes(c, "drain")
        /\ UNCHANGED <<lockFiles, lockVars, stagedVars, writers>>
  /\ UNCHANGED <<index, journal, ready, reservation, held, kept, left,
                 boundVars>>
\* #finishWriterShutdown; a drain or sync that fails gives the writer back.
Drain(c) ==
  LET p == ProcessOf[c]  t == T(c) IN
  /\ at[c] = "drain"
  /\ draining' = Drops(draining, p, t)
  /\ \/ Works /\ Goes(c, "unlock") /\ writers' = Drops(writers, p, t)
     \/ Fails /\ Returns(c) /\ UNCHANGED writers
  /\ UNCHANGED <<diskVars, lockVars, ready, stagedVars, reservation, held,
                 kept, left, crashes>>

\* discardThread, which also serves deleteThread for a staged thread.
DiscardThread(c) ==
  LET p == ProcessOf[c]  t == T(c) IN
  /\ at[c] = "discard"
  /\ \/ Materializing(c) /\ Awaits(c)
     \/ /\ t \in staged[p] /\ ~ Materializing(c)
        /\ staged' = Drops(staged, p, t)
        /\ Goes(c, "discardStaged")
        /\ UNCHANGED <<lockFiles, lockVars, unlocked, making, closing,
                       writerVars>>
     \/ /\ t \in writers[p] /\ ~ Materializing(c)
        /\ writers' = Drops(writers, p, t)
        /\ Goes(c, "unlock")
        /\ UNCHANGED <<lockFiles, lockVars, stagedVars, draining>>
  /\ UNCHANGED <<index, journal, ready, reservation, held, kept, left,
                 boundVars>>

\* #discardStagedThread removes what an upload may have left.  If storage.lock
\* cannot be taken, or the removal fails, it throws.
DiscardStaged(c) ==
  /\ at[c] = "discardStaged"
  /\ \/ /\ Works /\ coordination = "free"
        /\ coordination' = c
        /\ Goes(c, "removeStaged")
     \/ Fails /\ Goes(c, "keepStaged") /\ UNCHANGED coordination
  /\ UNCHANGED <<diskVars, lock, storeVars, kept, left, crashes>>
RemoveStaged(c) ==
  /\ at[c] = "removeStaged"
  /\ \/ Works /\ Goes(c, "releaseStaged")
     \/ Fails /\ Goes(c, "keepStaged")
  /\ \/ journal' = [journal EXCEPT ![T(c)] = "absent"]
     \/ failures' # failures /\ UNCHANGED journal
  /\ coordination' = "free"
  /\ UNCHANGED <<index, lockFiles, lock, storeVars, kept, left, crashes>>
ReleaseStaged(c) ==
  LET p == ProcessOf[c]  t == T(c) IN
  /\ at[c] = "releaseStaged"
  /\ Unlocks(t)
  /\ staged' = Drops(staged, p, t) /\ closing' = Drops(closing, p, t)
  /\ held' = Drops(held, p, t)
  /\ Returns(c)
  /\ UNCHANGED <<index, journal, coordination, ready, unlocked, making,
                 writerVars, reservation, kept, left, boundVars>>
\* The lock is released although the thread could not be discarded.  After a
\* shutdown it is staged as before, for a goal or a deletion to find.
KeepStaged(c) ==
  LET p == ProcessOf[c]  t == T(c) IN
  /\ at[c] = "keepStaged"
  /\ Unlocks(t)
  /\ staged' = Drops(staged, p, t) /\ closing' = Drops(closing, p, t)
  /\ unlocked' = IF t \in staged[p] THEN Adds(unlocked, p, t) ELSE unlocked
  /\ held' = Drops(held, p, t)
  /\ Returns(c)
  /\ UNCHANGED <<index, journal, coordination, ready, making, writerVars,
                 reservation, kept, left, boundVars>>
\* It is discarded again, by a deletion.  It has no lock to release.
DiscardUnlocked(c) ==
  /\ at[c] = "discardUnlocked"
  /\ \/ /\ Works /\ coordination = "free"
        /\ coordination' = c
        /\ Goes(c, "removeUnlocked")
     \/ Fails /\ Returns(c) /\ UNCHANGED coordination
  /\ UNCHANGED <<diskVars, lock, storeVars, kept, left, crashes>>
RemoveUnlocked(c) ==
  /\ at[c] = "removeUnlocked"
  /\ Works \/ Fails
  /\ \/ journal' = [journal EXCEPT ![T(c)] = "absent"]
     \/ failures' # failures /\ UNCHANGED journal
  /\ coordination' = "free"
  /\ Returns(c)
  /\ UNCHANGED <<index, lockFiles, lock, storeVars, kept, left, crashes>>

-----------------------------------------------------------------------------
\* resumeThread reads the metadata before it has the lock, and again after it.
ResumeThread(c) ==
  LET p == ProcessOf[c]  t == T(c) IN
  /\ at[c] = "resume"
  /\ IF t \in index \ writers[p] THEN Goes(c, "reopen") ELSE Returns(c)
  /\ UNCHANGED <<diskVars, lockVars, storeVars, kept, left, boundVars>>
Reopen(c) ==
  /\ at[c] = "reopen"
  /\ IF lock[T(c)] = "free" THEN Locks(T(c), c) /\ Goes(c, "repair")
     ELSE UNCHANGED <<lock, lockFiles>> /\ Returns(c)
  /\ UNCHANGED <<index, journal, coordination, storeVars, kept, left,
                 boundVars>>
Repair(c) ==
  LET p == ProcessOf[c]  t == T(c) IN
  /\ at[c] = "repair"
  /\ \/ /\ Works /\ journal[t] # "absent"
        /\ writers' = Adds(writers, p, t) /\ lock' = [lock EXCEPT ![t] = p]
        /\ Goes(c, "read")
        /\ UNCHANGED lockFiles
     \/ /\ (Works /\ journal[t] = "absent") \/ Fails
        /\ Unlocks(t) /\ Returns(c)
        /\ UNCHANGED writers
  /\ UNCHANGED <<index, journal, coordination, ready, stagedVars, draining,
                 reservation, held, kept, left, crashes>>
\* Mutant: the thread is not read again under the lock.
ReadResumed_Unchecked(c) ==
  LET p == ProcessOf[c]  t == T(c) IN
  /\ at[c] = "read"
  /\ Works /\ kept' = kept \cup {t} /\ held' = Adds(held, p, t)
  /\ Returns(c)
  /\ UNCHANGED <<diskVars, lockVars, ready, stagedVars, writerVars,
                 reservation, left, crashes>>
ReadResumed(c) ==
  LET p == ProcessOf[c]  t == T(c)  found == t \in index /\ Readable(t) IN
  /\ at[c] = "read"
  /\ \/ /\ Works /\ found
        /\ kept' = kept \cup {t} /\ held' = Adds(held, p, t)
        /\ Returns(c)
     \/ /\ (Works /\ ~ found) \/ Fails
        /\ Goes(c, "discard")
        /\ UNCHANGED <<kept, held>>
  /\ UNCHANGED <<diskVars, lockVars, ready, stagedVars, writerVars,
                 reservation, left, crashes>>

-----------------------------------------------------------------------------
\* prepareFork.  A source that this process does not write is locked while
\* the cutoff is read.
PrepareFork(c) ==
  LET p == ProcessOf[c]  s == S(c)  local == s \in writers[p] IN
  /\ at[c] = "fork"
  /\ s \notin making[p]
  /\ IF local THEN Goes(c, "reserve") /\ UNCHANGED <<lock, lockFiles>>
     ELSE IF lock[s] = "free" THEN Goes(c, "reserve") /\ Locks(s, c)
     ELSE Returns(c) /\ UNCHANGED <<lock, lockFiles>>
  /\ UNCHANGED <<index, journal, coordination, storeVars, kept, left,
                 boundVars>>
Reserve(c) ==
  /\ at[c] = "reserve"
  /\ reservation' =
       [reservation EXCEPT ![c] = [source |-> S(c), base |-> "none"]]
  /\ Goes(c, "snapshot")
  /\ UNCHANGED <<diskVars, lockVars, ready, stagedVars, writerVars, held,
                 kept, left, boundVars>>
\* The fork continues the rollout that holds the last record before its
\* boundary: the source's own or one the source continues.
Snapshot(c) ==
  LET p == ProcessOf[c]  s == S(c)
      there == /\ lock[s] = c \/ s \in writers[p] \ draining[p]
               /\ s \in index /\ Readable(s) IN
  /\ at[c] = "snapshot"
  /\ \/ /\ Works /\ there
        /\ \E base \in {"none"} \cup Lineage({s}) :
             reservation' = [reservation EXCEPT ![c].base = base]
     \/ /\ (Works /\ ~ there) \/ Fails
        /\ reservation' = [reservation EXCEPT ![c] = NoReservation]
  /\ Goes(c, "prepared")
  /\ UNCHANGED <<diskVars, lockVars, ready, stagedVars, writerVars, held,
                 kept, left, crashes>>
Prepared(c) ==
  /\ at[c] = "prepared"
  /\ IF lock[S(c)] = c THEN Unlocks(S(c)) ELSE UNCHANGED <<lock, lockFiles>>
  /\ IF reservation[c] = NoReservation THEN Returns(c) ELSE Goes(c, "claim")
  /\ UNCHANGED <<index, journal, coordination, storeVars, kept, left,
                 boundVars>>
\* releasePreparedFork, when the target could not be created.
ReleasePreparedFork(c) ==
  /\ at[c] = "release"
  /\ reservation' = [reservation EXCEPT ![c] = NoReservation]
  /\ Returns(c)
  /\ UNCHANGED <<diskVars, lockVars, ready, stagedVars, writerVars, held,
                 kept, left, boundVars>>
Reserved(t) == \E c \in Client : reservation[c].source = t
AnyReservation == \E c \in Client : reservation[c] # NoReservation

-----------------------------------------------------------------------------
\* deleteThread.
DeleteThread(c) ==
  LET p == ProcessOf[c]  t == T(c) IN
  /\ at[c] = "delete"
  /\ \/ Materializing(c) /\ Awaits(c)
     \/ /\ t \in staged[p] /\ ~ Materializing(c)
        /\ staged' = Drops(staged, p, t)
        /\ Goes(c, "discardStaged")
        /\ UNCHANGED <<lockFiles, lockVars, unlocked, making, closing,
                       writerVars>>
     \/ /\ t \in unlocked[p] /\ ~ Materializing(c)
        /\ unlocked' = Drops(unlocked, p, t)
        /\ Goes(c, "discardUnlocked")
        /\ UNCHANGED <<lockFiles, lockVars, staged, making, closing,
                       writerVars>>
     \/ /\ t \notin staged[p] \cup unlocked[p] /\ ~ Materializing(c)
        /\ IF t \notin writers[p] /\ lock[t] = "free"
           THEN Locks(t, c) /\ Goes(c, "enterDelete")
           ELSE UNCHANGED <<lock, lockFiles>> /\ Returns(c)
        /\ UNCHANGED <<coordination, stagedVars, writerVars>>
  /\ UNCHANGED <<index, journal, ready, reservation, held, kept, left,
                 boundVars>>
EnterDelete(c) ==
  /\ at[c] = "enterDelete" /\ coordination = "free"
  /\ coordination' = c
  /\ Goes(c, "remove")
  /\ UNCHANGED <<diskVars, lock, storeVars, kept, left, boundVars>>
\* A thread that is being forked is not removed.
RemoveIndex(c) ==
  /\ at[c] = "remove"
  /\ \/ /\ ~ Reserved(T(c)) /\ Works
        /\ index' = index \ {T(c)} /\ kept' = kept \ {T(c)}
        /\ Goes(c, "removed")
     \/ /\ (Reserved(T(c)) /\ Works) \/ Fails
        /\ Goes(c, "refused")
        /\ UNCHANGED <<index, kept>>
  /\ UNCHANGED <<journal, lockFiles, lockVars, storeVars, left, crashes>>
LeaveDelete(c) ==
  /\ at[c] \in {"removed", "refused"}
  /\ coordination' = "free"
  /\ Goes(c, IF at[c] = "removed" THEN "unclaimDeleted" ELSE "unlock")
  /\ UNCHANGED <<diskVars, lock, storeVars, kept, left, boundVars>>
UnclaimDeleted(c) ==
  /\ at[c] = "unclaimDeleted"
  /\ Unlocks(T(c)) /\ Goes(c, "collect")
  /\ UNCHANGED <<index, journal, coordination, storeVars, kept, left,
                 boundVars>>

-----------------------------------------------------------------------------
\* #collectUnreferencedRollouts, after a deletion and when a store is opened.
Collect(c) ==
  /\ at[c] = "collect" /\ coordination = "free"
  /\ coordination' = c
  /\ at' = [at EXCEPT ![c] = "probe"]
  /\ todo' = [todo EXCEPT ![c] = lockFiles]
  /\ UNCHANGED <<diskVars, lock, storeVars, kept, left, call, boundVars>>
\* lockPathIsHeld finds out whether a lock is held by taking it.
Probe(c) ==
  /\ at[c] = "probe"
  /\ \E t \in todo[c] :
       IF lock[t] = "free"
       THEN /\ lock' = [lock EXCEPT ![t] = c]
            /\ at' = [at EXCEPT ![c] = "probed"]
       ELSE at' = [at EXCEPT ![c] = "leaveCollect"] /\ UNCHANGED lock
  /\ UNCHANGED <<diskVars, coordination, storeVars, kept, left, call, todo,
                 boundVars>>
Probed(c) ==
  /\ at[c] = "probed"
  /\ \E t \in todo[c] :
       /\ lock[t] = c
       /\ lock' = [lock EXCEPT ![t] = "free"]
       /\ todo' = [todo EXCEPT ![c] = @ \ {t}]
  /\ at' = [at EXCEPT ![c] = "probe"]
  /\ UNCHANGED <<diskVars, coordination, storeVars, kept, left, call,
                 boundVars>>
\* What no thread and no reservation of this store needs is removed.
PreparedBy(p) ==
  {reservation[d].base : d \in {e \in Client : ProcessOf[e] = p}} \ {"none"}
\* Mutant: only what a thread continues directly is retained.
Retained_Direct(p) ==
  index \cup PreparedBy(p) \cup ({journal[t] : t \in index} \cap Thread)
Retained(p) == Lineage(index \cup PreparedBy(p))
Scan(c) ==
  /\ at[c] = "probe" /\ todo[c] = {}
  /\ IF AnyReservation THEN Goes(c, "leaveCollect")
     ELSE /\ at' = [at EXCEPT ![c] = "sweep"]
          /\ todo' = [todo EXCEPT ![c] =
                        {t \in Thread : journal[t] # "absent"}
                          \ Retained(ProcessOf[c])]
          /\ UNCHANGED call
  /\ UNCHANGED <<diskVars, lockVars, storeVars, kept, left, boundVars>>
Sweep(c) ==
  /\ at[c] = "sweep"
  /\ \E t \in todo[c] :
       /\ journal' = [journal EXCEPT ![t] = "absent"]
       /\ todo' = [todo EXCEPT ![c] = @ \ {t}]
  /\ UNCHANGED <<index, lockFiles, lockVars, storeVars, kept, left, call, at,
                 boundVars>>
LeaveCollect(c) ==
  LET p == ProcessOf[c] IN
  /\ at[c] = "leaveCollect" \/ (at[c] = "sweep" /\ todo[c] = {})
  /\ coordination' = "free"
  /\ at' = [at EXCEPT ![c] = "idle"] /\ call' = [call EXCEPT ![c] = NoCall]
  /\ todo' = [todo EXCEPT ![c] = {}]
  /\ ready' = IF c = Boot[p] THEN [ready EXCEPT ![p] = "up"] ELSE ready
  /\ UNCHANGED <<diskVars, lock, stagedVars, writerVars, reservation, held,
                 kept, left, boundVars>>

-----------------------------------------------------------------------------
\* The constructor.
Open(p) ==
  /\ ready[p] = "down"
  /\ ready' = [ready EXCEPT ![p] = "opening"]
  /\ at' = [at EXCEPT ![Boot[p]] = "collect"]
  /\ UNCHANGED <<diskVars, lockVars, stagedVars, writerVars, reservation,
                 held, kept, left, call, todo, boundVars>>

\* The process dies, and the system releases its locks.
OfProcess(p) == {c \in Actor : ProcessOf[c] = p}
Crash(p) ==
  LET lost == {p} \cup OfProcess(p) IN
  /\ ready[p] # "down" /\ crashes < MaxCrashes
  /\ crashes' = crashes + 1
  /\ ready' = [ready EXCEPT ![p] = "down"]
  /\ lock' = [t \in Thread |-> IF lock[t] \in lost THEN "free" ELSE lock[t]]
  /\ coordination' = IF coordination \in lost THEN "free" ELSE coordination
  /\ staged' = [staged EXCEPT ![p] = {}]
  /\ unlocked' = [unlocked EXCEPT ![p] = {}]
  /\ making' = [making EXCEPT ![p] = {}]
  /\ closing' = [closing EXCEPT ![p] = {}]
  /\ writers' = [writers EXCEPT ![p] = {}]
  /\ draining' = [draining EXCEPT ![p] = {}]
  /\ held' = [held EXCEPT ![p] = {}]
  /\ reservation' = [c \in Client |-> IF ProcessOf[c] = p THEN NoReservation
                                      ELSE reservation[c]]
  /\ call' = [c \in Actor |-> IF c \in lost THEN NoCall ELSE call[c]]
  /\ at' = [c \in Actor |-> IF c \in lost THEN "idle" ELSE at[c]]
  /\ todo' = [c \in Actor |-> IF c \in lost THEN {} ELSE todo[c]]
  /\ UNCHANGED <<diskVars, kept, left, failures>>

-----------------------------------------------------------------------------
Create(c) ==
  \/ Claim(c) \/ EnterStorage(c) \/ WriteJournal(c) \/ WriteIndex(c)
  \/ OpenWriter(c) \/ UndoIndex(c) \/ UndoJournal(c) \/ GiveUp(c)
  \/ Unclaim(c) \/ LeaveStorage(c) \/ Consume(c) \/ Deliver(c)
  \/ Rollback(c) \/ DropIndex(c) \/ DropJournal(c) \/ DropWriter(c)
Close(c) ==
  \/ Unlock(c) \/ Materialized(c) \/ ShutdownThread(c) \/ Drain(c)
  \/ DiscardThread(c) \/ DiscardStaged(c) \/ RemoveStaged(c)
  \/ ReleaseStaged(c) \/ KeepStaged(c) \/ DiscardUnlocked(c)
  \/ RemoveUnlocked(c)
Resume(c) == ResumeThread(c) \/ Reopen(c) \/ Repair(c) \/ ReadResumed(c)
Fork(c) ==
  \/ PrepareFork(c) \/ Reserve(c) \/ Snapshot(c) \/ Prepared(c)
  \/ ReleasePreparedFork(c)
Delete(c) ==
  \/ DeleteThread(c) \/ EnterDelete(c) \/ RemoveIndex(c) \/ LeaveDelete(c)
  \/ UnclaimDeleted(c)
CollectStep(c) ==
  Collect(c) \/ Probe(c) \/ Probed(c) \/ Scan(c) \/ Sweep(c) \/ LeaveCollect(c)
ClientStep(c) ==
  Create(c) \/ Close(c) \/ Resume(c) \/ Fork(c) \/ Delete(c) \/ CollectStep(c)
MakeCall(c, k) == CreateThread(c, k) \/ PersistThread(c, k) \/ CallStore(c, k)

Next ==
  \/ \E c \in Client : ClientStep(c) \/ \E k \in left[c] : MakeCall(c, k)
  \/ \E p \in Process : CollectStep(Boot[p]) \/ Open(p) \/ Crash(p)
Spec == Init /\ [][Next]_vars
\* Operations on files and locks come to an end.
FairSpec ==
  /\ Spec
  /\ \A c \in Client : WF_vars(ClientStep(c))
  /\ \A p \in Process : WF_vars(CollectStep(Boot[p]))

-----------------------------------------------------------------------------
\* A process writes a thread, materializes it or has a Session of it only
\* while it holds the thread's lock: at most one process writes a rollout, and
\* nobody deletes the thread meanwhile.  A staged thread that a shutdown could
\* not discard has lost its lock, and must not be one of these again.
WritersHoldLocks ==
  \A p \in Process : \A t \in writers[p] \cup making[p] \cup held[p] :
    lock[t] = p

\* Whatever a stored thread, a Session or a prepared fork needs of the
\* rollouts is on disk, after every step and so after every crash: a creation
\* that is cut short, a deletion or a collection leaves nothing dangling.
HistoryReachable ==
  /\ \A t \in index : Readable(t)
  /\ \A p \in Process : \A t \in held[p] \cap writers[p] :
       t \in index /\ Readable(t)
  /\ \A c \in Client : reservation[c].base # "none" =>
       Readable(reservation[c].base)

\* A thread whose creation or resumption was answered exists until it is
\* deleted; no rollback, crash or collection takes it away.
KeptThreadsLast == kept \subseteq index

\* Every call returns: no two callers wait for each other's locks.
AllIdle == \A c \in Actor : at[c] = "idle"
CallsReturn == []<>AllIdle
=============================================================================
