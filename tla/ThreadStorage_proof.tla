------------------------ MODULE ThreadStorage_proof -------------------------
(***************************************************************************)
(* Theorems about ThreadStorage, for any processes, clients, threads and   *)
(* scripts: who writes a thread or has a Session of it holds its lock, a   *)
(* thread that was answered stays until it is deleted, and what threads,   *)
(* Sessions and prepared forks need of the rollouts can be read.           *)
(*                                                                         *)
(* A caller in the middle of a call is responsible for the lock of its     *)
(* thread in one of three ways: it claims it for itself, it owns it in the *)
(* name of its process, or it makes a staged thread, whose lock belongs to *)
(* the process already.  The invariant says who holds what at each place,  *)
(* and that no two callers hold the same.                                  *)
(*                                                                         *)
(* What a rollout reads is a path of any length.  Instead of following it, *)
(* the second part says that there is a set of rollouts, all on disk and   *)
(* closed under what they continue, that holds the rollout and is apart    *)
(* from what somebody may still take away (Avoids).                        *)
(***************************************************************************)
EXTENDS ThreadStorage, TLAPS

-----------------------------------------------------------------------------
(* The places of a call.                                                   *)

OpOf(c) == call[c].op
MakePlaces ==
  {"storage", "journal", "index", "open", "undoIndex", "undoJournal",
   "giveUp"}
OpenedPlaces ==
  {"leave", "consume", "deliver", "rollback", "dropIndex", "dropJournal",
   "dropWriter"}
StagedPlaces ==
  {"discardStaged", "removeStaged", "releaseStaged", "keepStaged"}
DeletePlaces ==
  {"enterDelete", "remove", "removed", "refused", "unclaimDeleted"}
ForkPlaces == {"fork", "reserve", "snapshot", "prepared", "release"}
CollectPlaces == {"collect", "probe", "probed", "sweep", "leaveCollect"}
Places ==
  {"idle", "spawn", "claim", "unclaim", "resume", "reopen", "repair", "read",
   "delete", "shutdown", "drain", "discard", "unlock", "materialization",
   "discardUnlocked", "removeUnlocked"}
  \cup MakePlaces \cup OpenedPlaces \cup StagedPlaces \cup DeletePlaces
  \cup ForkPlaces \cup CollectPlaces

\* A staged thread is being materialized by the caller.
Makes(c) == OpOf(c) = "persist" /\ at[c] \in MakePlaces \cup {"leave"}
\* The caller itself has locked its thread.
Claims(c) ==
  \/ at[c] \in MakePlaces /\ OpOf(c) # "persist"
  \/ at[c] \in DeletePlaces \cup {"repair"}
  \/ at[c] = "unlock" /\ OpOf(c) = "delete"
\* The caller has opened the writer of its thread and not answered yet.
Opens(c) ==
  \/ at[c] \in OpenedPlaces /\ OpOf(c) # "persist"
  \/ at[c] = "read"
  \/ at[c] = "discard" /\ OpOf(c) = "resume"
\* The caller closes a thread that its process has written or staged.
Closes(c) ==
  \/ at[c] \in StagedPlaces \cup {"shutdown", "drain"}
  \/ at[c] = "unlock" /\ OpOf(c) # "delete"
  \/ /\ at[c] \in {"discard", "materialization"}
     /\ OpOf(c) \in {"shutdown", "discard"}
Owns(c) == Opens(c) \/ Closes(c)
Same(c, d) == ProcessOf[c] = ProcessOf[d] /\ T(c) = T(d)

-----------------------------------------------------------------------------
(* The inductive invariant.                                                *)

Owners == {"free"} \cup Actor \cup Process
TypeInv ==
  /\ lock \in [Thread -> Owners]
  /\ at \in [Actor -> Places]
  /\ call \in [Actor -> CallType \cup {NoCall}]
  /\ left \in [Client -> SUBSET CallType]
  /\ writers \in [Process -> SUBSET Thread]
  /\ staged \in [Process -> SUBSET Thread]
  /\ making \in [Process -> SUBSET Thread]
  /\ closing \in [Process -> SUBSET Thread]
  /\ held \in [Process -> SUBSET Thread]

\* Which operations come to which places.
PlaceInv ==
  \A c \in Client :
    /\ at[c] = "idle" <=> call[c] = NoCall
    /\ at[c] \in {"spawn", "claim", "unclaim"} => OpOf(c) \in {"spawn", "fork"}
    /\ at[c] \in MakePlaces \cup {"leave"} =>
         OpOf(c) \in {"spawn", "fork", "persist"}
    /\ at[c] \in OpenedPlaces \ {"leave"} => OpOf(c) \in {"spawn", "fork"}
    /\ at[c] \in {"resume", "reopen", "repair", "read"} => OpOf(c) = "resume"
    /\ at[c] \in {"delete", "discardUnlocked", "removeUnlocked"}
                  \cup DeletePlaces => OpOf(c) = "delete"
    /\ at[c] \in {"shutdown", "drain"} => OpOf(c) = "shutdown"
    /\ at[c] = "discard" => OpOf(c) \in {"discard", "resume"}
    /\ at[c] \in StagedPlaces => OpOf(c) \in Ends
    /\ at[c] = "materialization" => OpOf(c) \in Ends \cup {"persist"}
    /\ at[c] = "unlock" => OpOf(c) \in Ends \cup {"spawn", "fork", "resume"}
    /\ at[c] \in ForkPlaces \cup {"consume"} => OpOf(c) = "fork"

\* Who holds the lock of a thread.
LockInv ==
  /\ \A p \in Process : \A t \in writers[p] \cup staged[p] \cup held[p] :
       lock[t] = p
  /\ \A c \in Client :
       /\ Claims(c) => lock[T(c)] = c
       /\ Owns(c) \/ Makes(c) => lock[T(c)] = ProcessOf[c]

\* In one process one caller opens or closes a thread, one makes it, and one
\* puts an end to it.
SoleInv ==
  \A c, d \in Client : Same(c, d) =>
    /\ Owns(c) /\ Owns(d) => c = d
    /\ Makes(c) /\ Makes(d) => c = d
    /\ OpOf(c) \in Ends /\ OpOf(d) \in Ends => c = d

\* What the store knows of a thread while a caller holds it.
PhaseInv ==
  \A c \in Client : LET p == ProcessOf[c]  t == T(c) IN
    /\ at[c] = "unlock" /\ OpOf(c) # "delete" =>
         t \notin writers[p] \cup staged[p] \cup held[p]
    /\ at[c] \in StagedPlaces =>
         t \notin writers[p] \cup making[p] /\ (t \in staged[p] => t \in closing[p])
    /\ Opens(c) => t \notin staged[p] \cup held[p]
    /\ Closes(c) /\ OpOf(c) # "delete" => t \notin held[p]
    /\ at[c] = "drain" => t \notin staged[p]
    /\ Makes(c) => t \in making[p] /\ (at[c] # "leave" => t \notin writers[p])

\* A thread is both staged and written only while it is being made, and what
\* is being made is not being closed.
StagedInv ==
  \A p \in Process :
    /\ staged[p] \cap writers[p] \subseteq making[p]
    /\ making[p] \subseteq staged[p] /\ making[p] \cap closing[p] = {}

\* What a caller is about to make or to remove was not answered, and what it
\* is about to answer exists.
KeptInv ==
  /\ kept \subseteq index
  /\ \A c \in Client :
       /\ at[c] \in {"journal", "index", "open", "undoIndex", "leave",
                    "consume", "deliver", "rollback", "dropIndex"} =>
            T(c) \notin kept
       /\ at[c] \in {"open", "leave", "consume", "deliver"} => T(c) \in index

IInv == /\ TypeInv /\ PlaceInv /\ LockInv /\ SoleInv /\ PhaseInv
        /\ StagedInv /\ KeptInv

-----------------------------------------------------------------------------
(* Facts about names and calls.                                            *)

\* Clients, processes and boots are different things.
LEMMA Names ==
  ASSUME NEW c \in Client
  PROVE  /\ c \in Actor /\ ProcessOf[c] \in Process
         /\ c \notin Process /\ c # "free"
         /\ \A p \in Process : p # "free" /\ Boot[p] # c
BY NamesAssumption, ProcessOfAssumption
   DEF NamesAssumption, ProcessOfAssumption, Actor, Boots

\* No caller is a process.
LEMMA CallersAreNoProcesses == Actor \cap Process = {}
BY NamesAssumption, ZenonT(60) DEF NamesAssumption, Actor, Boots

\* A caller that is not idle is about a thread.
LEMMA CallFacts ==
  ASSUME TypeInv, PlaceInv, NEW c \in Client
  PROVE  /\ call[c] \in CallType \cup {NoCall}
         /\ OpOf(c) \in Operations \/ OpOf(c) = "none"
         /\ at[c] # "idle" => T(c) \in Thread
<1>1. call[c] \in CallType \cup {NoCall}
  BY Names DEF TypeInv
<1> QED
  BY <1>1 DEF PlaceInv, CallType, OpOf, T, NoCall

\* Nobody else is making the thread that a caller makes or has opened.
MakingPlaces ==
  {"journal", "index", "open", "undoIndex", "leave", "consume", "deliver",
   "rollback", "dropIndex"}
LEMMA OneMaker ==
  ASSUME IInv, NEW c \in Client, NEW d \in Client, T(c) = T(d),
         Opens(c) \/ Makes(c), at[d] \in MakingPlaces
  PROVE  c = d
<1> USE Names DEF IInv
<1>1. Opens(d) \/ Makes(d) \/ Claims(d)
  BY DEF MakingPlaces, PlaceInv, Opens, Makes, Claims, OpenedPlaces, MakePlaces
<1>2. at[c] # "idle" /\ T(c) \in Thread
  BY CallFacts DEF Opens, Makes, MakePlaces, OpenedPlaces
<1>3. lock[T(c)] = ProcessOf[c]
  BY DEF LockInv, Owns
<1>4. ~ Claims(d)
  BY <1>3 DEF LockInv
<1>5. Same(c, d)
  BY <1>1, <1>3, <1>4 DEF LockInv, Owns, Same
<1> QED
  BY <1>1, <1>4, <1>5 DEF SoleInv, PhaseInv, StagedInv, Same, Owns

\* No two callers make the same thread.
LEMMA NoTwoMakers ==
  ASSUME IInv, NEW c \in Client, NEW d \in Client, T(c) = T(d),
         at[c] \in MakingPlaces, at[d] \in MakingPlaces
  PROVE  c = d
<1> USE Names DEF IInv
<1>1. /\ Opens(c) \/ Makes(c) \/ Claims(c)
      /\ Opens(d) \/ Makes(d) \/ Claims(d)
  BY DEF MakingPlaces, PlaceInv, Opens, Makes, Claims, OpenedPlaces, MakePlaces
<1>2. CASE Opens(c) \/ Makes(c) \/ Opens(d) \/ Makes(d)
  BY <1>2, OneMaker
<1>3. CASE Claims(c) /\ Claims(d)
  BY <1>3 DEF LockInv
<1> QED
  BY <1>1, <1>2, <1>3

-----------------------------------------------------------------------------
(* The steps, one lemma for each kind of call.                             *)

\* Creations, from the claim of the lock to the answer.
LEMMA CreateKeeps ==
  ASSUME IInv, NEW c \in Client, Create(c)
  PROVE  IInv'
<1> USE Names, CallFacts
    DEF IInv, PlaceInv, Makes, Claims, Opens, Closes, Owns, Same, OpOf, T,
        MakePlaces, OpenedPlaces, StagedPlaces, DeletePlaces, ForkPlaces, Ends,
        Goes, Returns, Works, Fails, Locks, Unlocks, Adds, Drops, FromStaged,
        NoCall, storeVars, diskVars, lockVars, stagedVars, writerVars, boundVars
<1>1. ASSUME Claim(c) PROVE IInv'
  BY <1>1, SMTT(60) DEF TypeInv, Owners, Places, CollectPlaces, LockInv,
           SoleInv, PhaseInv, StagedInv, KeptInv, Claim
<1>2. ASSUME EnterStorage(c) PROVE IInv'
  BY <1>2, SMTT(60) DEF TypeInv, Owners, Places, CollectPlaces, LockInv,
           SoleInv, PhaseInv, StagedInv, KeptInv, EnterStorage, Exists
<1>3. ASSUME WriteJournal(c) PROVE IInv'
  <2>1. TypeInv'
    BY <1>3, SMTT(60) DEF TypeInv, Owners, Places, CollectPlaces, WriteJournal
  <2>2. PlaceInv'
    BY <1>3, SMTT(60) DEF TypeInv, WriteJournal
  <2>3. LockInv'
    BY <1>3, SMTT(60) DEF TypeInv, LockInv, PhaseInv, SoleInv, StagedInv, WriteJournal
  <2>4. SoleInv'
    BY <1>3, SMTT(60) DEF TypeInv, SoleInv, LockInv, PhaseInv, WriteJournal
  <2>5. PhaseInv'
    BY <1>3, SMTT(60) DEF TypeInv, PhaseInv, LockInv, SoleInv, StagedInv, WriteJournal
  <2>6. StagedInv'
    BY <1>3, SMTT(60) DEF TypeInv, StagedInv, PhaseInv, LockInv, WriteJournal
  <2>7. KeptInv'
    BY <1>3, SMTT(60) DEF TypeInv, KeptInv, LockInv, SoleInv, PhaseInv, WriteJournal
  <2> QED
    BY <2>1, <2>2, <2>3, <2>4, <2>5, <2>6, <2>7
<1>4. ASSUME WriteIndex(c) PROVE IInv'
  <2>1. TypeInv'
    BY <1>4, SMTT(60) DEF TypeInv, Owners, Places, CollectPlaces, WriteIndex
  <2>2. PlaceInv'
    BY <1>4, SMTT(60) DEF TypeInv, WriteIndex
  <2>3. LockInv'
    BY <1>4, SMTT(60) DEF TypeInv, LockInv, PhaseInv, SoleInv, StagedInv, WriteIndex
  <2>4. SoleInv'
    BY <1>4, SMTT(60) DEF TypeInv, SoleInv, LockInv, PhaseInv, WriteIndex
  <2>5. PhaseInv'
    BY <1>4, SMTT(60) DEF TypeInv, PhaseInv, LockInv, SoleInv, StagedInv, WriteIndex
  <2>6. StagedInv'
    BY <1>4, SMTT(60) DEF TypeInv, StagedInv, PhaseInv, LockInv, WriteIndex
  <2>7. KeptInv'
    BY <1>4, SMTT(60) DEF TypeInv, KeptInv, LockInv, SoleInv, PhaseInv, WriteIndex
  <2> QED
    BY <2>1, <2>2, <2>3, <2>4, <2>5, <2>6, <2>7
<1>5. ASSUME OpenWriter(c) PROVE IInv'
  <2>1. TypeInv'
    BY <1>5, SMTT(60) DEF TypeInv, Owners, Places, CollectPlaces, OpenWriter
  <2>2. PlaceInv'
    BY <1>5, SMTT(60) DEF TypeInv, OpenWriter
  <2>3. LockInv'
    BY <1>5, SMTT(60) DEF TypeInv, LockInv, PhaseInv, SoleInv, StagedInv, OpenWriter
  <2>4. SoleInv'
    BY <1>5, SMTT(60) DEF TypeInv, SoleInv, LockInv, PhaseInv, OpenWriter
  <2>5. PhaseInv'
    BY <1>5, SMTT(60) DEF TypeInv, PhaseInv, LockInv, SoleInv, StagedInv, OpenWriter
  <2>6. StagedInv'
    BY <1>5, SMTT(60) DEF TypeInv, StagedInv, PhaseInv, LockInv, OpenWriter
  <2>7. KeptInv'
    BY <1>5, SMTT(60) DEF TypeInv, KeptInv, LockInv, SoleInv, PhaseInv, OpenWriter
  <2> QED
    BY <2>1, <2>2, <2>3, <2>4, <2>5, <2>6, <2>7
<1>6. ASSUME UndoIndex(c) PROVE IInv'
  <2>1. TypeInv'
    BY <1>6, SMTT(60) DEF TypeInv, Owners, Places, CollectPlaces, UndoIndex
  <2>2. PlaceInv'
    BY <1>6, SMTT(60) DEF TypeInv, UndoIndex
  <2>3. LockInv'
    BY <1>6, SMTT(60) DEF TypeInv, LockInv, PhaseInv, SoleInv, StagedInv, UndoIndex
  <2>4. SoleInv'
    BY <1>6, SMTT(60) DEF TypeInv, SoleInv, LockInv, PhaseInv, UndoIndex
  <2>5. PhaseInv'
    BY <1>6, SMTT(60) DEF TypeInv, PhaseInv, LockInv, SoleInv, StagedInv, UndoIndex
  <2>6. StagedInv'
    BY <1>6, SMTT(60) DEF TypeInv, StagedInv, PhaseInv, LockInv, UndoIndex
  <2>7. KeptInv'
    <3>1. ASSUME NEW d \in Client, d # c, at[d] \in MakingPlaces
          PROVE  T(d) # T(c)
      BY <1>6, <3>1, NoTwoMakers DEF MakingPlaces, UndoIndex
    <3> QED
      BY <1>6, <3>1, SMTT(60) DEF TypeInv, KeptInv, MakingPlaces, UndoIndex
  <2> QED
    BY <2>1, <2>2, <2>3, <2>4, <2>5, <2>6, <2>7
<1>7. ASSUME UndoJournal(c) PROVE IInv'
  BY <1>7, SMTT(60) DEF TypeInv, Owners, Places, CollectPlaces, LockInv,
           SoleInv, PhaseInv, StagedInv, KeptInv, UndoJournal
<1>8. ASSUME GiveUp(c) PROVE IInv'
  <2>1. TypeInv'
    BY <1>8, SMTT(60) DEF TypeInv, Owners, Places, CollectPlaces, GiveUp
  <2>2. PlaceInv'
    BY <1>8, SMTT(60) DEF TypeInv, GiveUp
  <2>3. LockInv'
    BY <1>8, SMTT(60) DEF TypeInv, LockInv, PhaseInv, SoleInv, StagedInv, GiveUp
  <2>4. SoleInv'
    BY <1>8, SMTT(60) DEF TypeInv, SoleInv, LockInv, PhaseInv, GiveUp
  <2>5. PhaseInv'
    <3>1. ASSUME NEW d \in Client, FromStaged(c), Makes(d), Same(c, d)
          PROVE  d = c
      BY <1>8, <3>1 DEF SoleInv, GiveUp
    <3> QED
      BY <1>8, <3>1, SMTT(60) DEF TypeInv, PhaseInv, GiveUp
  <2>6. StagedInv'
    BY <1>8, SMTT(60) DEF TypeInv, StagedInv, PhaseInv, LockInv, GiveUp
  <2>7. KeptInv'
    BY <1>8, SMTT(60) DEF TypeInv, KeptInv, LockInv, SoleInv, PhaseInv, GiveUp
  <2> QED
    BY <2>1, <2>2, <2>3, <2>4, <2>5, <2>6, <2>7
<1>9. ASSUME Unclaim(c) PROVE IInv'
  <2>1. TypeInv'
    BY <1>9, SMTT(60) DEF TypeInv, Owners, Places, CollectPlaces, Unclaim
  <2>2. PlaceInv'
    BY <1>9, SMTT(60) DEF TypeInv, Unclaim
  <2>3. LockInv'
    BY <1>9, SMTT(60) DEF TypeInv, LockInv, PhaseInv, SoleInv, StagedInv, Unclaim
  <2>4. SoleInv'
    BY <1>9, SMTT(60) DEF TypeInv, SoleInv, LockInv, PhaseInv, Unclaim
  <2>5. PhaseInv'
    BY <1>9, SMTT(60) DEF TypeInv, PhaseInv, LockInv, SoleInv, StagedInv, Unclaim
  <2>6. StagedInv'
    BY <1>9, SMTT(60) DEF TypeInv, StagedInv, PhaseInv, LockInv, Unclaim
  <2>7. KeptInv'
    BY <1>9, SMTT(60) DEF TypeInv, KeptInv, LockInv, SoleInv, PhaseInv, Unclaim
  <2> QED
    BY <2>1, <2>2, <2>3, <2>4, <2>5, <2>6, <2>7
<1>10. ASSUME LeaveStorage(c) PROVE IInv'
  <2>1. TypeInv'
    BY <1>10, SMTT(60) DEF TypeInv, Owners, Places, CollectPlaces, LeaveStorage
  <2>2. PlaceInv'
    BY <1>10, SMTT(60) DEF TypeInv, LeaveStorage
  <2>3. LockInv'
    BY <1>10, SMTT(60) DEF TypeInv, LockInv, PhaseInv, SoleInv, StagedInv, LeaveStorage
  <2>4. SoleInv'
    BY <1>10, SMTT(60) DEF TypeInv, SoleInv, LockInv, PhaseInv, LeaveStorage
  <2>5. PhaseInv'
    BY <1>10, SMTT(60) DEF TypeInv, PhaseInv, LockInv, SoleInv, StagedInv, LeaveStorage
  <2>6. StagedInv'
    BY <1>10, SMTT(60) DEF TypeInv, StagedInv, PhaseInv, LockInv, LeaveStorage
  <2>7. KeptInv'
    <3>1. ASSUME NEW d \in Client, d # c, FromStaged(c), at[d] \in MakingPlaces
          PROVE  T(d) # T(c)
      BY <1>10, <3>1, OneMaker DEF LeaveStorage
    <3>2. at[c] = "leave" => T(c) \in index
      BY DEF KeptInv
    <3> QED
      BY <1>10, <3>1, <3>2 DEF TypeInv, KeptInv, MakingPlaces, LeaveStorage
  <2> QED
    BY <2>1, <2>2, <2>3, <2>4, <2>5, <2>6, <2>7
<1>11. ASSUME Consume(c) PROVE IInv'
  BY <1>11, SMTT(60) DEF TypeInv, Owners, Places, CollectPlaces, LockInv,
           SoleInv, PhaseInv, StagedInv, KeptInv, Consume
<1>12. ASSUME Deliver(c) PROVE IInv'
  <2>1. TypeInv'
    BY <1>12, SMTT(60) DEF TypeInv, Owners, Places, CollectPlaces, Deliver
  <2>2. PlaceInv'
    BY <1>12, SMTT(60) DEF TypeInv, Deliver
  <2>3. LockInv'
    BY <1>12, SMTT(60) DEF TypeInv, LockInv, PhaseInv, SoleInv, StagedInv, Deliver
  <2>4. SoleInv'
    BY <1>12, SMTT(60) DEF TypeInv, SoleInv, LockInv, PhaseInv, Deliver
  <2>5. PhaseInv'
    BY <1>12, SMTT(60) DEF TypeInv, PhaseInv, LockInv, SoleInv, StagedInv, Deliver
  <2>6. StagedInv'
    BY <1>12, SMTT(60) DEF TypeInv, StagedInv, PhaseInv, LockInv, Deliver
  <2>7. KeptInv'
    <3>1. ASSUME NEW d \in Client, d # c, at[d] \in MakingPlaces
          PROVE  T(d) # T(c)
      BY <1>12, <3>1, NoTwoMakers DEF MakingPlaces, Deliver
    <3> QED
      BY <1>12, <3>1, SMTT(60) DEF TypeInv, KeptInv, MakingPlaces, Deliver
  <2> QED
    BY <2>1, <2>2, <2>3, <2>4, <2>5, <2>6, <2>7
<1>13. ASSUME Rollback(c) PROVE IInv'
  BY <1>13, SMTT(60) DEF TypeInv, Owners, Places, CollectPlaces, LockInv,
           SoleInv, PhaseInv, StagedInv, KeptInv, Rollback
<1>14. ASSUME DropIndex(c) PROVE IInv'
  BY <1>14, SMTT(60) DEF TypeInv, Owners, Places, CollectPlaces, LockInv,
           SoleInv, PhaseInv, StagedInv, KeptInv, DropIndex
<1>15. ASSUME DropJournal(c) PROVE IInv'
  BY <1>15, SMTT(60) DEF TypeInv, Owners, Places, CollectPlaces, LockInv,
           SoleInv, PhaseInv, StagedInv, KeptInv, DropJournal
<1>16. ASSUME DropWriter(c) PROVE IInv'
  BY <1>16, SMTT(60) DEF TypeInv, Owners, Places, CollectPlaces, LockInv,
           SoleInv, PhaseInv, StagedInv, KeptInv, DropWriter
<1> QED
  BY <1>1, <1>2, <1>3, <1>4, <1>5, <1>6, <1>7, <1>8, <1>9, <1>10, <1>11, <1>12, <1>13, <1>14, <1>15, <1>16 DEF Create

\* Shutdowns and discards.
LEMMA CloseKeeps ==
  ASSUME IInv, NEW c \in Client, Close(c)
  PROVE  IInv'
<1> USE Names, CallFacts
    DEF IInv, PlaceInv, Makes, Claims, Opens, Closes, Owns, Same, OpOf, T,
        MakePlaces, OpenedPlaces, StagedPlaces, DeletePlaces, ForkPlaces, Ends,
        Goes, Returns, Works, Fails, Locks, Unlocks, Adds, Drops, FromStaged,
        NoCall, storeVars, diskVars, lockVars, stagedVars, writerVars, boundVars
<1>1. ASSUME Unlock(c) PROVE IInv'
  <2>1. lock[T(c)] \in {c, ProcessOf[c]}
    BY <1>1 DEF LockInv, Unlock
  <2>2. TypeInv'
    BY <1>1, SMTT(60) DEF TypeInv, Owners, Places, CollectPlaces, Unlock
  <2>3. PlaceInv'
    BY <1>1, SMTT(60) DEF TypeInv, Unlock
  <2>4. LockInv'
    BY <1>1, <2>1, SMTT(60) DEF TypeInv, LockInv, PhaseInv, SoleInv,
       StagedInv, Unlock
  <2>5. SoleInv'
    BY <1>1, SMTT(60) DEF TypeInv, SoleInv, Unlock
  <2>6. PhaseInv' /\ StagedInv' /\ KeptInv'
    BY <1>1, SMTT(60) DEF TypeInv, PhaseInv, StagedInv, KeptInv, Unlock
  <2> QED
    BY <2>2, <2>3, <2>4, <2>5, <2>6
<1>2. ASSUME Materialized(c) PROVE IInv'
  BY <1>2, SMTT(60) DEF TypeInv, Owners, Places, CollectPlaces, LockInv,
           SoleInv, PhaseInv, StagedInv, KeptInv, Materialized, Materializing
<1>3. ASSUME ShutdownThread(c) PROVE IInv'
  <2>1. TypeInv'
    BY <1>3, SMTT(60) DEF TypeInv, Owners, Places, CollectPlaces, ShutdownThread, Materializing, Awaits
  <2>2. PlaceInv'
    BY <1>3, SMTT(60) DEF TypeInv, ShutdownThread, Materializing, Awaits
  <2>3. LockInv'
    BY <1>3, SMTT(60) DEF TypeInv, LockInv, PhaseInv, SoleInv, StagedInv, ShutdownThread, Materializing, Awaits
  <2>4. SoleInv'
    BY <1>3, SMTT(60) DEF TypeInv, SoleInv, LockInv, PhaseInv, ShutdownThread, Materializing, Awaits
  <2>5. PhaseInv'
    BY <1>3, SMTT(60) DEF TypeInv, PhaseInv, LockInv, SoleInv, StagedInv, ShutdownThread, Materializing, Awaits
  <2>6. StagedInv'
    BY <1>3, SMTT(60) DEF TypeInv, StagedInv, PhaseInv, LockInv, ShutdownThread, Materializing, Awaits
  <2>7. KeptInv'
    BY <1>3, SMTT(60) DEF TypeInv, KeptInv, LockInv, SoleInv, PhaseInv, ShutdownThread, Materializing, Awaits
  <2> QED
    BY <2>1, <2>2, <2>3, <2>4, <2>5, <2>6, <2>7
<1>4. ASSUME Drain(c) PROVE IInv'
  <2>1. TypeInv'
    BY <1>4, SMTT(60) DEF TypeInv, Owners, Places, CollectPlaces, Drain
  <2>2. PlaceInv'
    BY <1>4, SMTT(60) DEF TypeInv, Drain
  <2>3. LockInv'
    BY <1>4, SMTT(60) DEF TypeInv, LockInv, PhaseInv, SoleInv, StagedInv, Drain
  <2>4. SoleInv'
    BY <1>4, SMTT(60) DEF TypeInv, SoleInv, LockInv, PhaseInv, Drain
  <2>5. PhaseInv'
    BY <1>4, SMTT(60) DEF TypeInv, PhaseInv, LockInv, SoleInv, StagedInv, Drain
  <2>6. StagedInv'
    BY <1>4, SMTT(60) DEF TypeInv, StagedInv, PhaseInv, LockInv, Drain
  <2>7. KeptInv'
    BY <1>4, SMTT(60) DEF TypeInv, KeptInv, LockInv, SoleInv, PhaseInv, Drain
  <2> QED
    BY <2>1, <2>2, <2>3, <2>4, <2>5, <2>6, <2>7
<1>5. ASSUME DiscardThread(c) PROVE IInv'
  <2>1. TypeInv'
    BY <1>5, SMTT(60) DEF TypeInv, Owners, Places, CollectPlaces, DiscardThread, Materializing, Awaits
  <2>2. PlaceInv'
    BY <1>5, SMTT(60) DEF TypeInv, PhaseInv, StagedInv, DiscardThread,
                          Materializing, Awaits
  <2>3. LockInv'
    BY <1>5, SMTT(60) DEF TypeInv, LockInv, PhaseInv, SoleInv, StagedInv, DiscardThread, Materializing, Awaits
  <2>4. SoleInv'
    BY <1>5, SMTT(60) DEF TypeInv, SoleInv, LockInv, PhaseInv, DiscardThread, Materializing, Awaits
  <2>5. PhaseInv'
    BY <1>5, SMTT(60) DEF TypeInv, PhaseInv, LockInv, SoleInv, StagedInv, DiscardThread, Materializing, Awaits
  <2>6. StagedInv'
    BY <1>5, SMTT(60) DEF TypeInv, StagedInv, PhaseInv, LockInv, DiscardThread, Materializing, Awaits
  <2>7. KeptInv'
    BY <1>5, SMTT(60) DEF TypeInv, KeptInv, LockInv, SoleInv, PhaseInv, DiscardThread, Materializing, Awaits
  <2> QED
    BY <2>1, <2>2, <2>3, <2>4, <2>5, <2>6, <2>7
<1>6. ASSUME DiscardStaged(c) PROVE IInv'
  BY <1>6, SMTT(60) DEF TypeInv, Owners, Places, CollectPlaces, LockInv,
           SoleInv, PhaseInv, StagedInv, KeptInv, DiscardStaged
<1>7. ASSUME RemoveStaged(c) PROVE IInv'
  BY <1>7, SMTT(60) DEF TypeInv, Owners, Places, CollectPlaces, LockInv,
           SoleInv, PhaseInv, StagedInv, KeptInv, RemoveStaged
<1>8. ASSUME ReleaseStaged(c) PROVE IInv'
  BY <1>8, SMTT(60) DEF TypeInv, Owners, Places, CollectPlaces, LockInv,
           SoleInv, PhaseInv, StagedInv, KeptInv, ReleaseStaged
<1>9. ASSUME KeepStaged(c) PROVE IInv'
  BY <1>9, SMTT(60) DEF TypeInv, Owners, Places, CollectPlaces, LockInv,
           SoleInv, PhaseInv, StagedInv, KeptInv, KeepStaged
<1>10. ASSUME DiscardUnlocked(c) PROVE IInv'
  BY <1>10, SMTT(60) DEF TypeInv, Owners, Places, CollectPlaces, LockInv,
           SoleInv, PhaseInv, StagedInv, KeptInv, DiscardUnlocked
<1>11. ASSUME RemoveUnlocked(c) PROVE IInv'
  BY <1>11, SMTT(60) DEF TypeInv, Owners, Places, CollectPlaces, LockInv,
           SoleInv, PhaseInv, StagedInv, KeptInv, RemoveUnlocked
<1> QED
  BY <1>1, <1>2, <1>3, <1>4, <1>5, <1>6, <1>7, <1>8, <1>9, <1>10, <1>11
     DEF Close

\* Resumptions.
LEMMA ResumeKeeps ==
  ASSUME IInv, NEW c \in Client, Resume(c)
  PROVE  IInv'
<1> USE Names, CallFacts
    DEF IInv, PlaceInv, Makes, Claims, Opens, Closes, Owns, Same, OpOf, T,
        MakePlaces, OpenedPlaces, StagedPlaces, DeletePlaces, ForkPlaces, Ends,
        Goes, Returns, Works, Fails, Locks, Unlocks, Adds, Drops, FromStaged,
        NoCall, storeVars, diskVars, lockVars, stagedVars, writerVars, boundVars
<1>1. ASSUME ResumeThread(c) PROVE IInv'
  <2>1. TypeInv'
    <3>1. /\ at \in [Actor -> Places] /\ {"idle", "reopen"} \subseteq Places
          /\ call \in [Actor -> CallType \cup {NoCall}]
      BY DEF TypeInv, Places
    <3>2. \/ at' = [at EXCEPT ![c] = "reopen"] /\ UNCHANGED call
          \/ /\ at' = [at EXCEPT ![c] = "idle"]
             /\ call' = [call EXCEPT ![c] = NoCall]
      BY <1>1 DEF ResumeThread
    <3>3. at' \in [Actor -> Places] /\ call' \in [Actor -> CallType \cup {NoCall}]
      BY <3>1, <3>2
    <3> QED
      BY <1>1, <3>3 DEF TypeInv, ResumeThread
  <2>2. PlaceInv'
    BY <1>1, SMTT(60) DEF TypeInv, ResumeThread
  <2>3. LockInv'
    BY <1>1, SMTT(60) DEF TypeInv, LockInv, PhaseInv, SoleInv, StagedInv, ResumeThread
  <2>4. SoleInv'
    BY <1>1, SMTT(60) DEF TypeInv, SoleInv, LockInv, PhaseInv, ResumeThread
  <2>5. PhaseInv'
    BY <1>1, SMTT(60) DEF TypeInv, PhaseInv, LockInv, SoleInv, StagedInv, ResumeThread
  <2>6. StagedInv'
    BY <1>1, SMTT(60) DEF TypeInv, StagedInv, PhaseInv, LockInv, ResumeThread
  <2>7. KeptInv'
    BY <1>1, SMTT(60) DEF TypeInv, KeptInv, LockInv, SoleInv, PhaseInv, ResumeThread
  <2> QED
    BY <2>1, <2>2, <2>3, <2>4, <2>5, <2>6, <2>7
<1>2. ASSUME Reopen(c) PROVE IInv'
  <2>1. TypeInv'
    BY <1>2, SMTT(60) DEF TypeInv, Owners, Places, CollectPlaces, Reopen
  <2>2. PlaceInv'
    BY <1>2, SMTT(60) DEF TypeInv, Reopen
  <2>3. LockInv'
    BY <1>2, SMTT(60) DEF TypeInv, LockInv, PhaseInv, SoleInv, StagedInv, Reopen
  <2>4. SoleInv'
    BY <1>2, SMTT(60) DEF TypeInv, SoleInv, LockInv, PhaseInv, Reopen
  <2>5. PhaseInv'
    BY <1>2, SMTT(60) DEF TypeInv, PhaseInv, LockInv, SoleInv, StagedInv, Reopen
  <2>6. StagedInv'
    BY <1>2, SMTT(60) DEF TypeInv, StagedInv, PhaseInv, LockInv, Reopen
  <2>7. KeptInv'
    BY <1>2, SMTT(60) DEF TypeInv, KeptInv, LockInv, SoleInv, PhaseInv, Reopen
  <2> QED
    BY <2>1, <2>2, <2>3, <2>4, <2>5, <2>6, <2>7
<1>3. ASSUME Repair(c) PROVE IInv'
  <2>1. TypeInv'
    BY <1>3, SMTT(60) DEF TypeInv, Owners, Places, CollectPlaces, Repair
  <2>2. PlaceInv'
    BY <1>3, SMTT(60) DEF TypeInv, Repair
  <2>3. LockInv'
    BY <1>3, SMTT(60) DEF TypeInv, LockInv, PhaseInv, SoleInv, StagedInv, Repair
  <2>4. SoleInv'
    BY <1>3, SMTT(60) DEF TypeInv, SoleInv, LockInv, PhaseInv, Repair
  <2>5. PhaseInv'
    BY <1>3, SMTT(60) DEF TypeInv, PhaseInv, LockInv, SoleInv, StagedInv, Repair
  <2>6. StagedInv'
    BY <1>3, SMTT(60) DEF TypeInv, StagedInv, PhaseInv, LockInv, Repair
  <2>7. KeptInv'
    BY <1>3, SMTT(60) DEF TypeInv, KeptInv, LockInv, SoleInv, PhaseInv, Repair
  <2> QED
    BY <2>1, <2>2, <2>3, <2>4, <2>5, <2>6, <2>7
<1>4. ASSUME ReadResumed(c) PROVE IInv'
  <2>1. TypeInv'
    BY <1>4, SMTT(60) DEF TypeInv, Owners, Places, CollectPlaces, ReadResumed
  <2>2. PlaceInv'
    BY <1>4, SMTT(60) DEF TypeInv, ReadResumed
  <2>3. LockInv'
    <3>1. lock[T(c)] = ProcessOf[c]
      BY <1>4 DEF LockInv, ReadResumed
    <3> QED
      BY <1>4, <3>1 DEF TypeInv, LockInv, ReadResumed
  <2>4. SoleInv'
    BY <1>4, SMTT(60) DEF TypeInv, SoleInv, LockInv, PhaseInv, ReadResumed
  <2>5. PhaseInv'
    BY <1>4, SMTT(60) DEF TypeInv, PhaseInv, LockInv, SoleInv, StagedInv, ReadResumed
  <2>6. StagedInv'
    BY <1>4, SMTT(60) DEF TypeInv, StagedInv, PhaseInv, LockInv, ReadResumed
  <2>7. KeptInv'
    <3>1. ASSUME NEW d \in Client, d # c, at[d] \in MakingPlaces
          PROVE  T(d) # T(c)
      BY <1>4, <3>1, OneMaker DEF ReadResumed
    <3> QED
      BY <1>4, <3>1 DEF TypeInv, KeptInv, MakingPlaces, ReadResumed
  <2> QED
    BY <2>1, <2>2, <2>3, <2>4, <2>5, <2>6, <2>7
<1> QED
  BY <1>1, <1>2, <1>3, <1>4 DEF Resume

\* Forks, until the target is claimed.
LEMMA ForkKeeps ==
  ASSUME IInv, NEW c \in Client, Fork(c)
  PROVE  IInv'
<1> USE Names, CallFacts
    DEF IInv, PlaceInv, Makes, Claims, Opens, Closes, Owns, Same, OpOf, T,
        MakePlaces, OpenedPlaces, StagedPlaces, DeletePlaces, ForkPlaces, Ends,
        Goes, Returns, Works, Fails, Locks, Unlocks, Adds, Drops, FromStaged,
        NoCall, storeVars, diskVars, lockVars, stagedVars, writerVars, boundVars
<1>1. ASSUME PrepareFork(c) PROVE IInv'
  <2>1. TypeInv'
    BY <1>1, SMTT(60) DEF TypeInv, Owners, Places, CollectPlaces, PrepareFork, S
  <2>2. PlaceInv'
    BY <1>1, SMTT(60) DEF TypeInv, PrepareFork, S
  <2>3. LockInv'
    BY <1>1, SMTT(60) DEF TypeInv, LockInv, PhaseInv, SoleInv, StagedInv, PrepareFork, S
  <2>4. SoleInv'
    BY <1>1, SMTT(60) DEF TypeInv, SoleInv, LockInv, PhaseInv, PrepareFork, S
  <2>5. PhaseInv'
    BY <1>1, SMTT(60) DEF TypeInv, PhaseInv, LockInv, SoleInv, StagedInv, PrepareFork, S
  <2>6. StagedInv'
    BY <1>1, SMTT(60) DEF TypeInv, StagedInv, PhaseInv, LockInv, PrepareFork, S
  <2>7. KeptInv'
    BY <1>1, SMTT(60) DEF TypeInv, KeptInv, LockInv, SoleInv, PhaseInv, PrepareFork, S
  <2> QED
    BY <2>1, <2>2, <2>3, <2>4, <2>5, <2>6, <2>7
<1>2. ASSUME Reserve(c) PROVE IInv'
  BY <1>2, SMTT(60) DEF TypeInv, Owners, Places, CollectPlaces, LockInv,
           SoleInv, PhaseInv, StagedInv, KeptInv, Reserve
<1>3. ASSUME Snapshot(c) PROVE IInv'
  BY <1>3, SMTT(60) DEF TypeInv, Owners, Places, CollectPlaces, LockInv,
           SoleInv, PhaseInv, StagedInv, KeptInv, Snapshot
<1>4. ASSUME Prepared(c) PROVE IInv'
  <2>1. TypeInv'
    BY <1>4, SMTT(60) DEF TypeInv, Owners, Places, CollectPlaces, Prepared, S
  <2>2. PlaceInv'
    BY <1>4, SMTT(60) DEF TypeInv, Prepared, S
  <2>3. LockInv'
    BY <1>4, SMTT(60) DEF TypeInv, LockInv, PhaseInv, SoleInv, StagedInv, Prepared, S
  <2>4. SoleInv'
    BY <1>4, SMTT(60) DEF TypeInv, SoleInv, LockInv, PhaseInv, Prepared, S
  <2>5. PhaseInv'
    BY <1>4, SMTT(60) DEF TypeInv, PhaseInv, LockInv, SoleInv, StagedInv, Prepared, S
  <2>6. StagedInv'
    BY <1>4, SMTT(60) DEF TypeInv, StagedInv, PhaseInv, LockInv, Prepared, S
  <2>7. KeptInv'
    BY <1>4, SMTT(60) DEF TypeInv, KeptInv, LockInv, SoleInv, PhaseInv, Prepared, S
  <2> QED
    BY <2>1, <2>2, <2>3, <2>4, <2>5, <2>6, <2>7
<1>5. ASSUME ReleasePreparedFork(c) PROVE IInv'
  BY <1>5, SMTT(60) DEF TypeInv, Owners, Places, CollectPlaces, LockInv,
           SoleInv, PhaseInv, StagedInv, KeptInv, ReleasePreparedFork
<1> QED
  BY <1>1, <1>2, <1>3, <1>4, <1>5 DEF Fork

\* Deletions.
LEMMA DeleteKeeps ==
  ASSUME IInv, NEW c \in Client, Delete(c)
  PROVE  IInv'
<1> USE Names, CallFacts
    DEF IInv, PlaceInv, Makes, Claims, Opens, Closes, Owns, Same, OpOf, T,
        MakePlaces, OpenedPlaces, StagedPlaces, DeletePlaces, ForkPlaces, Ends,
        Goes, Returns, Works, Fails, Locks, Unlocks, Adds, Drops, FromStaged,
        NoCall, storeVars, diskVars, lockVars, stagedVars, writerVars, boundVars
<1>1. ASSUME DeleteThread(c) PROVE IInv'
  <2>1. TypeInv'
    BY <1>1, SMTT(60) DEF TypeInv, Owners, Places, CollectPlaces, DeleteThread, Materializing, Awaits
  <2>2. PlaceInv'
    BY <1>1, SMTT(60) DEF TypeInv, DeleteThread, Materializing, Awaits
  <2>3. LockInv'
    BY <1>1, SMTT(60) DEF TypeInv, LockInv, PhaseInv, SoleInv, StagedInv, DeleteThread, Materializing, Awaits
  <2>4. SoleInv'
    BY <1>1, SMTT(60) DEF TypeInv, SoleInv, LockInv, PhaseInv, DeleteThread, Materializing, Awaits
  <2>5. PhaseInv'
    <3> USE <1>1 DEF TypeInv, PhaseInv, DeleteThread, Materializing, Awaits
    <3>1. CASE Materializing(c)
      BY <3>1
    <3>2. CASE ~ Materializing(c) /\ T(c) \in staged[ProcessOf[c]]
      BY <3>2 DEF StagedInv
    <3>3. CASE ~ Materializing(c) /\ T(c) \notin staged[ProcessOf[c]]
      BY <3>3
    <3> QED
      BY <3>1, <3>2, <3>3
  <2>6. StagedInv'
    BY <1>1, SMTT(60) DEF TypeInv, StagedInv, PhaseInv, LockInv, DeleteThread, Materializing, Awaits
  <2>7. KeptInv'
    BY <1>1, SMTT(60) DEF TypeInv, KeptInv, LockInv, SoleInv, PhaseInv, DeleteThread, Materializing, Awaits
  <2> QED
    BY <2>1, <2>2, <2>3, <2>4, <2>5, <2>6, <2>7
<1>2. ASSUME EnterDelete(c) PROVE IInv'
  BY <1>2, SMTT(60) DEF TypeInv, Owners, Places, CollectPlaces, LockInv,
           SoleInv, PhaseInv, StagedInv, KeptInv, EnterDelete
<1>3. ASSUME RemoveIndex(c) PROVE IInv'
  <2>1. TypeInv'
    BY <1>3, SMTT(60) DEF TypeInv, Owners, Places, CollectPlaces, RemoveIndex
  <2>2. PlaceInv'
    BY <1>3, SMTT(60) DEF TypeInv, RemoveIndex
  <2>3. LockInv'
    BY <1>3, SMTT(60) DEF TypeInv, LockInv, PhaseInv, SoleInv, StagedInv, RemoveIndex
  <2>4. SoleInv'
    BY <1>3, SMTT(60) DEF TypeInv, SoleInv, LockInv, PhaseInv, RemoveIndex
  <2>5. PhaseInv'
    BY <1>3, SMTT(60) DEF TypeInv, PhaseInv, LockInv, SoleInv, StagedInv, RemoveIndex
  <2>6. StagedInv'
    BY <1>3, SMTT(60) DEF TypeInv, StagedInv, PhaseInv, LockInv, RemoveIndex
  <2>7. KeptInv'
    BY <1>3, SMTT(60) DEF TypeInv, KeptInv, LockInv, SoleInv, PhaseInv, RemoveIndex
  <2> QED
    BY <2>1, <2>2, <2>3, <2>4, <2>5, <2>6, <2>7
<1>4. ASSUME LeaveDelete(c) PROVE IInv'
  BY <1>4, SMTT(60) DEF TypeInv, Owners, Places, CollectPlaces, LockInv,
           SoleInv, PhaseInv, StagedInv, KeptInv, LeaveDelete
<1>5. ASSUME UnclaimDeleted(c) PROVE IInv'
  BY <1>5, SMTT(60) DEF TypeInv, Owners, Places, CollectPlaces, LockInv,
           SoleInv, PhaseInv, StagedInv, KeptInv, UnclaimDeleted
<1> QED
  BY <1>1, <1>2, <1>3, <1>4, <1>5 DEF Delete

\* Collections, by a client and by the caller that opens a store.
CollectVars == <<index, lockFiles, staged, making, closing, writers, held,
                 kept, left>>
LEMMA CollectKeeps ==
  ASSUME IInv, NEW a \in Actor, CollectStep(a)
  PROVE  IInv'
<1> USE Names, CallFacts
    DEF IInv, PlaceInv, Makes, Claims, Opens, Closes, Owns, Same, OpOf, T,
        MakePlaces, OpenedPlaces, StagedPlaces, DeletePlaces, ForkPlaces, Ends,
        Goes, NoCall, storeVars, diskVars, lockVars, stagedVars, writerVars,
        boundVars
<1>1. ASSUME Collect(a) PROVE IInv'
  BY <1>1, SMTT(60) DEF TypeInv, Owners, Places, CollectPlaces, LockInv,
           SoleInv, PhaseInv, StagedInv, KeptInv, Collect
<1>2. ASSUME Probe(a) PROVE IInv'
  <2>1. TypeInv'
    BY <1>2, SMTT(60) DEF TypeInv, Owners, Places, CollectPlaces, Probe
  <2>2. PlaceInv'
    BY <1>2, SMTT(60) DEF TypeInv, Probe
  <2>3. LockInv'
    <3>1. PICK u \in todo[a] : \/ /\ lock[u] = "free"
                                  /\ lock' = [lock EXCEPT ![u] = a]
                               \/ UNCHANGED lock
      BY <1>2 DEF Probe
    <3>2. \A v \in Thread : lock[v] # "free" => lock'[v] = lock[v]
      BY <3>1 DEF TypeInv
    <3>3. UNCHANGED <<call, writers, staged, held>>
      BY <1>2 DEF Probe
    <3>4. \A d \in Client : Claims(d)' => Claims(d) /\ at[d] # "idle"
      BY <1>2 DEF TypeInv, Probe
    <3>5. \A d \in Client :
            (Owns(d) \/ Makes(d))' => (Owns(d) \/ Makes(d)) /\ at[d] # "idle"
      BY <1>2 DEF TypeInv, Probe
    <3>6. ASSUME NEW p \in Process, NEW t \in (writers[p] \cup staged[p] \cup held[p])'
          PROVE  lock'[t] = p
      <4>1. t \in writers[p] \cup staged[p] \cup held[p] /\ t \in Thread
        BY <3>3, <3>6 DEF TypeInv
      <4>2. lock[t] = p /\ p # "free"
        BY <4>1, NamesAssumption DEF LockInv, NamesAssumption
      <4> QED
        BY <3>2, <4>1, <4>2
    <3>7. ASSUME NEW d \in Client, Claims(d)' PROVE lock'[T(d)'] = d
      BY <3>2, <3>3, <3>4, <3>7 DEF LockInv
    <3>8. ASSUME NEW d \in Client, Owns(d)' \/ Makes(d)'
          PROVE  lock'[T(d)'] = ProcessOf[d]
      BY <3>2, <3>3, <3>5, <3>8 DEF LockInv
    <3> QED
      BY <3>6, <3>7, <3>8 DEF LockInv
  <2>4. SoleInv'
    BY <1>2, SMTT(60) DEF TypeInv, SoleInv, Probe
  <2>5. PhaseInv'
    BY <1>2, SMTT(60) DEF TypeInv, PhaseInv, Probe
  <2>6. StagedInv' /\ KeptInv'
    BY <1>2, SMTT(60) DEF TypeInv, StagedInv, KeptInv, Probe
  <2> QED
    BY <2>1, <2>2, <2>3, <2>4, <2>5, <2>6
<1>3. ASSUME Probed(a) PROVE IInv'
  <2>1. a \notin Process
    BY CallersAreNoProcesses
  <2>2. PICK t \in todo[a] : lock[t] = a /\ lock' = [lock EXCEPT ![t] = "free"]
    BY <1>3 DEF Probed
  <2>3. TypeInv'
    BY <1>3, <2>2 DEF TypeInv, Owners, Places, CollectPlaces, Probed
  <2>4. PlaceInv'
    BY <1>3, SMTT(60) DEF TypeInv, Probed
  <2>5. LockInv'
    BY <1>3, <2>1, <2>2 DEF TypeInv, LockInv, Probed
  <2>6. SoleInv'
    BY <1>3, SMTT(60) DEF TypeInv, SoleInv, Probed
  <2>7. PhaseInv'
    BY <1>3, SMTT(60) DEF TypeInv, PhaseInv, Probed
  <2>8. StagedInv' /\ KeptInv'
    BY <1>3, SMTT(60) DEF TypeInv, StagedInv, KeptInv, Probed
  <2> QED
    BY <2>3, <2>4, <2>5, <2>6, <2>7, <2>8
<1>4. ASSUME Scan(a) PROVE IInv'
  BY <1>4, SMTT(60) DEF TypeInv, Owners, Places, CollectPlaces, LockInv,
           SoleInv, PhaseInv, StagedInv, KeptInv, Scan
<1>5. ASSUME Sweep(a) PROVE IInv'
  BY <1>5, SMTT(60) DEF TypeInv, Owners, Places, CollectPlaces, LockInv,
           SoleInv, PhaseInv, StagedInv, KeptInv, Sweep
<1>6. ASSUME LeaveCollect(a) PROVE IInv'
  BY <1>6, SMTT(60) DEF TypeInv, Owners, Places, CollectPlaces, LockInv,
           SoleInv, PhaseInv, StagedInv, KeptInv, LeaveCollect
<1> QED
  BY <1>1, <1>2, <1>3, <1>4, <1>5, <1>6 DEF CollectStep

-----------------------------------------------------------------------------
(* The calls that clients make, the processes, and the theorems.           *)

\* A call that is made.
LEMMA CallKeeps ==
  ASSUME IInv, ~ GoalsRaceCloses, NEW c \in Client, NEW k \in left[c],
         MakeCall(c, k)
  PROVE  IInv'
<1> USE Names, CallFacts
    DEF IInv, PlaceInv, Makes, Claims, Opens, Closes, Owns, Same, OpOf, T,
        MakePlaces, OpenedPlaces, StagedPlaces, DeletePlaces, ForkPlaces, Ends,
        Calls, Adds, Drops, NoCall, storeVars, diskVars, lockVars, stagedVars,
        writerVars, boundVars
<1>0. k \in CallType
  BY DEF TypeInv
<1>1. ASSUME CreateThread(c, k) PROVE IInv'
  <2>1. TypeInv'
    <3>1. lock' \in [Thread -> Owners] /\ at' \in [Actor -> Places]
      BY <1>0, <1>1 DEF TypeInv, Owners, Places, CallType, CreateThread
    <3>2. /\ call' \in [Actor -> CallType \cup {NoCall}]
          /\ left' \in [Client -> SUBSET CallType]
      BY <1>1 DEF TypeInv, CreateThread
    <3>3. staged' \in [Process -> SUBSET Thread] /\ held' \in [Process -> SUBSET Thread]
      BY <1>0, <1>1 DEF TypeInv, CallType, CreateThread
    <3> QED
      BY <1>1, <3>1, <3>2, <3>3 DEF TypeInv, CreateThread
  <2>2. PlaceInv'
    BY <1>0, <1>1, SMTT(60) DEF TypeInv, CreateThread, CallType
  <2>3. LockInv'
    BY <1>0, <1>1, SMTT(60) DEF TypeInv, LockInv, CreateThread, CallType
  <2>4. SoleInv'
    BY <1>0, <1>1, SMTT(60) DEF TypeInv, SoleInv, LockInv, CreateThread, CallType
  <2>5. PhaseInv'
    BY <1>0, <1>1, SMTT(60) DEF TypeInv, PhaseInv, LockInv, CreateThread, CallType
  <2>6. StagedInv' /\ KeptInv'
    BY <1>0, <1>1, SMTT(60) DEF TypeInv, StagedInv, KeptInv, LockInv, CreateThread, CallType
  <2> QED
    BY <2>1, <2>2, <2>3, <2>4, <2>5, <2>6
<1>2. ASSUME PersistThread(c, k) PROVE IInv'
  BY <1>0, <1>2, SMTT(60) DEF TypeInv, Owners, Places, CollectPlaces, CallType,
           LockInv, SoleInv, PhaseInv, StagedInv, KeptInv, PersistThread
<1>3. ASSUME CallStore(c, k) PROVE IInv'
  <2> USE <1>0, <1>3 DEF TypeInv, CallType, Operations, CallStore
  <2>1. TypeInv'
    BY DEF Owners, Places, CollectPlaces
  <2>2. PlaceInv'
    OBVIOUS
  <2>3. LockInv'
    BY DEF LockInv
  <2>4. SoleInv'
    BY DEF SoleInv, LockInv, PhaseInv, Ending
  <2>5. PhaseInv'
    BY DEF PhaseInv
  <2>6. StagedInv' /\ KeptInv'
    BY DEF StagedInv, KeptInv
  <2> QED
    BY <2>1, <2>2, <2>3, <2>4, <2>5, <2>6
<1> QED
  BY <1>1, <1>2, <1>3 DEF MakeCall

\* A process opens its store, or dies.
LEMMA ProcessKeeps ==
  ASSUME IInv, NEW p \in Process, Open(p) \/ Crash(p)
  PROVE  IInv'
<1> USE Names, CallFacts
    DEF IInv, PlaceInv, Makes, Claims, Opens, Closes, Owns, Same, OpOf, T,
        MakePlaces, OpenedPlaces, StagedPlaces, DeletePlaces, ForkPlaces, Ends,
        NoCall, storeVars, diskVars, lockVars, stagedVars, writerVars,
        boundVars
<1>1. ASSUME Open(p) PROVE IInv'
  <2>1. TypeInv'
    <3>1. at \in [Actor -> Places] /\ "collect" \in Places
      BY DEF TypeInv, Places, CollectPlaces
    <3>2. at' = [at EXCEPT ![Boot[p]] = "collect"]
      BY <1>1 DEF Open
    <3>3. at' \in [Actor -> Places]
      BY <3>1, <3>2
    <3> QED
      BY <1>1, <3>3 DEF TypeInv, Open
  <2>2. PlaceInv'
    BY <1>1, SMTT(60) DEF TypeInv, Open
  <2>3. LockInv'
    BY <1>1, SMTT(60) DEF TypeInv, LockInv, Open
  <2>4. SoleInv'
    BY <1>1, SMTT(60) DEF TypeInv, SoleInv, Open
  <2>5. PhaseInv'
    BY <1>1, SMTT(60) DEF TypeInv, PhaseInv, Open
  <2>6. StagedInv' /\ KeptInv'
    BY <1>1, SMTT(60) DEF TypeInv, StagedInv, KeptInv, Open
  <2> QED
    BY <2>1, <2>2, <2>3, <2>4, <2>5, <2>6
<1>2. ASSUME Crash(p) PROVE IInv'
  <2> USE <1>2, ProcessOfAssumption
      DEF TypeInv, Crash, OfProcess, ProcessOfAssumption
  <2>1. TypeInv'
    BY DEF Owners, Places
  <2>2. PlaceInv'
    OBVIOUS
  <2>0. ASSUME NEW d \in Client
        PROVE  /\ ProcessOf[d] = p => at'[d] = "idle"
               /\ ProcessOf[d] # p => at'[d] = at[d] /\ call'[d] = call[d]
    BY NamesAssumption DEF NamesAssumption
  <2>3. LockInv'
    <3>1. ASSUME NEW q \in Process, NEW t \in (writers[q] \cup staged[q] \cup held[q])'
          PROVE  lock'[t] = q
      <4>1. q # p
        BY DEF LockInv
      <4>2. t \in writers[q] \cup staged[q] \cup held[q]
        BY <4>1
      <4> QED
        BY <4>1, <4>2, CallersAreNoProcesses DEF LockInv
    <3>2. ASSUME NEW d \in Client, Claims(d)' PROVE lock'[T(d)'] = d
      BY <2>0, <3>2 DEF LockInv
    <3>3. ASSUME NEW d \in Client, Owns(d)' \/ Makes(d)'
          PROVE  lock'[T(d)'] = ProcessOf[d]
      <4>1. ProcessOf[d] # p /\ (Owns(d) \/ Makes(d)) /\ T(d)' = T(d)
        BY <2>0, <3>3
      <4>2. lock[T(d)] = ProcessOf[d] /\ T(d) \in Thread
        BY <4>1 DEF LockInv
      <4> QED
        BY <4>1, <4>2, CallersAreNoProcesses
    <3> QED
      BY <3>1, <3>2, <3>3, ZenonT(60) DEF LockInv
  <2>4. SoleInv'
    BY DEF SoleInv
  <2>5. PhaseInv'
    BY <2>0 DEF PhaseInv
  <2>6. StagedInv' /\ KeptInv'
    BY DEF StagedInv, KeptInv
  <2> QED
    BY <2>1, <2>2, <2>3, <2>4, <2>5, <2>6
<1> QED
  BY <1>1, <1>2

\* The invariant holds at first.
LEMMA InitIInv == Init => IInv
<1> SUFFICES ASSUME Init PROVE IInv
  OBVIOUS
<1> USE Names DEF Init, OpOf, T, NoCall
<1>1. TypeInv
  BY ScriptsAssumption, ProcessOfAssumption
     DEF TypeInv, ScriptsAssumption, Owners, Places, Actor, CallType
<1>2. PlaceInv
  BY DEF PlaceInv, MakePlaces, OpenedPlaces, StagedPlaces, DeletePlaces,
         ForkPlaces
<1>3. \A c \in Client : ~ Claims(c) /\ ~ Owns(c) /\ ~ Makes(c)
  BY DEF Claims, Owns, Opens, Closes, Makes, MakePlaces, OpenedPlaces,
         StagedPlaces, DeletePlaces
<1>4. LockInv /\ SoleInv /\ PhaseInv /\ StagedInv /\ KeptInv
  BY <1>3 DEF LockInv, SoleInv, PhaseInv, StagedInv, KeptInv, Owns, Ends,
              StagedPlaces
<1> QED
  BY <1>1, <1>2, <1>4 DEF IInv

\* While no goal is set on a thread that is being closed or has been, every
\* step keeps the invariant.
LEMMA NextIInv == ~ GoalsRaceCloses /\ IInv /\ [Next]_vars => IInv'
<1> SUFFICES ASSUME ~ GoalsRaceCloses, IInv, [Next]_vars PROVE IInv'
  OBVIOUS
<1>1. CASE UNCHANGED vars
  BY <1>1 DEF vars, storeVars, diskVars, lockVars, stagedVars, writerVars,
     IInv, TypeInv, PlaceInv, LockInv, SoleInv, PhaseInv, StagedInv, KeptInv,
     Makes, Claims, Opens, Closes, Owns, Same, OpOf, T
<1>2. ASSUME NEW c \in Client, ClientStep(c) PROVE IInv'
  BY <1>2, Names, CreateKeeps, CloseKeeps, ResumeKeeps, ForkKeeps,
     DeleteKeeps, CollectKeeps DEF ClientStep
<1>3. ASSUME NEW c \in Client, NEW k \in left[c], MakeCall(c, k) PROVE IInv'
  BY <1>3, CallKeeps
<1>4. ASSUME NEW p \in Process, CollectStep(Boot[p]) PROVE IInv'
  BY <1>4, CollectKeeps DEF Actor, Boots
<1>5. ASSUME NEW p \in Process, Open(p) \/ Crash(p) PROVE IInv'
  BY <1>5, ProcessKeeps
<1> QED
  BY <1>1, <1>2, <1>3, <1>4, <1>5 DEF Next

LEMMA SpecIInv ==
  ASSUME ~ GoalsRaceCloses
  PROVE  Spec => []IInv
<1>1. Init => IInv
  BY InitIInv
<1>2. IInv /\ [Next]_vars => IInv'
  BY NextIInv
<1> QED
  BY <1>1, <1>2, PTL DEF Spec

\* The process that writes a thread, materializes it or has a Session of it
\* holds its lock: whatever the processes do, whichever operation fails and
\* whenever one of them dies, at most one of them writes a rollout and nobody
\* deletes its thread.
THEOREM WritersHoldLocksHolds ==
  ASSUME ~ GoalsRaceCloses
  PROVE  Spec => []WritersHoldLocks
<1>1. IInv => WritersHoldLocks
  BY DEF IInv, LockInv, StagedInv, WritersHoldLocks
<1> QED
  BY <1>1, SpecIInv, PTL

\* No rollback, failed creation, crash or collection takes away a thread whose
\* creation or resumption was answered: only its deletion does.
THEOREM KeptThreadsLastHolds ==
  ASSUME ~ GoalsRaceCloses
  PROVE  Spec => []KeptThreadsLast
<1>1. IInv => KeptThreadsLast
  BY DEF IInv, KeptInv, KeptThreadsLast
<1> QED
  BY <1>1, SpecIInv, PTL

-----------------------------------------------------------------------------
(* What is on disk.  Everything that is written there or taken away is     *)
(* written or taken away under storage.lock.                               *)

CoordinatedPlaces ==
  {"journal", "index", "open", "undoIndex", "undoJournal", "giveUp", "leave",
   "dropIndex", "dropJournal", "dropWriter", "removeStaged",
   "removeUnlocked", "remove", "removed", "refused", "probe", "probed",
   "sweep", "leaveCollect"}
DiskTypeInv ==
  /\ index \in SUBSET Thread /\ lockFiles \in SUBSET Thread
  /\ journal \in [Thread -> Bases]
  /\ reservation \in [Client -> [source : Thread \cup {"none"},
                                  base : Thread \cup {"none"}]]
  /\ todo \in [Actor -> SUBSET Thread]
CoordInv ==
  \A a \in Actor : at[a] \in CoordinatedPlaces => coordination = a
DiskInv == DiskTypeInv /\ CoordInv

\* A thread that is staged has no rollout yet, nor has a thread that is about
\* to get one; what a failed creation removes does not exist any more.
AbsentInv ==
  /\ \A p \in Process : \A t \in staged[p] \ making[p] : journal[t] = "absent"
  /\ \A c \in Client :
       /\ at[c] \in StagedPlaces => journal[T(c)] = "absent"
       /\ Makes(c) /\ at[c] \in {"storage", "giveUp"} =>
            journal[T(c)] = "absent"
       /\ at[c] = "journal" => journal[T(c)] = "absent"
       /\ at[c] \in {"undoJournal", "dropJournal"} => T(c) \notin index

\* L holds all that reading the rollout of r reads, and all of it is there.
Reads(r, L) ==
  /\ r \in L /\ \A u \in L : journal[u] # "absent"
  /\ \A u \in L : journal[u] \in Thread => journal[u] \in L
\* The rollout of r can be read without any of X.
Avoids(r, X) == \E L \in SUBSET Thread : Reads(r, L) /\ L \cap X = {}

\* What must be readable: stored threads, what prepared forks will continue,
\* and a thread that is about to be stored.
Needed(r) ==
  \/ r \in index
  \/ \E c \in Client : reservation[c].base = r
  \/ \E c \in Client : at[c] = "index" /\ T(c) = r
\* The caller may still take its thread away again.
Fresh(c) ==
  \/ at[c] \in {"index", "open", "undoIndex", "undoJournal"}
  \/ at[c] \in OpenedPlaces /\ OpOf(c) # "persist"
ReachInv ==
  /\ \A r \in Thread : Needed(r) => Avoids(r, {})
  /\ \A c \in Client : Fresh(c) =>
       /\ \A r \in Thread \ {T(c)} : Needed(r) => Avoids(r, {T(c)})
       /\ \A d \in Client : reservation[d].base # T(c)
  /\ \A a \in Actor : at[a] = "sweep" =>
       \A r \in Thread : Needed(r) => Avoids(r, todo[a])
HeldInv == \A p \in Process : held[p] \cap writers[p] \subseteq index

HInv == DiskInv /\ AbsentInv /\ ReachInv /\ HeldInv

\* Nobody prepares a fork of a thread whose creation its process has not
\* answered: forkThread resumes the source first, and prepares the fork inside
\* the fork barrier of the Session it gets (core/thread-manager.ts:305-339).
ForksAnswered ==
  \A c, d \in Client :
    /\ at[c] = "snapshot" /\ ProcessOf[c] = ProcessOf[d]
    /\ at[d] \in OpenedPlaces /\ OpOf(d) # "persist"
    => T(d) # S(c)

-----------------------------------------------------------------------------
(* Threads that a shutdown could not discard.  They have no lock; what     *)
(* protects the disk from the deletion that discards one of them again is  *)
(* that no other creation has its id.                                      *)

UnlockedPlaces == {"discardUnlocked", "removeUnlocked"}
Ahead(c) == left[c] \cup {call[c]}
Begun(t) ==
  \/ \E p \in Process : t \in staged[p]
  \/ \E c \in Client : at[c] \in StagedPlaces /\ T(c) = t
Lost(t) ==
  \/ \E p \in Process : t \in unlocked[p]
  \/ \E c \in Client : at[c] \in UnlockedPlaces /\ T(c) = t

\* Every creation is of another thread, none is left of a thread that has been
\* staged, and a thread that could not be discarded has no rollout.
OriginInv ==
  /\ unlocked \in [Process -> SUBSET Thread]
  /\ \A c, d \in Client : \A k \in Ahead(c), l \in Ahead(d) :
       Creates(k) /\ Creates(l) /\ k.thread = l.thread => c = d /\ k = l
  /\ \A c \in Client : Creates(call[c]) => call[c] \notin left[c]
  /\ \A t \in Thread : Begun(t) \/ Lost(t) =>
       \A c \in Client : \A k \in Ahead(c) : Creates(k) => k.thread # t
  /\ \A t \in Thread : Lost(t) =>
       journal[t] = "absent" /\ \A p \in Process : t \notin staged[p]

\* Nothing is staged, no discard fails, and no rollout of such a thread is
\* written.
Calm ==
  /\ unlocked' \in [Process -> SUBSET Thread]
  /\ \A p \in Process :
       staged'[p] \subseteq staged[p] /\ unlocked'[p] \subseteq unlocked[p]
  /\ \A c \in Client :
       /\ left'[c] = left[c] /\ call'[c] \in {call[c], NoCall}
       /\ at'[c] \in StagedPlaces => /\ call'[c] = call[c]
                                     /\ \/ at[c] \in StagedPlaces
                                        \/ T(c) \in staged[ProcessOf[c]]
       /\ at'[c] \in UnlockedPlaces => /\ call'[c] = call[c]
                                       /\ \/ at[c] \in UnlockedPlaces
                                          \/ T(c) \in unlocked[ProcessOf[c]]
  /\ \A t \in Thread : Lost(t) => journal'[t] \in {journal[t], "absent"}
LEMMA CalmKeeps ==
  ASSUME OriginInv, Calm
  PROVE  OriginInv'
<1> USE Names DEF OriginInv, Calm
<1>1. \A c \in Client : \A k \in Ahead(c)' : Creates(k) => k \in Ahead(c)
  BY DEF Ahead, NoCall, Creates
<1>2. \A t : Begun(t)' => Begun(t)
  BY DEF Begun, T
<1>3. \A t : Lost(t)' => Lost(t)
  BY DEF Lost, T
<1>4. \A c \in Client : Creates(call'[c]) => call'[c] \notin left'[c]
  BY DEF NoCall, Creates
<1>5. ASSUME NEW c \in Client, NEW d \in Client,
             NEW k \in Ahead(c)', NEW l \in Ahead(d)',
             Creates(k), Creates(l), k.thread = l.thread
      PROVE  c = d /\ k = l
  BY <1>1, <1>5
<1>6. ASSUME NEW t \in Thread, Begun(t)' \/ Lost(t)'
      PROVE  \A c \in Client : \A k \in Ahead(c)' : Creates(k) => k.thread # t
  BY <1>1, <1>2, <1>3, <1>6
<1>7. ASSUME NEW t \in Thread, Lost(t)'
      PROVE  journal'[t] = "absent" /\ \A p \in Process : t \notin staged'[p]
  BY <1>3, <1>7
<1> QED
  BY <1>4, <1>5, <1>6, <1>7

\* A creation and a materialization are of threads that are not lost.
LEMMA MakersAreNotLost ==
  ASSUME IInv, OriginInv, NEW c \in Client, at[c] = "journal"
  PROVE  ~ Lost(T(c))
<1>1. T(c) \in Thread /\ OpOf(c) \in {"spawn", "fork", "persist"}
  BY CallFacts DEF IInv, PlaceInv, MakePlaces
<1>2. CASE OpOf(c) = "persist"
  <2>1. T(c) \in staged[ProcessOf[c]]
    BY <1>2, Names DEF IInv, PhaseInv, StagedInv, Makes, MakePlaces
  <2> QED
    BY <1>1, <2>1, Names DEF OriginInv
<1>3. CASE OpOf(c) # "persist"
  <2>1. Creates(call[c])
    BY <1>1, <1>3 DEF Creates, OpOf
  <2> QED
    BY <1>1, <2>1 DEF OriginInv, Ahead, T
<1> QED
  BY <1>2, <1>3

\* Every other step of a client is calm.
LEMMA ClientsAreCalm ==
  ASSUME IInv, OriginInv, DiskTypeInv, NEW c \in Client,
         ClientStep(c), ~ KeepStaged(c)
  PROVE  Calm
<1>a. /\ at \in [Actor -> Places] /\ c \in Actor /\ Client \subseteq Actor
      /\ call \in [Actor -> CallType \cup {NoCall}]
      /\ ProcessOf[c] \in Process
      /\ staged \in [Process -> SUBSET Thread]
      /\ unlocked \in [Process -> SUBSET Thread]
      /\ journal \in [Thread -> Bases]
  BY Names DEF IInv, TypeInv, OriginInv, DiskTypeInv
<1>b. at[c] = "materialization" =>
        OpOf(c) \in {"shutdown", "discard", "delete", "persist"}
  BY DEF IInv, PlaceInv, Ends
<1> USE <1>a
    DEF Calm, StagedPlaces, UnlockedPlaces, T, OpOf, Goes, Returns, Works,
        Fails, Locks, Unlocks, Adds, Drops, storeVars, diskVars, lockVars,
        stagedVars, writerVars, boundVars, NoCall
<1>1. ASSUME Claim(c) PROVE Calm
  BY <1>1 DEF Claim
<1>2. ASSUME EnterStorage(c) PROVE Calm
  BY <1>2 DEF EnterStorage
<1>3. ASSUME WriteJournal(c) PROVE Calm
  <2>1. ~ Lost(T(c))
    BY <1>3, MakersAreNotLost DEF WriteJournal
  <2> QED
    BY <1>3, <2>1 DEF WriteJournal
<1>4. ASSUME WriteIndex(c) PROVE Calm
  BY <1>4 DEF WriteIndex
<1>5. ASSUME OpenWriter(c) PROVE Calm
  BY <1>5 DEF OpenWriter
<1>6. ASSUME UndoIndex(c) PROVE Calm
  BY <1>6 DEF UndoIndex
<1>7. ASSUME UndoJournal(c) PROVE Calm
  BY <1>7 DEF UndoJournal
<1>8. ASSUME GiveUp(c) PROVE Calm
  BY <1>8 DEF GiveUp
<1>9. ASSUME Unclaim(c) PROVE Calm
  BY <1>9 DEF Unclaim
<1>10. ASSUME LeaveStorage(c) PROVE Calm
  BY <1>10 DEF LeaveStorage
<1>11. ASSUME Consume(c) PROVE Calm
  BY <1>11 DEF Consume
<1>12. ASSUME Deliver(c) PROVE Calm
  BY <1>12 DEF Deliver
<1>13. ASSUME Rollback(c) PROVE Calm
  BY <1>13 DEF Rollback
<1>14. ASSUME DropIndex(c) PROVE Calm
  BY <1>14 DEF DropIndex
<1>15. ASSUME DropJournal(c) PROVE Calm
  BY <1>15 DEF DropJournal
<1>16. ASSUME DropWriter(c) PROVE Calm
  BY <1>16 DEF DropWriter
<1>17. ASSUME Unlock(c) PROVE Calm
  BY <1>17 DEF Unlock
<1>18. ASSUME Materialized(c) PROVE Calm
  BY <1>18, <1>b DEF Materialized
<1>19. ASSUME ShutdownThread(c) PROVE Calm
  BY <1>19 DEF ShutdownThread, Materializing, Awaits
<1>20. ASSUME Drain(c) PROVE Calm
  BY <1>20 DEF Drain
<1>21. ASSUME DiscardThread(c) PROVE Calm
  BY <1>21 DEF DiscardThread, Materializing, Awaits
<1>22. ASSUME DiscardStaged(c) PROVE Calm
  BY <1>22 DEF DiscardStaged
<1>23. ASSUME RemoveStaged(c) PROVE Calm
  BY <1>23 DEF RemoveStaged
<1>24. ASSUME ReleaseStaged(c) PROVE Calm
  BY <1>24 DEF ReleaseStaged
<1>25. ASSUME DiscardUnlocked(c) PROVE Calm
  BY <1>25 DEF DiscardUnlocked
<1>26. ASSUME RemoveUnlocked(c) PROVE Calm
  BY <1>26 DEF RemoveUnlocked
<1>27. ASSUME ResumeThread(c) PROVE Calm
  BY <1>27 DEF ResumeThread
<1>28. ASSUME Reopen(c) PROVE Calm
  BY <1>28 DEF Reopen
<1>29. ASSUME Repair(c) PROVE Calm
  BY <1>29 DEF Repair
<1>30. ASSUME ReadResumed(c) PROVE Calm
  BY <1>30 DEF ReadResumed
<1>31. ASSUME PrepareFork(c) PROVE Calm
  BY <1>31 DEF PrepareFork, S
<1>32. ASSUME Reserve(c) PROVE Calm
  BY <1>32 DEF Reserve
<1>33. ASSUME Snapshot(c) PROVE Calm
  BY <1>33 DEF Snapshot
<1>34. ASSUME Prepared(c) PROVE Calm
  BY <1>34 DEF Prepared, S
<1>35. ASSUME ReleasePreparedFork(c) PROVE Calm
  BY <1>35 DEF ReleasePreparedFork
<1>36. ASSUME DeleteThread(c) PROVE Calm
  BY <1>36 DEF DeleteThread, Materializing, Awaits
<1>37. ASSUME EnterDelete(c) PROVE Calm
  BY <1>37 DEF EnterDelete
<1>38. ASSUME RemoveIndex(c) PROVE Calm
  BY <1>38 DEF RemoveIndex
<1>39. ASSUME LeaveDelete(c) PROVE Calm
  BY <1>39 DEF LeaveDelete
<1>40. ASSUME UnclaimDeleted(c) PROVE Calm
  BY <1>40 DEF UnclaimDeleted
<1>41. ASSUME CollectStep(c) PROVE Calm
  BY <1>41 DEF CollectStep, Collect, Probe, Probed, Scan, Sweep, LeaveCollect
<1> QED
  BY <1>1, <1>2, <1>3, <1>4, <1>5, <1>6, <1>7, <1>8, <1>9, <1>10, <1>11,
     <1>12, <1>13, <1>14, <1>15, <1>16, <1>17, <1>18, <1>19, <1>20, <1>21,
     <1>22, <1>23, <1>24, <1>25, <1>26, <1>27, <1>28, <1>29, <1>30, <1>31,
     <1>32, <1>33, <1>34, <1>35, <1>36, <1>37, <1>38, <1>39, <1>40, <1>41 DEF
     ClientStep, Create, Close, Resume, Fork, Delete

\* A discard that fails leaves a thread without a rollout.
LEMMA KeepStagedKeepsOrigin ==
  ASSUME IInv, AbsentInv, OriginInv, NEW c \in Client, KeepStaged(c)
  PROVE  OriginInv'
<1> DEFINE p == ProcessOf[c]
           t == T(c)
<1>1. /\ c \in Actor /\ p \in Process /\ t \in Thread
      /\ at[c] = "keepStaged" /\ journal' = journal /\ left' = left
      /\ at \in [Actor -> Places] /\ call \in [Actor -> CallType \cup {NoCall}]
      /\ staged \in [Process -> SUBSET Thread]
  BY Names, CallFacts DEF KeepStaged, IInv, TypeInv
<1>2. /\ at' = [at EXCEPT ![c] = "idle"] /\ call' = [call EXCEPT ![c] = NoCall]
      /\ staged' = [staged EXCEPT ![p] = @ \ {t}]
      /\ unlocked' \in {unlocked, [unlocked EXCEPT ![p] = @ \cup {t}]}
  BY DEF KeepStaged, Returns, Drops, Adds
<1>3. Begun(t) /\ journal[t] = "absent"
  BY <1>1 DEF Begun, AbsentInv, StagedPlaces
<1>4. \A q \in Process : t \notin staged'[q]
  <2>1. lock[t] = p
    BY <1>1, Names DEF IInv, LockInv, Owns, Closes, StagedPlaces
  <2> QED
    BY <1>1, <1>2, <2>1 DEF IInv, LockInv
<1>5. \A d \in Client : \A k \in Ahead(d)' : Creates(k) => k \in Ahead(d)
  BY <1>1, <1>2, Names DEF Ahead, NoCall, Creates
<1>6. \A u \in Thread : Begun(u)' => Begun(u)
  BY <1>1, <1>2, Names DEF Begun, StagedPlaces, T, NoCall
<1>7. \A u \in Thread : Lost(u)' => Lost(u) \/ u = t
  BY <1>1, <1>2, Names DEF Lost, UnlockedPlaces, T, NoCall, OriginInv
<1>8. unlocked' \in [Process -> SUBSET Thread]
  BY <1>1, <1>2 DEF OriginInv
<1>9. \A d \in Client : Creates(call'[d]) => call'[d] \notin left'[d]
  BY <1>1, <1>2, Names DEF OriginInv, NoCall, Creates
<1>10. ASSUME NEW d \in Client, NEW e \in Client,
              NEW k \in Ahead(d)', NEW l \in Ahead(e)',
              Creates(k), Creates(l), k.thread = l.thread
       PROVE  d = e /\ k = l
  BY <1>5, <1>10 DEF OriginInv
<1>11. ASSUME NEW u \in Thread, Begun(u)' \/ Lost(u)'
       PROVE  \A d \in Client : \A k \in Ahead(d)' : Creates(k) => k.thread # u
  BY <1>3, <1>5, <1>6, <1>7, <1>11 DEF OriginInv
<1>12. ASSUME NEW u \in Thread, Lost(u)'
       PROVE  journal'[u] = "absent" /\ \A q \in Process : u \notin staged'[q]
  BY <1>1, <1>2, <1>3, <1>4, <1>7, <1>12 DEF OriginInv
<1> QED
  BY <1>8, <1>9, <1>10, <1>11, <1>12 DEF OriginInv

\* A call that is made is one of those that were left.
LEMMA CallKeepsOrigin ==
  ASSUME IInv, OriginInv, NEW c \in Client, NEW k \in left[c], MakeCall(c, k)
  PROVE  OriginInv'
<1>1. /\ c \in Actor /\ Client \subseteq Actor /\ ProcessOf[c] \in Process
      /\ at \in [Actor -> Places] /\ call \in [Actor -> CallType \cup {NoCall}]
      /\ staged \in [Process -> SUBSET Thread]
      /\ left \in [Client -> SUBSET CallType]
      /\ unlocked \in [Process -> SUBSET Thread]
      /\ k \in CallType /\ k.op \in Operations
  BY Names DEF IInv, TypeInv, OriginInv, CallType
<1>2. /\ left' = [left EXCEPT ![c] = @ \ {k}] /\ journal' = journal
      /\ call' = [call EXCEPT ![c] = NoCall] \/ call' = [call EXCEPT ![c] = k]
  BY DEF MakeCall, CreateThread, PersistThread, CallStore, Calls, diskVars
<1>3. \A d \in Client : \A l \in Ahead(d)' : Creates(l) => l \in Ahead(d)
  BY <1>1, <1>2 DEF Ahead, NoCall, Creates
<1>4. \A d \in Client : Creates(call'[d]) => call'[d] \notin left'[d]
  BY <1>1, <1>2 DEF OriginInv, NoCall, Creates
<1>5. /\ unlocked' \in [Process -> SUBSET Thread]
      /\ \A p \in Process : unlocked'[p] \subseteq unlocked[p]
      /\ \A d \in Client : at'[d] \in StagedPlaces \cup UnlockedPlaces =>
           at'[d] = at[d] /\ T(d)' = T(d)
  BY <1>1 DEF MakeCall, CreateThread, PersistThread, CallStore, Calls, Drops,
     stagedVars, StagedPlaces, UnlockedPlaces, T, Operations
<1>6. \/ staged' = staged
      \/ /\ staged' = [staged EXCEPT ![ProcessOf[c]] = @ \cup {k.thread}]
         /\ call' = [call EXCEPT ![c] = NoCall] /\ Creates(k)
  BY DEF MakeCall, CreateThread, PersistThread, CallStore, Calls, Adds,
     stagedVars, Creates
<1>7. \A t : Lost(t)' => Lost(t)
  BY <1>5 DEF Lost
<1>8. \A t : Begun(t)' => Begun(t) \/ (staged' # staged /\ t = k.thread)
  BY <1>1, <1>5, <1>6 DEF Begun
<1>9. ASSUME NEW d \in Client, NEW e \in Client,
             NEW l \in Ahead(d)', NEW m \in Ahead(e)',
             Creates(l), Creates(m), l.thread = m.thread
      PROVE  d = e /\ l = m
  BY <1>3, <1>9 DEF OriginInv
<1>10. ASSUME NEW t \in Thread, Begun(t)' \/ Lost(t)'
       PROVE  \A d \in Client : \A l \in Ahead(d)' : Creates(l) => l.thread # t
  <2>1. CASE Begun(t) \/ Lost(t)
    BY <1>3, <2>1 DEF OriginInv
  <2>2. CASE staged' # staged /\ t = k.thread
    <3> SUFFICES ASSUME NEW d \in Client, NEW l \in Ahead(d)', Creates(l),
                        l.thread = k.thread
                 PROVE  FALSE
      BY <2>2
    <3>1. k \in Ahead(c) /\ Creates(k)
      BY <1>6, <2>2 DEF Ahead
    <3>2. d = c /\ l = k
      BY <1>3, <3>1 DEF OriginInv
    <3>3. l \in left[c] \ {k} \/ l = NoCall
      BY <1>1, <1>2, <1>6, <2>2, <3>2 DEF Ahead
    <3> QED
      BY <3>1, <3>2, <3>3 DEF Creates, NoCall
  <2> QED
    BY <1>7, <1>8, <1>10, <2>1, <2>2
<1>11. ASSUME NEW t \in Thread, Lost(t)'
       PROVE  journal'[t] = "absent" /\ \A p \in Process : t \notin staged'[p]
  <2>1. Lost(t)
    BY <1>7, <1>11
  <2>2. staged' # staged => k.thread # t
    BY <1>6, <2>1 DEF OriginInv, Ahead
  <2> QED
    BY <1>1, <1>2, <1>6, <2>1, <2>2 DEF OriginInv
<1> QED
  BY <1>4, <1>5, <1>9, <1>10, <1>11 DEF OriginInv

LEMMA InitOriginInv == Init => OriginInv
<1> SUFFICES ASSUME Init PROVE OriginInv
  OBVIOUS
<1>1. PICK script \in Scripts : left = script.calls
  BY DEF Init
<1>2. \A c \in Client : Ahead(c) = script.calls[c] \cup {NoCall}
  BY <1>1, Names DEF Init, Ahead
<1>3. \A t : ~ Begun(t) /\ ~ Lost(t)
  BY Names DEF Init, Begun, Lost, StagedPlaces, UnlockedPlaces
<1>4. \A c, d \in Client : \A k \in Ahead(c), l \in Ahead(d) :
        Creates(k) /\ Creates(l) /\ k.thread = l.thread => c = d /\ k = l
  BY <1>2, CreationsAssumption DEF CreationsAssumption, Creates, NoCall
<1> QED
  BY <1>3, <1>4, Names DEF OriginInv, Init, Creates, NoCall

LEMMA NextOriginInv ==
  ASSUME IInv, HInv, OriginInv, [Next]_vars
  PROVE  OriginInv'
<1>1. CASE UNCHANGED vars
  BY <1>1 DEF vars, storeVars, diskVars, stagedVars, OriginInv, Ahead, Begun,
     Lost, T
<1>2. ASSUME NEW c \in Client, ClientStep(c) PROVE OriginInv'
  BY <1>2, ClientsAreCalm, CalmKeeps, KeepStagedKeepsOrigin DEF HInv, DiskInv
<1>3. ASSUME NEW c \in Client, NEW k \in left[c], MakeCall(c, k)
      PROVE  OriginInv'
  BY <1>3, CallKeepsOrigin
<1>4. ASSUME NEW p \in Process, CollectStep(Boot[p]) \/ Open(p) \/ Crash(p)
      PROVE  OriginInv'
  <2>1. /\ at \in [Actor -> Places] /\ Client \subseteq Actor
        /\ call \in [Actor -> CallType \cup {NoCall}]
        /\ \A c \in Client : Boot[p] # c
        /\ journal \in [Thread -> Bases]
        /\ staged \in [Process -> SUBSET Thread]
        /\ unlocked \in [Process -> SUBSET Thread]
    BY Names DEF IInv, TypeInv, HInv, DiskInv, DiskTypeInv, OriginInv
  <2>2. Calm
    BY <1>4, <2>1 DEF Calm, CollectStep, Collect, Probe, Probed, Scan, Sweep,
       LeaveCollect, Open, Crash, Goes, StagedPlaces, UnlockedPlaces, NoCall,
       storeVars, diskVars, lockVars, stagedVars, writerVars, boundVars
  <2> QED
    BY <2>2, CalmKeeps
<1> QED
  BY <1>1, <1>2, <1>3, <1>4 DEF Next

-----------------------------------------------------------------------------
(* Reading.                                                                *)

\* What is kept of what a rollout reads keeps it readable.
LEMMA ReadsKept ==
  ASSUME NEW r, NEW L, Reads(r, L), \A u \in L : journal'[u] = journal[u]
  PROVE  Reads(r, L)'
BY DEF Reads

\* What avoids X avoids every part of it.
LEMMA AvoidsPart ==
  ASSUME NEW r, NEW X, NEW Y, Avoids(r, X), Y \subseteq X
  PROVE  Avoids(r, Y)
BY DEF Avoids

\* The sets of rollouts that reading needs are closed under intersection.
LEMMA AvoidsBoth ==
  ASSUME NEW r, NEW X, NEW Y, Avoids(r, X), Avoids(r, Y)
  PROVE  Avoids(r, X \cup Y)
<1>1. PICK L \in SUBSET Thread : Reads(r, L) /\ L \cap X = {}
  BY DEF Avoids
<1>2. PICK M \in SUBSET Thread : Reads(r, M) /\ M \cap Y = {}
  BY DEF Avoids
<1>3. Reads(r, L \cap M) /\ (L \cap M) \cap (X \cup Y) = {}
  BY <1>1, <1>2 DEF Reads
<1> QED
  BY <1>3 DEF Avoids

\* A rollout whose lineage is apart from X does without what is taken from X.
LEMMA AvoidsKept ==
  ASSUME NEW r, NEW X, Avoids(r, X),
         \A u \in Thread \ X : journal'[u] = journal[u]
  PROVE  Avoids(r, X)'
<1>1. PICK L \in SUBSET Thread : Reads(r, L) /\ L \cap X = {}
  BY DEF Avoids
<1>2. Reads(r, L)'
  BY <1>1, ReadsKept
<1> QED
  BY <1>1, <1>2 DEF Avoids

\* Lineage is the least closed set.
LEMMA LineageIsLeast ==
  ASSUME NEW R \in SUBSET Thread
  PROVE  /\ Lineage(R) \in SUBSET Thread
         /\ R \subseteq Lineage(R) /\ Closed(Lineage(R))
         /\ \A M \in SUBSET Thread :
              R \subseteq M /\ Closed(M) => Lineage(R) \subseteq M
<1> DEFINE Least(L) ==
      /\ R \subseteq L /\ Closed(L)
      /\ \A M \in SUBSET Thread : R \subseteq M /\ Closed(M) => L \subseteq M
<1> DEFINE Common ==
      {u \in Thread : \A M \in SUBSET Thread :
                        R \subseteq M /\ Closed(M) => u \in M}
<1>1. Closed(Common)
  BY DEF Closed
<1>2. Common \in SUBSET Thread /\ Least(Common)
  BY <1>1
<1> HIDE DEF Common, Least
<1>3. Lineage(R) = CHOOSE L \in SUBSET Thread : Least(L)
  BY DEF Lineage, Least
<1>4. Lineage(R) \in SUBSET Thread /\ Least(Lineage(R))
  BY <1>2, <1>3
<1> QED
  BY <1>4 DEF Least

\* A thread can be read when what it reads can.
LEMMA AvoidsLineage ==
  ASSUME NEW r \in Thread, NEW X, Avoids(r, X)
  PROVE  \A u \in Lineage({r}) : u \in Thread \ X /\ Avoids(u, X)
<1>1. PICK L \in SUBSET Thread : Reads(r, L) /\ L \cap X = {}
  BY DEF Avoids
<1>2. Lineage({r}) \subseteq L
  BY <1>1, LineageIsLeast DEF Reads, Closed
<1>3. \A u \in L : Reads(u, L)
  BY <1>1 DEF Reads
<1> QED
  BY <1>1, <1>2, <1>3 DEF Avoids

LEMMA AvoidsIsReadable ==
  ASSUME NEW r \in Thread, Avoids(r, {})
  PROVE  Readable(r)
BY AvoidsLineage DEF Readable, Avoids, Reads

-----------------------------------------------------------------------------
(* Steps that remove no rollout.                                           *)

\* No rollout changes, nothing more is needed, nobody makes another thread, and
\* no collection starts to remove.
Quiet ==
  /\ journal' = journal
  /\ \A r \in Thread : Needed(r)' => Needed(r)
  /\ \A c \in Client :
       /\ Fresh(c)' => Fresh(c) /\ T(c)' = T(c)
       /\ reservation'[c].base \in {reservation[c].base, "none"}
  /\ \A a \in Actor : at'[a] = "sweep" => at[a] = "sweep" /\ todo'[a] = todo[a]
LEMMA QuietKeeps ==
  ASSUME ReachInv, Quiet, TypeInv, PlaceInv
  PROVE  ReachInv'
<1>1. ASSUME NEW r \in Thread, NEW X, Avoids(r, X) PROVE Avoids(r, X)'
  BY <1>1, AvoidsKept DEF Quiet
<1>2. ASSUME NEW r \in Thread, Needed(r)' PROVE Avoids(r, {})'
  BY <1>1, <1>2 DEF ReachInv, Quiet
<1>3. ASSUME NEW c \in Client, Fresh(c)'
      PROVE  /\ \A r \in Thread \ {T(c)'} : Needed(r)' => Avoids(r, {T(c)})'
             /\ \A d \in Client : reservation'[d].base # T(c)'
  <2>1. Fresh(c) /\ T(c)' = T(c) /\ T(c) \in Thread
    BY <1>3, CallFacts DEF Quiet, Fresh, OpenedPlaces
  <2>2. ASSUME NEW r \in Thread \ {T(c)'}, Needed(r)' PROVE Avoids(r, {T(c)})'
    <3>1. Avoids(r, {T(c)})
      BY <2>1, <2>2 DEF ReachInv, Quiet
    <3> QED
      BY <2>1, <3>1 DEF Avoids, Reads, Quiet
  <2>3. T(c) # "none"
    BY <2>1, NamesAssumption DEF NamesAssumption
  <2>4. \A d \in Client : reservation'[d].base # T(c)
    BY <2>1, <2>3 DEF ReachInv, Quiet
  <2> QED
    BY <2>1, <2>2, <2>4
<1>4. ASSUME NEW a \in Actor, at'[a] = "sweep", NEW r \in Thread, Needed(r)'
      PROVE  Avoids(r, todo[a])'
  <2>1. Avoids(r, todo[a]) /\ todo'[a] = todo[a]
    BY <1>4 DEF ReachInv, Quiet
  <2> QED
    BY <2>1 DEF Avoids, Reads, Quiet
<1> QED
  BY <1>2, <1>3, <1>4 DEF ReachInv

-----------------------------------------------------------------------------
(* Steps that write a rollout, remove one, or find a new use for one.      *)

\* What is not there is avoided by all that can be read.
LEMMA AbsentIsAvoided ==
  ASSUME NEW r, NEW X, NEW t, Avoids(r, X), journal[t] = "absent"
  PROVE  Avoids(r, X \cup {t}) /\ r # t
BY DEF Avoids, Reads

\* No two callers write, or may still take away, the same thread.
LEMMA FreshApart ==
  ASSUME IInv, NEW c \in Client, NEW d \in Client, T(c) = T(d),
         Fresh(c) \/ at[c] = "journal", Fresh(d) \/ at[d] = "journal"
  PROVE  c = d
<1> USE Names DEF IInv
<1>1. /\ Opens(c) \/ Makes(c) \/ Claims(c)
      /\ Opens(d) \/ Makes(d) \/ Claims(d)
  BY DEF Fresh, PlaceInv, Opens, Makes, Claims, OpenedPlaces, MakePlaces
<1>2. ASSUME Opens(c) \/ Makes(c), Claims(d) PROVE FALSE
  BY <1>2 DEF LockInv, Owns
<1>3. ASSUME Claims(c), Opens(d) \/ Makes(d) PROVE FALSE
  BY <1>3 DEF LockInv, Owns
<1>4. CASE Claims(c) /\ Claims(d)
  BY <1>4 DEF LockInv
<1>5. CASE (Opens(c) \/ Makes(c)) /\ (Opens(d) \/ Makes(d))
  <2>1. Same(c, d)
    BY <1>5 DEF LockInv, Owns, Same
  <2> QED
    BY <1>5, <2>1 DEF SoleInv, PhaseInv, StagedInv, Same, Owns
<1> QED
  BY <1>1, <1>2, <1>3, <1>4, <1>5

\* While a caller has storage.lock, nobody else writes or removes.
LEMMA Alone ==
  ASSUME DiskInv, NEW c \in Actor, at[c] \in CoordinatedPlaces,
         NEW a \in Actor, a # c
  PROVE  at[a] \notin CoordinatedPlaces
BY DEF DiskInv, CoordInv

\* The rollout of t is read through the rollout it continues.
LEMMA WrittenReads ==
  ASSUME NEW t \in Thread, NEW b \in {"none"} \cup Thread, NEW X, t \notin X,
         journal'[t] = b, b \in Thread => Avoids(b, X)'
  PROVE  Avoids(t, X)'
<1>1. CASE b \in Thread
  <2>1. PICK L \in SUBSET Thread : Reads(b, L)' /\ L \cap X = {}
    BY <1>1 DEF Avoids
  <2>2. Reads(t, L \cup {t})'
    BY <1>1, <2>1, NamesAssumption DEF Reads, NamesAssumption
  <2> QED
    BY <2>1, <2>2 DEF Avoids
<1>2. CASE b = "none"
  <2>1. Reads(t, {t})'
    BY <1>2, NamesAssumption DEF Reads, NamesAssumption
  <2> QED
    BY <2>1 DEF Avoids
<1> QED
  BY <1>1, <1>2

LEMMA WriteJournalKeeps ==
  ASSUME IInv, HInv, NEW c \in Client, WriteJournal(c)
  PROVE  ReachInv'
<1> USE Names DEF HInv, IInv
<1>1. \A d \in Client : T(d)' = T(d) /\ reservation'[d] = reservation[d]
  BY DEF T, WriteJournal, Goes, storeVars
<1>2. PICK t \in Thread : /\ t = T(c) /\ t = T(c)' /\ journal[t] = "absent"
                          /\ t \notin index
  BY <1>1, CallFacts DEF WriteJournal, AbsentInv, ReachInv, Needed, Avoids, Reads
<1>3. PICK b \in {"none"} \cup Thread : b = BaseOf(c)
  BY DEF BaseOf, DiskInv, DiskTypeInv
<1>4. /\ \A u \in Thread \ {t} : journal'[u] = journal[u]
      /\ UNCHANGED <<index, reservation, todo>>
      /\ \/ at' = [at EXCEPT ![c] = "index"] /\ journal'[t] = b
         \/ at' = [at EXCEPT ![c] = "undoIndex"]
  BY <1>2, <1>3 DEF DiskInv, DiskTypeInv, WriteJournal, Goes, Works, Fails, storeVars
<1>5. /\ \A d \in Client \ {c} : Fresh(d)' => Fresh(d)
      /\ \A a \in Actor : at'[a] # "sweep"
  BY <1>1, <1>4, Alone DEF Fresh, OpOf, TypeInv, WriteJournal,
                           CoordinatedPlaces, Goes
<1>6. \A r \in Thread :
        Needed(r)' => Needed(r) \/ (r = t /\ journal'[t] = b)
  BY <1>1, <1>2, <1>4 DEF Needed, TypeInv
<1>7. b \in Thread => \E d \in Client : b = reservation[d].base
  BY <1>3, NamesAssumption DEF BaseOf, NamesAssumption
<1>8. \A d \in Client : reservation[d].base \in Thread => Needed(reservation[d].base)
  BY DEF Needed
<1>9. ASSUME NEW r \in Thread, NEW X, Avoids(r, X)
      PROVE  r # t /\ Avoids(r, X)' /\ Avoids(r, {t})'
  <2>1. Avoids(r, X \cup {t}) /\ r # t
    BY <1>2, <1>9, AbsentIsAvoided
  <2>2. Avoids(r, X \cup {t})'
    BY <1>4, <2>1, AvoidsKept
  <2> QED
    BY <2>1, <2>2 DEF Avoids
<1>10. ASSUME NEW X, t \notin X, \A r \in Thread : Needed(r) /\ r \notin X => Avoids(r, X),
              \A d \in Client : reservation[d].base \notin X
       PROVE  \A r \in Thread \ X : Needed(r)' => Avoids(r, X)'
  <2>1. b \in Thread => Avoids(b, X)'
    BY <1>7, <1>8, <1>9, <1>10
  <2> QED
    BY <1>6, <1>9, <1>10, <2>1, WrittenReads
<1>11. ASSUME NEW r \in Thread, Needed(r)' PROVE Avoids(r, {})'
  BY <1>10, <1>11 DEF ReachInv
<1>12. ASSUME NEW d \in Client, Fresh(d)',
              NEW v \in Thread, v = T(d), v = T(d)'
       PROVE  /\ \A r \in Thread \ {v} : Needed(r)' => Avoids(r, {v})'
              /\ \A e \in Client : reservation'[e].base # v
  <2>1. CASE d = c
    <3>1. v = t
      BY <1>2, <1>12, <2>1
    <3>2. \A r \in Thread : Needed(r) => Avoids(r, {})
      BY DEF ReachInv
    <3>3. \A e \in Client : reservation[e].base # t
      BY <1>2, <1>8, <1>9, <3>2
    <3> QED
      BY <1>1, <1>6, <1>9, <3>1, <3>2, <3>3
  <2>2. CASE d # c
    <3>1. Fresh(d) /\ v # t
      BY <1>2, <1>5, <1>12, <2>2, FreshApart DEF WriteJournal
    <3>2. /\ \A r \in Thread \ {v} : Needed(r) => Avoids(r, {v})
          /\ \A e \in Client : reservation[e].base # v
      BY <1>12, <3>1 DEF ReachInv
    <3> QED
      BY <1>1, <1>10, <3>1, <3>2
  <2> QED
    BY <2>1, <2>2
<1>13. ASSUME NEW d \in Client, Fresh(d)'
       PROVE  /\ \A r \in Thread \ {T(d)'} : Needed(r)' => Avoids(r, {T(d)})'
              /\ \A e \in Client : reservation'[e].base # T(d)'
  <2>1. d = c \/ Fresh(d)
    BY <1>5, <1>13
  <2>2. PICK v \in Thread : v = T(d) /\ v = T(d)'
    BY <1>1, <1>2, <2>1, CallFacts DEF Fresh, OpenedPlaces
  <2>3. /\ \A r \in Thread \ {v} : Needed(r)' => Avoids(r, {v})'
        /\ \A e \in Client : reservation'[e].base # v
    BY <1>12, <1>13, <2>2
  <2> QED
    BY <2>2, <2>3 DEF Avoids
<1> QED
  BY <1>5, <1>11, <1>13 DEF ReachInv

\* A rollout is removed that nothing needs.
LEMMA RemovalKeeps ==
  ASSUME TypeInv, PlaceInv, ReachInv, NEW t \in Thread,
         \A u \in Thread \ {t} : journal'[u] = journal[u],
         \A r \in Thread : Needed(r)' => Needed(r) /\ Avoids(r, {t}),
         \A c \in Client : Fresh(c)' => Fresh(c),
         \A c \in Client : T(c)' = T(c) /\ reservation'[c] = reservation[c],
         \A a \in Actor : at'[a] = "sweep" => /\ at[a] = "sweep" /\ t \in todo[a]
                                              /\ todo'[a] = todo[a] \ {t}
  PROVE  ReachInv'
<1>1. ASSUME NEW r \in Thread, NEW X, Avoids(r, X), Avoids(r, {t})
      PROVE  Avoids(r, X)'
  <2>1. Avoids(r, X \cup {t})
    BY <1>1, AvoidsBoth
  <2>2. Avoids(r, X \cup {t})'
    BY <2>1, AvoidsKept
  <2> QED
    BY <2>2 DEF Avoids
<1>2. ASSUME NEW r \in Thread, Needed(r)' PROVE Avoids(r, {})'
  BY <1>1, <1>2 DEF ReachInv
<1>3. ASSUME NEW c \in Client, Fresh(c)'
      PROVE  /\ \A r \in Thread \ {T(c)'} : Needed(r)' => Avoids(r, {T(c)})'
             /\ \A d \in Client : reservation'[d].base # T(c)'
  <2>1. PICK v \in Thread : v = T(c) /\ v = T(c)'
    BY <1>3, CallFacts DEF Fresh, OpenedPlaces
  <2>2. \A r \in Thread \ {v} : Needed(r)' => Avoids(r, {v})'
    BY <1>1, <1>3, <2>1 DEF ReachInv
  <2>3. \A d \in Client : reservation'[d].base # T(c)'
    BY <1>3 DEF ReachInv
  <2> QED
    BY <2>1, <2>2, <2>3 DEF Avoids
<1>4. ASSUME NEW a \in Actor, at'[a] = "sweep", NEW r \in Thread, Needed(r)'
      PROVE  Avoids(r, todo[a])'
  <2>1. PICK X : X = todo[a]
    OBVIOUS
  <2>2. Avoids(r, X)'
    BY <1>1, <1>4, <2>1 DEF ReachInv
  <2>3. todo'[a] \subseteq X
    BY <1>4, <2>1
  <2> QED
    BY <2>2, <2>3 DEF Avoids
<1> QED
  BY <1>2, <1>3, <1>4 DEF ReachInv

\* The undoing of a creation, and the removal of a thread that was created.
LEMMA UndoKeeps ==
  ASSUME IInv, HInv, NEW c \in Client, UndoJournal(c) \/ DropJournal(c)
  PROVE  ReachInv'
<1> USE Names DEF HInv, IInv
<1>1. \A d \in Client : T(d)' = T(d) /\ reservation'[d] = reservation[d]
  BY DEF T, UndoJournal, DropJournal, Goes, storeVars
<1>2. at[c] \in CoordinatedPlaces /\ Fresh(c) /\ T(c) \notin index
  BY DEF UndoJournal, DropJournal, CoordinatedPlaces, Fresh, OpenedPlaces,
         PlaceInv, AbsentInv
<1>3. PICK t \in Thread : t = T(c)
  BY CallFacts DEF UndoJournal, DropJournal
<1>4. /\ \A u \in Thread \ {t} : journal'[u] = journal[u]
      /\ UNCHANGED <<index, todo>>
      /\ \A d \in Client : Fresh(d)' => Fresh(d)
      /\ \A a \in Actor : at'[a] # "sweep" /\ (at'[a] = "index" => at[a] = "index")
      /\ \A d \in Client : at[d] # "index"
  BY <1>2, <1>3, Alone DEF DiskInv, DiskTypeInv, TypeInv, CoordinatedPlaces, Fresh, OpOf,
     OpenedPlaces, UndoJournal, DropJournal, Goes, storeVars
<1>5. ASSUME NEW r \in Thread, Needed(r)' PROVE Needed(r) /\ Avoids(r, {t})
  <2>1. Needed(r) /\ r # t
    BY <1>1, <1>2, <1>3, <1>4, <1>5 DEF Needed, ReachInv
  <2> QED
    BY <1>2, <1>3, <2>1 DEF ReachInv
<1> QED
  BY <1>1, <1>4, <1>5, RemovalKeeps

\* A collection removes a rollout.
LEMMA SweepKeeps ==
  ASSUME IInv, HInv, NEW a \in Actor, Sweep(a)
  PROVE  ReachInv'
<1> USE DEF HInv, IInv
<1>1. PICK t \in todo[a] : /\ journal' = [journal EXCEPT ![t] = "absent"]
                           /\ todo' = [todo EXCEPT ![a] = @ \ {t}]
  BY DEF Sweep
<1>2. t \in Thread
  BY <1>1 DEF DiskInv, DiskTypeInv
<1>3. \A d \in Client : /\ T(d)' = T(d) /\ reservation'[d] = reservation[d]
                        /\ Fresh(d)' => Fresh(d)
  BY DEF T, Fresh, OpOf, Sweep, storeVars
<1>4. ASSUME NEW r \in Thread, Needed(r)' PROVE Needed(r) /\ Avoids(r, {t})
  <2>1. Needed(r)
    BY <1>4 DEF Needed, T, Sweep, storeVars
  <2>2. Avoids(r, todo[a])
    BY <2>1 DEF ReachInv, Sweep
  <2> QED
    BY <1>1, <2>1, <2>2 DEF Avoids
<1>5. ASSUME NEW b \in Actor, at'[b] = "sweep"
      PROVE  at[b] = "sweep" /\ t \in todo[b] /\ todo'[b] = todo[b] \ {t}
  <2>1. at[b] = "sweep" /\ b = a
    BY <1>5, Alone DEF Sweep, CoordinatedPlaces
  <2> QED
    BY <1>1, <2>1 DEF DiskInv, DiskTypeInv
<1>6. \A u \in Thread \ {t} : journal'[u] = journal[u]
  BY <1>1 DEF DiskInv, DiskTypeInv
<1> QED
  BY <1>2, <1>3, <1>4, <1>5, <1>6, RemovalKeeps

\* What stored threads read is retained, and all of it is there.
LEMMA RetainedIsThere ==
  ASSUME DiskInv, ReachInv, NEW R \in SUBSET index
  PROVE  \A r \in R : Reads(r, Lineage(R))
<1> DEFINE There == {u \in Thread : Avoids(u, {})}
<1>1. R \in SUBSET Thread
  BY DEF DiskInv, DiskTypeInv
<1>2. \A u \in There : journal[u] # "absent" /\ (journal[u] \in Thread => journal[u] \in There)
  BY DEF Avoids, Reads
<1>3. R \subseteq There
  BY <1>1 DEF ReachInv, Needed
<1>4. Lineage(R) \subseteq There
  BY <1>1, <1>2, <1>3, LineageIsLeast DEF Closed
<1> QED
  BY <1>1, <1>2, <1>4, LineageIsLeast DEF Reads, Closed

\* A collection decides what to remove.
LEMMA ScanKeeps ==
  ASSUME IInv, HInv, NEW a \in Actor, Scan(a)
  PROVE  ReachInv'
<1> USE DEF HInv, IInv
<1>1. CASE AnyReservation
  <2>1. /\ UNCHANGED <<index, journal, reservation, call, todo>>
        /\ at' = [at EXCEPT ![a] = "leaveCollect"]
    BY <1>1 DEF Scan, Goes, diskVars, storeVars
  <2>2. \A b \in Actor : at'[b] \in {at[b], "leaveCollect"}
    BY <2>1 DEF TypeInv
  <2>3. Client \subseteq Actor
    BY Names
  <2>4. Quiet
    <3>1. \A r \in Thread : Needed(r)' => Needed(r)
      BY <2>1, <2>2, <2>3 DEF Needed, T
    <3>2. \A c \in Client : Fresh(c)' => Fresh(c) /\ T(c)' = T(c)
      BY <2>1, <2>2, <2>3 DEF Fresh, T, OpOf, OpenedPlaces
    <3> QED
      BY <2>1, <2>2, <3>1, <3>2 DEF Quiet
  <2> QED
    BY <2>4, QuietKeeps
<1>2. CASE ~ AnyReservation
  <2> DEFINE K == Retained(ProcessOf[a])
  <2>1. /\ UNCHANGED <<index, journal, reservation, call>>
        /\ at' = [at EXCEPT ![a] = "sweep"]
        /\ todo' = [todo EXCEPT ![a] = {t \in Thread : journal[t] # "absent"} \ K]
    BY <1>2 DEF Scan, diskVars, storeVars
  <2>2. \A c \in Client : reservation[c].base = "none"
    BY <1>2 DEF AnyReservation, NoReservation
  <2>3. /\ \A c \in Client : at[c] # "index"
        /\ \A b \in Actor \ {a} : at[b] # "sweep"
    BY Names, Alone DEF Scan, CoordinatedPlaces
  <2>4. \A r \in Thread : Needed(r)' => r \in index /\ Needed(r)
    BY <2>1, <2>2, <2>3, NamesAssumption DEF Needed, TypeInv, NamesAssumption
  <2>5. PreparedBy(ProcessOf[a]) = {}
    BY <2>2 DEF PreparedBy
  <2>6. K = Lineage(index) /\ K \in SUBSET Thread
    BY <2>5, LineageIsLeast DEF Retained, DiskInv, DiskTypeInv
  <2>7. \A r \in index : Reads(r, K)
    BY <2>6, RetainedIsThere
  <2>8. \A r \in Thread : \A X : Avoids(r, X) => Avoids(r, X)'
    BY <2>1 DEF Avoids, Reads
  <2>9. ASSUME NEW r \in Thread, Needed(r)' PROVE Avoids(r, {})'
    BY <2>4, <2>8, <2>9 DEF ReachInv
  <2>10. ASSUME NEW c \in Client, Fresh(c)'
         PROVE  /\ \A r \in Thread \ {T(c)'} : Needed(r)' => Avoids(r, {T(c)})'
                /\ \A d \in Client : reservation'[d].base # T(c)'
    <3>1. Fresh(c) /\ T(c)' = T(c)
      BY <2>1, <2>10 DEF Fresh, OpOf, T, OpenedPlaces, TypeInv
    <3> QED
      BY <2>1, <2>4, <3>1 DEF ReachInv, Avoids, Reads
  <2>11. ASSUME NEW b \in Actor, at'[b] = "sweep", NEW r \in Thread, Needed(r)'
         PROVE  Avoids(r, todo[b])'
    <3>1. b = a /\ K \cap todo'[b] = {}
      BY <2>1, <2>3, <2>11 DEF TypeInv, DiskInv, DiskTypeInv
    <3>2. PICK L \in SUBSET Thread : L = K /\ Reads(r, L)
      BY <2>4, <2>6, <2>7, <2>11
    <3>3. Reads(r, L)'
      BY <2>1, <3>2 DEF Reads
    <3> QED
      BY <3>1, <3>2, <3>3 DEF Avoids
  <2> QED
    BY <2>9, <2>10, <2>11 DEF ReachInv
<1> QED
  BY <1>1, <1>2

\* What a fork finds of its source is not taken away by anybody.
LEMMA SnapshotKeeps ==
  ASSUME IInv, HInv, ForksAnswered, NEW d \in Client, Snapshot(d)
  PROVE  ReachInv'
<1> USE Names DEF HInv, IInv
<1>1. PICK b \in {"none"} \cup Thread :
        /\ \/ reservation' = [reservation EXCEPT ![d].base = b]
           \/ /\ b = "none"
              /\ reservation' = [reservation EXCEPT ![d] = NoReservation]
        /\ b # "none" =>
             /\ b \in Lineage({S(d)}) /\ S(d) \in index
             /\ lock[S(d)] = d \/ S(d) \in writers[ProcessOf[d]]
  <2>1. S(d) \in index => Lineage({S(d)}) \in SUBSET Thread
    BY LineageIsLeast DEF DiskInv, DiskTypeInv
  <2> QED
    BY <2>1 DEF Snapshot
<1>2. /\ UNCHANGED <<index, journal, call, todo>>
      /\ at' = [at EXCEPT ![d] = "prepared"]
      /\ \A c \in Client : T(c)' = T(c)
  BY DEF Snapshot, Goes, diskVars, T
<1>3. \A r \in Thread : Needed(r)' => Needed(r) \/ r = b
  <2>1. \A c \in Client : reservation'[c].base \in {reservation[c].base, b}
    BY <1>1 DEF DiskInv, DiskTypeInv, NoReservation
  <2>2. \A c \in Client : at'[c] = "index" => at[c] = "index"
    BY <1>2 DEF TypeInv
  <2> QED
    BY <1>2, <2>1, <2>2 DEF Needed
<1>4. \A c \in Client : Fresh(c)' => Fresh(c) /\ c # d
  BY <1>2 DEF Fresh, OpOf, TypeInv, OpenedPlaces
<1>5. ASSUME NEW X, b # "none", Avoids(S(d), X) PROVE b \notin X /\ Avoids(b, X)
  <2>1. PICK s \in Thread : s = S(d)
    BY <1>1, <1>5 DEF DiskInv, DiskTypeInv
  <2> QED
    BY <1>1, <1>5, <2>1, AvoidsLineage
<1>6. b # "none" => S(d) \in Thread /\ Needed(S(d))
  BY <1>1 DEF DiskInv, DiskTypeInv, Needed
<1>7. \A r \in Thread : \A X : Avoids(r, X) => Avoids(r, X)'
  BY <1>2 DEF Avoids, Reads
<1>8. ASSUME NEW r \in Thread, Needed(r)' PROVE Avoids(r, {})'
  BY <1>3, <1>5, <1>6, <1>7, <1>8, NamesAssumption DEF ReachInv, NamesAssumption
<1>9. ASSUME NEW c \in Client, Fresh(c), c # d, b # "none" PROVE S(d) # T(c)
  <2>1. at[d] = "snapshot"
    BY DEF Snapshot
  <2>2. CASE lock[S(d)] = d
    BY <1>9, <2>2 DEF LockInv, Fresh, PlaceInv, Claims, Makes, Owns, Opens,
       MakePlaces
  <2>3. CASE S(d) \in writers[ProcessOf[d]]
    <3>1. ASSUME S(d) = T(c) PROVE ProcessOf[c] = ProcessOf[d] /\ (Opens(c) \/ Makes(c))
      BY <1>9, <2>3, <3>1 DEF LockInv, Fresh, PlaceInv, Claims, Makes, Owns,
         Opens, MakePlaces
    <3> QED
      BY <1>9, <2>1, <2>3, <3>1 DEF ForksAnswered, Fresh, PhaseInv, Makes,
         MakePlaces, PlaceInv, Opens, OpenedPlaces
  <2> QED
    BY <1>1, <1>9, <2>2, <2>3
<1>10. ASSUME NEW c \in Client, Fresh(c)'
       PROVE  /\ \A r \in Thread \ {T(c)'} : Needed(r)' => Avoids(r, {T(c)})'
              /\ \A e \in Client : reservation'[e].base # T(c)'
  <2>1. PICK v \in Thread : v = T(c) /\ v = T(c)'
    BY <1>2, <1>4, <1>10, CallFacts DEF Fresh, OpenedPlaces
  <2>2. /\ \A r \in Thread \ {v} : Needed(r) => Avoids(r, {v})
        /\ \A e \in Client : reservation[e].base # v
    BY <1>4, <1>10, <2>1 DEF ReachInv
  <2>3. b # "none" => b # v /\ Avoids(b, {v})
    BY <1>4, <1>5, <1>6, <1>9, <1>10, <2>1, <2>2
  <2>4. \A r \in Thread \ {v} : Needed(r)' => Avoids(r, {v})'
    BY <1>3, <1>7, <2>2, <2>3, NamesAssumption DEF NamesAssumption
  <2>5. \A e \in Client : reservation'[e].base # v
    BY <1>1, <2>2, <2>3, NamesAssumption DEF DiskInv, DiskTypeInv, NoReservation, NamesAssumption
  <2> QED
    BY <2>1, <2>4, <2>5 DEF Avoids
<1>11. ASSUME NEW a \in Actor, at'[a] = "sweep", NEW r \in Thread, Needed(r)'
       PROVE  Avoids(r, todo[a])'
  <2>1. at[a] = "sweep"
    BY <1>2, <1>11 DEF TypeInv
  <2>2. PICK X : X = todo[a] /\ X = todo'[a]
    BY <1>2
  <2>3. ASSUME NEW u \in Thread, Needed(u) PROVE Avoids(u, X)
    BY <2>1, <2>2, <2>3 DEF ReachInv
  <2>4. Needed(r) => Avoids(r, X)
    BY <2>3
  <2>5. r = b => Avoids(r, X)
    BY <1>5, <1>6, <2>3, NamesAssumption DEF NamesAssumption
  <2> QED
    BY <1>3, <1>7, <1>11, <2>2, <2>4, <2>5 DEF Avoids
<1> QED
  BY <1>8, <1>10, <1>11 DEF ReachInv

\* Nobody expects the rollout to be absent that a creation writes.
LEMMA WriteJournalAbsent ==
  ASSUME IInv, HInv, NEW c \in Client, WriteJournal(c)
  PROVE  AbsentInv'
<1> USE Names DEF IInv, HInv
<1>1. /\ at[c] = "journal" /\ T(c) \in Thread /\ (Claims(c) \/ Makes(c))
      /\ c \in Actor /\ c \notin Process
  BY CallFacts DEF WriteJournal, Claims, Makes, MakePlaces
<1>2. /\ \A u \in Thread \ {T(c)} : journal'[u] = journal[u]
      /\ UNCHANGED <<index, call, staged, making>>
      /\ \/ at' = [at EXCEPT ![c] = "index"]
         \/ at' = [at EXCEPT ![c] = "undoIndex"]
  BY <1>1 DEF DiskInv, DiskTypeInv, WriteJournal, Goes, Works, Fails,
     storeVars, stagedVars
<1>3. at \in [Actor -> Places] /\ staged \in [Process -> SUBSET Thread]
  BY DEF TypeInv
<1>4. \A p \in Process : T(c) \notin staged[p] \ making[p]
  BY <1>1, SMTT(30) DEF LockInv, PhaseInv
<1>5. ASSUME NEW d \in Client, d # c, T(d) = T(c)
      PROVE  ~ (at[d] \in StagedPlaces) /\ ~ (Makes(d) /\ at[d] \in {"storage", "giveUp"})
  <2>1. ASSUME Makes(d) \/ Closes(d) PROVE Makes(c) /\ Same(c, d)
    BY <1>1, <1>5, <2>1 DEF LockInv, Owns, Same
  <2>2. ASSUME Makes(d) PROVE FALSE
    BY <1>5, <2>1, <2>2 DEF SoleInv
  <2>3. ASSUME at[d] \in StagedPlaces PROVE FALSE
    BY <1>5, <2>1, <2>3 DEF PhaseInv, Closes, Same
  <2> QED
    BY <2>2, <2>3
<1>6. \A d \in Client : d # c => at[d] \notin {"journal", "undoJournal", "dropJournal"}
  BY <1>1, Alone DEF CoordinatedPlaces
<1>7. \A d \in Client : /\ d # c => at'[d] = at[d]
                        /\ T(d)' = T(d) /\ (d # c /\ Makes(d)' => Makes(d))
  BY <1>2, <1>3 DEF T, Makes, OpOf
<1>8. at'[c] \in {"index", "undoIndex"}
  BY <1>1, <1>2, <1>3
<1>9. \A p \in Process : \A t \in staged'[p] \ making'[p] : journal'[t] = "absent"
  BY <1>2, <1>3, <1>4 DEF AbsentInv
<1>10. ASSUME NEW d \in Client
       PROVE  /\ at'[d] \in StagedPlaces => journal'[T(d)'] = "absent"
              /\ Makes(d)' /\ at'[d] \in {"storage", "giveUp"} =>
                   journal'[T(d)'] = "absent"
              /\ at'[d] \notin {"journal", "undoJournal", "dropJournal"}
  <2>1. CASE d = c
    BY <1>8, <2>1 DEF StagedPlaces
  <2>2. CASE d # c
    <3>1. at[d] # "idle" => T(d) \in Thread
      BY CallFacts
    <3> QED
      BY <1>2, <1>5, <1>6, <1>7, <2>2, <3>1 DEF AbsentInv, StagedPlaces
  <2> QED
    BY <2>1, <2>2
<1> QED
  BY <1>9, <1>10 DEF AbsentInv

-----------------------------------------------------------------------------
(* The steps, one lemma for each kind of call.                             *)

\* Creations.
LEMMA CreateKeepsDisk ==
  ASSUME IInv, HInv, NEW c \in Client, Create(c)
  PROVE  HInv'
<1>a. /\ at \in [Actor -> Places] /\ c \in Actor
      /\ call \in [Actor -> CallType \cup {NoCall}]
  BY Names DEF IInv, TypeInv
<1>b. /\ staged \in [Process -> SUBSET Thread]
      /\ making \in [Process -> SUBSET Thread]
      /\ held \in [Process -> SUBSET Thread]
      /\ writers \in [Process -> SUBSET Thread]
      /\ ProcessOf[c] \in Process /\ (at[c] # "idle" => T(c) \in Thread)
  BY Names, CallFacts DEF IInv, TypeInv
<1>c. DiskTypeInv /\ CoordInv /\ AbsentInv /\ HeldInv
  BY DEF HInv, DiskInv
<1>d. /\ Client \subseteq Actor /\ "free" \notin Actor
      /\ "none" \notin Thread /\ "absent" \notin Thread
  BY Names, NamesAssumption DEF NamesAssumption
<1> USE <1>a, <1>b, <1>c, <1>d
    DEF Goes, Returns, Works, Fails, Locks, Unlocks, Adds, Drops, FromStaged,
       storeVars, diskVars, lockVars, stagedVars, writerVars, boundVars
<1>1. ASSUME Claim(c) PROVE HInv'
  <2>1. OpOf(c) \in {"spawn", "fork"}
    BY <1>1 DEF IInv, PlaceInv, Claim
  <2>2. DiskTypeInv'
    BY <1>1, <2>1 DEF DiskTypeInv, Bases, Claim
  <2>3. CoordInv'
    BY <1>1, <2>1 DEF CoordInv, CoordinatedPlaces, OpOf, Claim
  <2>4. AbsentInv'
    BY <1>1, <2>1 DEF AbsentInv, CoordInv, CoordinatedPlaces, DiskTypeInv,
       OpOf, T, Makes, MakePlaces, StagedPlaces, Claim
  <2>5. HeldInv'
    BY <1>1, <2>1 DEF HeldInv, Claim
  <2>6. Quiet
    BY <1>1, <2>1 DEF Quiet, Needed, Fresh, DiskTypeInv, AbsentInv, OpOf, T,
       OpenedPlaces, Claim, NoCall
  <2>7. ReachInv'
    BY <2>6, QuietKeeps DEF IInv, HInv
  <2> QED
    BY <2>2, <2>3, <2>4, <2>5, <2>6, <2>7 DEF HInv, DiskInv
<1>2. ASSUME EnterStorage(c) PROVE HInv'
  <2>1. DiskTypeInv'
    BY <1>2 DEF DiskTypeInv, Bases, EnterStorage, Exists
  <2>2. CoordInv'
    BY <1>2 DEF CoordInv, CoordinatedPlaces, OpOf, EnterStorage, Exists
  <2>3. AbsentInv'
    BY <1>2 DEF AbsentInv, CoordInv, CoordinatedPlaces, DiskTypeInv, OpOf, T,
       Makes, MakePlaces, StagedPlaces, EnterStorage, Exists
  <2>4. HeldInv'
    BY <1>2 DEF HeldInv, EnterStorage, Exists
  <2>5. Quiet
    BY <1>2 DEF Quiet, Needed, Fresh, DiskTypeInv, AbsentInv, OpOf, T,
       OpenedPlaces, EnterStorage, Exists, NoCall
  <2>6. ReachInv'
    BY <2>5, QuietKeeps DEF IInv, HInv
  <2> QED
    BY <2>1, <2>2, <2>3, <2>4, <2>5, <2>6 DEF HInv, DiskInv
<1>3. ASSUME WriteJournal(c) PROVE HInv'
  <2>1. DiskTypeInv'
    BY <1>3 DEF DiskTypeInv, Bases, WriteJournal, BaseOf
  <2>2. CoordInv'
    BY <1>3 DEF CoordInv, CoordinatedPlaces, OpOf, WriteJournal, BaseOf
  <2>3. AbsentInv'
    BY <1>3, WriteJournalAbsent
  <2>4. HeldInv'
    BY <1>3 DEF HeldInv, WriteJournal, BaseOf
  <2>5. ReachInv'
    BY <1>3, WriteJournalKeeps
  <2> QED
    BY <2>1, <2>2, <2>3, <2>4, <2>5 DEF HInv, DiskInv
<1>4. ASSUME WriteIndex(c) PROVE HInv'
  <2>1. DiskTypeInv'
    BY <1>4 DEF DiskTypeInv, Bases, WriteIndex
  <2>2. CoordInv'
    BY <1>4 DEF CoordInv, CoordinatedPlaces, OpOf, WriteIndex
  <2>3. AbsentInv'
    BY <1>4 DEF AbsentInv, CoordInv, CoordinatedPlaces, DiskTypeInv, OpOf, T,
       Makes, MakePlaces, StagedPlaces, WriteIndex
  <2>4. HeldInv'
    BY <1>4 DEF HeldInv, WriteIndex
  <2>5. Quiet
    BY <1>4 DEF Quiet, Needed, Fresh, DiskTypeInv, AbsentInv, OpOf, T,
       OpenedPlaces, WriteIndex, NoCall
  <2>6. ReachInv'
    BY <2>5, QuietKeeps DEF IInv, HInv
  <2> QED
    BY <2>1, <2>2, <2>3, <2>4, <2>5, <2>6 DEF HInv, DiskInv
<1>5. ASSUME OpenWriter(c) PROVE HInv'
  <2>1. DiskTypeInv'
    BY <1>5 DEF DiskTypeInv, Bases, OpenWriter
  <2>2. CoordInv'
    BY <1>5 DEF CoordInv, CoordinatedPlaces, OpOf, OpenWriter
  <2>3. AbsentInv'
    BY <1>5 DEF AbsentInv, CoordInv, CoordinatedPlaces, DiskTypeInv, OpOf, T,
       Makes, MakePlaces, StagedPlaces, OpenWriter
  <2>4. HeldInv'
    BY <1>5, Names DEF IInv, HeldInv, LockInv, PhaseInv, KeptInv, PlaceInv,
       Claims, Opens, Owns, Makes, MakePlaces, OpenedPlaces, DeletePlaces,
       OpOf, T, OpenWriter
  <2>5. Quiet
    BY <1>5 DEF Quiet, Needed, Fresh, DiskTypeInv, AbsentInv, OpOf, T,
       OpenedPlaces, OpenWriter, NoCall
  <2>6. ReachInv'
    BY <2>5, QuietKeeps DEF IInv, HInv
  <2> QED
    BY <2>1, <2>2, <2>3, <2>4, <2>5, <2>6 DEF HInv, DiskInv
<1>6. ASSUME UndoIndex(c) PROVE HInv'
  <2>1. DiskTypeInv'
    BY <1>6 DEF DiskTypeInv, Bases, UndoIndex
  <2>2. CoordInv'
    BY <1>6 DEF CoordInv, CoordinatedPlaces, OpOf, UndoIndex
  <2>3. AbsentInv'
    BY <1>6 DEF AbsentInv, CoordInv, CoordinatedPlaces, DiskTypeInv, OpOf, T,
       Makes, MakePlaces, StagedPlaces, UndoIndex
  <2>4. HeldInv'
    BY <1>6, Names DEF IInv, HeldInv, LockInv, PhaseInv, KeptInv, PlaceInv,
       Claims, Opens, Owns, Makes, MakePlaces, OpenedPlaces, DeletePlaces,
       OpOf, T, UndoIndex
  <2>5. Quiet
    BY <1>6 DEF Quiet, Needed, Fresh, DiskTypeInv, AbsentInv, OpOf, T,
       OpenedPlaces, UndoIndex, NoCall
  <2>6. ReachInv'
    BY <2>5, QuietKeeps DEF IInv, HInv
  <2> QED
    BY <2>1, <2>2, <2>3, <2>4, <2>5, <2>6 DEF HInv, DiskInv
<1>7. ASSUME UndoJournal(c) PROVE HInv'
  <2>1. DiskTypeInv'
    BY <1>7 DEF DiskTypeInv, Bases, UndoJournal
  <2>2. CoordInv'
    BY <1>7 DEF CoordInv, CoordinatedPlaces, OpOf, UndoJournal
  <2>3. AbsentInv'
    BY <1>7 DEF AbsentInv, CoordInv, CoordinatedPlaces, DiskTypeInv, OpOf, T,
       Makes, MakePlaces, StagedPlaces, UndoJournal
  <2>4. HeldInv'
    BY <1>7 DEF HeldInv, UndoJournal
  <2>5. ReachInv'
    BY <1>7, UndoKeeps
  <2> QED
    BY <2>1, <2>2, <2>3, <2>4, <2>5 DEF HInv, DiskInv
<1>8. ASSUME GiveUp(c) PROVE HInv'
  <2>1. DiskTypeInv'
    BY <1>8 DEF DiskTypeInv, Bases, GiveUp
  <2>2. CoordInv'
    BY <1>8 DEF CoordInv, CoordinatedPlaces, OpOf, GiveUp
  <2>3. AbsentInv'
    <3>1. /\ UNCHANGED <<journal, index, staged>> /\ at[c] = "giveUp"
          /\ \A p \in Process : \A t \in staged[p] \ making'[p] :
               t \in staged[p] \ making[p] \/ (Makes(c) /\ t = T(c))
      BY <1>8 DEF GiveUp, Makes, MakePlaces, OpOf, T
    <3>2. \A d \in Client :
            /\ at'[d] \in StagedPlaces \cup {"storage", "giveUp", "journal",
                            "undoJournal", "dropJournal"} =>
                 at'[d] = at[d] /\ T(d)' = T(d)
            /\ Makes(d)' => Makes(d)
      BY <1>8 DEF GiveUp, StagedPlaces, Makes, MakePlaces, OpOf, T, NoCall
    <3>3. \A p \in Process : \A t \in staged'[p] \ making'[p] :
            journal'[t] = "absent"
      BY <3>1 DEF AbsentInv
    <3> QED
      BY <3>1, <3>2, <3>3 DEF AbsentInv
  <2>4. HeldInv'
    BY <1>8 DEF HeldInv, GiveUp
  <2>5. Quiet
    <3>1. /\ UNCHANGED <<journal, index, reservation, todo>>
          /\ at[c] = "giveUp" /\ at'[c] \in {"idle", "unclaim"}
          /\ \A a \in Actor \ {c} : at'[a] = at[a] /\ call'[a] = call[a]
      BY <1>8 DEF GiveUp
    <3>2. \A r \in Thread : Needed(r)' => Needed(r)
      BY <3>1 DEF Needed, T
    <3>3. \A d \in Client : Fresh(d)' => Fresh(d) /\ T(d)' = T(d)
      BY <3>1 DEF Fresh, OpenedPlaces, OpOf, T
    <3> QED
      BY <3>1, <3>2, <3>3 DEF Quiet
  <2>6. ReachInv'
    BY <2>5, QuietKeeps DEF IInv, HInv
  <2> QED
    BY <2>1, <2>2, <2>3, <2>4, <2>5, <2>6 DEF HInv, DiskInv
<1>9. ASSUME Unclaim(c) PROVE HInv'
  <2>1. DiskTypeInv'
    BY <1>9 DEF DiskTypeInv, Bases, Unclaim
  <2>2. CoordInv'
    BY <1>9 DEF CoordInv, CoordinatedPlaces, OpOf, Unclaim
  <2>3. AbsentInv'
    BY <1>9 DEF AbsentInv, CoordInv, CoordinatedPlaces, DiskTypeInv, OpOf, T,
       Makes, MakePlaces, StagedPlaces, Unclaim
  <2>4. HeldInv'
    BY <1>9 DEF HeldInv, Unclaim
  <2>5. Quiet
    BY <1>9 DEF Quiet, Needed, Fresh, DiskTypeInv, AbsentInv, OpOf, T,
       OpenedPlaces, Unclaim, NoCall
  <2>6. ReachInv'
    BY <2>5, QuietKeeps DEF IInv, HInv
  <2> QED
    BY <2>1, <2>2, <2>3, <2>4, <2>5, <2>6 DEF HInv, DiskInv
<1>10. ASSUME LeaveStorage(c) PROVE HInv'
  <2>1. DiskTypeInv'
    BY <1>10 DEF DiskTypeInv, Bases, LeaveStorage
  <2>2. CoordInv'
    BY <1>10 DEF CoordInv, CoordinatedPlaces, OpOf, LeaveStorage
  <2>3. AbsentInv'
    BY <1>10 DEF AbsentInv, CoordInv, CoordinatedPlaces, DiskTypeInv, OpOf, T,
       Makes, MakePlaces, StagedPlaces, LeaveStorage
  <2>4. HeldInv'
    BY <1>10 DEF HeldInv, LeaveStorage
  <2>5. Quiet
    BY <1>10 DEF Quiet, Needed, Fresh, DiskTypeInv, AbsentInv, OpOf, T,
       OpenedPlaces, LeaveStorage, NoCall
  <2>6. ReachInv'
    BY <2>5, QuietKeeps DEF IInv, HInv
  <2> QED
    BY <2>1, <2>2, <2>3, <2>4, <2>5, <2>6 DEF HInv, DiskInv
<1>11. ASSUME Consume(c) PROVE HInv'
  <2>1. DiskTypeInv'
    BY <1>11 DEF DiskTypeInv, Bases, Consume, NoReservation
  <2>2. CoordInv'
    BY <1>11 DEF CoordInv, CoordinatedPlaces, OpOf, Consume, NoReservation
  <2>3. AbsentInv'
    BY <1>11 DEF AbsentInv, CoordInv, CoordinatedPlaces, DiskTypeInv, OpOf, T,
       Makes, MakePlaces, StagedPlaces, Consume, NoReservation
  <2>4. HeldInv'
    BY <1>11 DEF HeldInv, Consume, NoReservation
  <2>5. Quiet
    BY <1>11 DEF Quiet, Needed, Fresh, DiskTypeInv, AbsentInv, OpOf, T,
       OpenedPlaces, Consume, NoReservation, NoCall
  <2>6. ReachInv'
    BY <2>5, QuietKeeps DEF IInv, HInv
  <2> QED
    BY <2>1, <2>2, <2>3, <2>4, <2>5, <2>6 DEF HInv, DiskInv
<1>12. ASSUME Deliver(c) PROVE HInv'
  <2>1. DiskTypeInv'
    BY <1>12 DEF DiskTypeInv, Bases, Deliver
  <2>2. CoordInv'
    BY <1>12 DEF CoordInv, CoordinatedPlaces, OpOf, Deliver
  <2>3. AbsentInv'
    BY <1>12 DEF AbsentInv, CoordInv, CoordinatedPlaces, DiskTypeInv, OpOf, T,
       Makes, MakePlaces, StagedPlaces, Deliver
  <2>4. HeldInv'
    BY <1>12, Names DEF IInv, HeldInv, LockInv, PhaseInv, KeptInv, PlaceInv,
       Claims, Opens, Owns, Makes, MakePlaces, OpenedPlaces, DeletePlaces,
       OpOf, T, Deliver
  <2>5. Quiet
    BY <1>12 DEF Quiet, Needed, Fresh, DiskTypeInv, AbsentInv, OpOf, T,
       OpenedPlaces, Deliver, NoCall
  <2>6. ReachInv'
    BY <2>5, QuietKeeps DEF IInv, HInv
  <2> QED
    BY <2>1, <2>2, <2>3, <2>4, <2>5, <2>6 DEF HInv, DiskInv
<1>13. ASSUME Rollback(c) PROVE HInv'
  <2>1. DiskTypeInv'
    BY <1>13 DEF DiskTypeInv, Bases, Rollback
  <2>2. CoordInv'
    BY <1>13 DEF CoordInv, CoordinatedPlaces, OpOf, Rollback
  <2>3. AbsentInv'
    BY <1>13 DEF AbsentInv, CoordInv, CoordinatedPlaces, DiskTypeInv, OpOf, T,
       Makes, MakePlaces, StagedPlaces, Rollback
  <2>4. HeldInv'
    BY <1>13 DEF HeldInv, Rollback
  <2>5. Quiet
    BY <1>13 DEF Quiet, Needed, Fresh, DiskTypeInv, AbsentInv, OpOf, T,
       OpenedPlaces, Rollback, NoCall
  <2>6. ReachInv'
    BY <2>5, QuietKeeps DEF IInv, HInv
  <2> QED
    BY <2>1, <2>2, <2>3, <2>4, <2>5, <2>6 DEF HInv, DiskInv
<1>14. ASSUME DropIndex(c) PROVE HInv'
  <2>1. DiskTypeInv'
    BY <1>14 DEF DiskTypeInv, Bases, DropIndex
  <2>2. CoordInv'
    BY <1>14 DEF CoordInv, CoordinatedPlaces, OpOf, DropIndex
  <2>3. AbsentInv'
    BY <1>14 DEF AbsentInv, CoordInv, CoordinatedPlaces, DiskTypeInv, OpOf, T,
       Makes, MakePlaces, StagedPlaces, DropIndex
  <2>4. HeldInv'
    BY <1>14, Names DEF IInv, HeldInv, LockInv, PhaseInv, KeptInv, PlaceInv,
       Claims, Opens, Owns, Makes, MakePlaces, OpenedPlaces, DeletePlaces,
       OpOf, T, DropIndex
  <2>5. Quiet
    BY <1>14 DEF Quiet, Needed, Fresh, DiskTypeInv, AbsentInv, OpOf, T,
       OpenedPlaces, DropIndex, NoCall
  <2>6. ReachInv'
    BY <2>5, QuietKeeps DEF IInv, HInv
  <2> QED
    BY <2>1, <2>2, <2>3, <2>4, <2>5, <2>6 DEF HInv, DiskInv
<1>15. ASSUME DropJournal(c) PROVE HInv'
  <2>1. DiskTypeInv'
    BY <1>15 DEF DiskTypeInv, Bases, DropJournal
  <2>2. CoordInv'
    BY <1>15 DEF CoordInv, CoordinatedPlaces, OpOf, DropJournal
  <2>3. AbsentInv'
    BY <1>15 DEF AbsentInv, CoordInv, CoordinatedPlaces, DiskTypeInv, OpOf, T,
       Makes, MakePlaces, StagedPlaces, DropJournal
  <2>4. HeldInv'
    BY <1>15 DEF HeldInv, DropJournal
  <2>5. ReachInv'
    BY <1>15, UndoKeeps
  <2> QED
    BY <2>1, <2>2, <2>3, <2>4, <2>5 DEF HInv, DiskInv
<1>16. ASSUME DropWriter(c) PROVE HInv'
  <2>1. DiskTypeInv'
    BY <1>16 DEF DiskTypeInv, Bases, DropWriter
  <2>2. CoordInv'
    BY <1>16 DEF CoordInv, CoordinatedPlaces, OpOf, DropWriter
  <2>3. AbsentInv'
    BY <1>16 DEF AbsentInv, CoordInv, CoordinatedPlaces, DiskTypeInv, OpOf, T,
       Makes, MakePlaces, StagedPlaces, DropWriter
  <2>4. HeldInv'
    BY <1>16 DEF HeldInv, DropWriter
  <2>5. Quiet
    BY <1>16 DEF Quiet, Needed, Fresh, DiskTypeInv, AbsentInv, OpOf, T,
       OpenedPlaces, DropWriter, NoCall
  <2>6. ReachInv'
    BY <2>5, QuietKeeps DEF IInv, HInv
  <2> QED
    BY <2>1, <2>2, <2>3, <2>4, <2>5, <2>6 DEF HInv, DiskInv
<1> QED
  BY <1>1, <1>2, <1>3, <1>4, <1>5, <1>6, <1>7, <1>8, <1>9, <1>10, <1>11,
     <1>12, <1>13, <1>14, <1>15, <1>16 DEF Create

\* Shutdowns and discards.
LEMMA CloseKeepsDisk ==
  ASSUME IInv, HInv, OriginInv, NEW c \in Client, Close(c)
  PROVE  HInv'
<1>a. /\ at \in [Actor -> Places] /\ c \in Actor
      /\ call \in [Actor -> CallType \cup {NoCall}]
  BY Names DEF IInv, TypeInv
<1>b. /\ staged \in [Process -> SUBSET Thread]
      /\ making \in [Process -> SUBSET Thread]
      /\ held \in [Process -> SUBSET Thread]
      /\ writers \in [Process -> SUBSET Thread]
      /\ ProcessOf[c] \in Process /\ (at[c] # "idle" => T(c) \in Thread)
  BY Names, CallFacts DEF IInv, TypeInv
<1>c. DiskTypeInv /\ CoordInv /\ AbsentInv /\ HeldInv
  BY DEF HInv, DiskInv
<1>d. /\ Client \subseteq Actor /\ "free" \notin Actor
      /\ "none" \notin Thread /\ "absent" \notin Thread
  BY Names, NamesAssumption DEF NamesAssumption
<1> USE <1>a, <1>b, <1>c, <1>d
    DEF Goes, Returns, Works, Fails, Locks, Unlocks, Adds, Drops, FromStaged,
       storeVars, diskVars, lockVars, stagedVars, writerVars, boundVars
<1>1. ASSUME Unlock(c) PROVE HInv'
  <2>1. DiskTypeInv'
    BY <1>1 DEF DiskTypeInv, Bases, Unlock
  <2>2. CoordInv'
    BY <1>1 DEF CoordInv, CoordinatedPlaces, OpOf, Unlock
  <2>3. AbsentInv'
    BY <1>1 DEF AbsentInv, CoordInv, CoordinatedPlaces, DiskTypeInv, OpOf, T,
       Makes, MakePlaces, StagedPlaces, Unlock
  <2>4. HeldInv'
    BY <1>1 DEF HeldInv, Unlock
  <2>5. Quiet
    BY <1>1 DEF Quiet, Needed, Fresh, DiskTypeInv, AbsentInv, OpOf, T,
       OpenedPlaces, Unlock, NoCall
  <2>6. ReachInv'
    BY <2>5, QuietKeeps DEF IInv, HInv
  <2> QED
    BY <2>1, <2>2, <2>3, <2>4, <2>5, <2>6 DEF HInv, DiskInv
<1>2. ASSUME Materialized(c) PROVE HInv'
  <2>1. OpOf(c) = "persist" \/ OpOf(c) \in Ends
    BY <1>2 DEF IInv, PlaceInv, Materialized
  <2>2. DiskTypeInv'
    BY <1>2, <2>1 DEF DiskTypeInv, Bases, Materialized, Materializing, Ends
  <2>3. CoordInv'
    BY <1>2, <2>1 DEF CoordInv, CoordinatedPlaces, OpOf, Materialized,
       Materializing, Ends
  <2>4. AbsentInv'
    BY <1>2, <2>1 DEF AbsentInv, CoordInv, CoordinatedPlaces, DiskTypeInv,
       OpOf, T, Makes, MakePlaces, StagedPlaces, Materialized, Materializing,
       Ends
  <2>5. HeldInv'
    BY <1>2, <2>1 DEF HeldInv, Materialized, Materializing, Ends
  <2>6. Quiet
    BY <1>2, <2>1 DEF Quiet, Needed, Fresh, DiskTypeInv, AbsentInv, OpOf, T,
       OpenedPlaces, Materialized, Materializing, Ends, NoCall
  <2>7. ReachInv'
    BY <2>6, QuietKeeps DEF IInv, HInv
  <2> QED
    BY <2>2, <2>3, <2>4, <2>5, <2>6, <2>7 DEF HInv, DiskInv
<1>3. ASSUME ShutdownThread(c) PROVE HInv'
  <2>1. DiskTypeInv'
    BY <1>3 DEF DiskTypeInv, Bases, ShutdownThread, Materializing, Awaits
  <2>2. CoordInv'
    BY <1>3 DEF CoordInv, CoordinatedPlaces, OpOf, ShutdownThread,
       Materializing, Awaits
  <2>3. AbsentInv'
    BY <1>3 DEF AbsentInv, CoordInv, CoordinatedPlaces, DiskTypeInv, OpOf, T,
       Makes, MakePlaces, StagedPlaces, ShutdownThread, Materializing, Awaits
  <2>4. HeldInv'
    BY <1>3 DEF HeldInv, ShutdownThread, Materializing, Awaits
  <2>5. Quiet
    BY <1>3 DEF Quiet, Needed, Fresh, DiskTypeInv, AbsentInv, OpOf, T,
       OpenedPlaces, ShutdownThread, Materializing, Awaits, NoCall
  <2>6. ReachInv'
    BY <2>5, QuietKeeps DEF IInv, HInv
  <2> QED
    BY <2>1, <2>2, <2>3, <2>4, <2>5, <2>6 DEF HInv, DiskInv
<1>4. ASSUME Drain(c) PROVE HInv'
  <2>1. DiskTypeInv'
    BY <1>4 DEF DiskTypeInv, Bases, Drain
  <2>2. CoordInv'
    BY <1>4 DEF CoordInv, CoordinatedPlaces, OpOf, Drain
  <2>3. AbsentInv'
    BY <1>4 DEF AbsentInv, CoordInv, CoordinatedPlaces, DiskTypeInv, OpOf, T,
       Makes, MakePlaces, StagedPlaces, Drain
  <2>4. HeldInv'
    BY <1>4 DEF HeldInv, Drain
  <2>5. Quiet
    BY <1>4 DEF Quiet, Needed, Fresh, DiskTypeInv, AbsentInv, OpOf, T,
       OpenedPlaces, Drain, NoCall
  <2>6. ReachInv'
    BY <2>5, QuietKeeps DEF IInv, HInv
  <2> QED
    BY <2>1, <2>2, <2>3, <2>4, <2>5, <2>6 DEF HInv, DiskInv
<1>5. ASSUME DiscardThread(c) PROVE HInv'
  <2>1. DiskTypeInv'
    BY <1>5 DEF DiskTypeInv, Bases, DiscardThread, Materializing, Awaits
  <2>2. CoordInv'
    BY <1>5 DEF CoordInv, CoordinatedPlaces, OpOf, DiscardThread,
       Materializing, Awaits
  <2>3. AbsentInv'
    BY <1>5 DEF AbsentInv, CoordInv, CoordinatedPlaces, DiskTypeInv, OpOf, T,
       Makes, MakePlaces, StagedPlaces, DiscardThread, Materializing, Awaits
  <2>4. HeldInv'
    BY <1>5 DEF HeldInv, DiscardThread, Materializing, Awaits
  <2>5. Quiet
    BY <1>5 DEF Quiet, Needed, Fresh, DiskTypeInv, AbsentInv, OpOf, T,
       OpenedPlaces, DiscardThread, Materializing, Awaits, NoCall
  <2>6. ReachInv'
    BY <2>5, QuietKeeps DEF IInv, HInv
  <2> QED
    BY <2>1, <2>2, <2>3, <2>4, <2>5, <2>6 DEF HInv, DiskInv
<1>6. ASSUME DiscardStaged(c) PROVE HInv'
  <2>1. DiskTypeInv'
    BY <1>6 DEF DiskTypeInv, Bases, DiscardStaged
  <2>2. CoordInv'
    BY <1>6 DEF CoordInv, CoordinatedPlaces, OpOf, DiscardStaged
  <2>3. AbsentInv'
    BY <1>6 DEF AbsentInv, CoordInv, CoordinatedPlaces, DiskTypeInv, OpOf, T,
       Makes, MakePlaces, StagedPlaces, DiscardStaged
  <2>4. HeldInv'
    BY <1>6 DEF HeldInv, DiscardStaged
  <2>5. Quiet
    BY <1>6 DEF Quiet, Needed, Fresh, DiskTypeInv, AbsentInv, OpOf, T,
       OpenedPlaces, DiscardStaged, NoCall
  <2>6. ReachInv'
    BY <2>5, QuietKeeps DEF IInv, HInv
  <2> QED
    BY <2>1, <2>2, <2>3, <2>4, <2>5, <2>6 DEF HInv, DiskInv
<1>7. ASSUME RemoveStaged(c) PROVE HInv'
  <2>1. journal' = journal
    BY <1>7 DEF AbsentInv, DiskTypeInv, RemoveStaged, T, StagedPlaces
  <2>2. DiskTypeInv'
    BY <1>7, <2>1 DEF DiskTypeInv, Bases, RemoveStaged
  <2>3. CoordInv'
    BY <1>7, <2>1 DEF CoordInv, CoordinatedPlaces, OpOf, RemoveStaged
  <2>4. AbsentInv'
    BY <1>7, <2>1 DEF AbsentInv, CoordInv, CoordinatedPlaces, DiskTypeInv,
       OpOf, T, Makes, MakePlaces, StagedPlaces, RemoveStaged
  <2>5. HeldInv'
    BY <1>7, <2>1 DEF HeldInv, RemoveStaged
  <2>6. Quiet
    BY <1>7, <2>1 DEF Quiet, Needed, Fresh, DiskTypeInv, AbsentInv, OpOf, T,
       OpenedPlaces, RemoveStaged, NoCall
  <2>7. ReachInv'
    BY <2>6, QuietKeeps DEF IInv, HInv
  <2> QED
    BY <2>2, <2>3, <2>4, <2>5, <2>6, <2>7 DEF HInv, DiskInv
<1>8. ASSUME ReleaseStaged(c) PROVE HInv'
  <2>1. DiskTypeInv'
    BY <1>8 DEF DiskTypeInv, Bases, ReleaseStaged
  <2>2. CoordInv'
    BY <1>8 DEF CoordInv, CoordinatedPlaces, OpOf, ReleaseStaged
  <2>3. AbsentInv'
    BY <1>8 DEF AbsentInv, CoordInv, CoordinatedPlaces, DiskTypeInv, OpOf, T,
       Makes, MakePlaces, StagedPlaces, ReleaseStaged
  <2>4. HeldInv'
    BY <1>8 DEF HeldInv, ReleaseStaged
  <2>5. Quiet
    BY <1>8 DEF Quiet, Needed, Fresh, DiskTypeInv, AbsentInv, OpOf, T,
       OpenedPlaces, ReleaseStaged, NoCall
  <2>6. ReachInv'
    BY <2>5, QuietKeeps DEF IInv, HInv
  <2> QED
    BY <2>1, <2>2, <2>3, <2>4, <2>5, <2>6 DEF HInv, DiskInv
<1>9. ASSUME KeepStaged(c) PROVE HInv'
  <2>1. DiskTypeInv'
    BY <1>9 DEF DiskTypeInv, Bases, KeepStaged
  <2>2. CoordInv'
    BY <1>9 DEF CoordInv, CoordinatedPlaces, OpOf, KeepStaged
  <2>3. AbsentInv'
    BY <1>9 DEF AbsentInv, CoordInv, CoordinatedPlaces, DiskTypeInv, OpOf,
       T, Makes, MakePlaces, StagedPlaces, KeepStaged
  <2>4. HeldInv'
    BY <1>9 DEF HeldInv, KeepStaged
  <2>5. Quiet
    BY <1>9 DEF Quiet, Needed, Fresh, DiskTypeInv, AbsentInv, OpOf, T,
       OpenedPlaces, KeepStaged, NoCall
  <2>6. ReachInv'
    BY <2>5, QuietKeeps DEF IInv, HInv
  <2> QED
    BY <2>1, <2>2, <2>3, <2>4, <2>5, <2>6 DEF HInv, DiskInv
<1>10. ASSUME DiscardUnlocked(c) PROVE HInv'
  <2>1. DiskTypeInv'
    BY <1>10 DEF DiskTypeInv, Bases, DiscardUnlocked
  <2>2. CoordInv'
    BY <1>10 DEF CoordInv, CoordinatedPlaces, OpOf, DiscardUnlocked
  <2>3. AbsentInv'
    BY <1>10 DEF AbsentInv, CoordInv, CoordinatedPlaces, DiskTypeInv, OpOf,
       T, Makes, MakePlaces, StagedPlaces, DiscardUnlocked
  <2>4. HeldInv'
    BY <1>10 DEF HeldInv, DiscardUnlocked
  <2>5. Quiet
    BY <1>10 DEF Quiet, Needed, Fresh, DiskTypeInv, AbsentInv, OpOf, T,
       OpenedPlaces, DiscardUnlocked, NoCall
  <2>6. ReachInv'
    BY <2>5, QuietKeeps DEF IInv, HInv
  <2> QED
    BY <2>1, <2>2, <2>3, <2>4, <2>5, <2>6 DEF HInv, DiskInv
<1>11. ASSUME RemoveUnlocked(c) PROVE HInv'
  <2>0. journal' = journal
    <3>1. Lost(T(c)) /\ T(c) \in Thread
      BY <1>11, CallFacts DEF RemoveUnlocked, Lost, UnlockedPlaces, IInv
    <3>2. journal[T(c)] = "absent"
      BY <3>1 DEF OriginInv
    <3> QED
      BY <1>11, <3>1, <3>2 DEF DiskTypeInv, RemoveUnlocked
  <2>1. DiskTypeInv'
    BY <1>11, <2>0 DEF DiskTypeInv, Bases, RemoveUnlocked
  <2>2. CoordInv'
    BY <1>11, <2>0 DEF CoordInv, CoordinatedPlaces, OpOf, RemoveUnlocked
  <2>3. AbsentInv'
    BY <1>11, <2>0 DEF AbsentInv, CoordInv, CoordinatedPlaces, DiskTypeInv, OpOf,
       T, Makes, MakePlaces, StagedPlaces, RemoveUnlocked
  <2>4. HeldInv'
    BY <1>11, <2>0 DEF HeldInv, RemoveUnlocked
  <2>5. Quiet
    BY <1>11, <2>0 DEF Quiet, Needed, Fresh, DiskTypeInv, AbsentInv, OpOf, T,
       OpenedPlaces, RemoveUnlocked, NoCall
  <2>6. ReachInv'
    BY <2>5, QuietKeeps DEF IInv, HInv
  <2> QED
    BY <2>1, <2>2, <2>3, <2>4, <2>5, <2>6 DEF HInv, DiskInv
<1> QED
  BY <1>1, <1>2, <1>3, <1>4, <1>5, <1>6, <1>7, <1>8, <1>9, <1>10, <1>11
     DEF Close

\* Resumptions.
LEMMA ResumeKeepsDisk ==
  ASSUME IInv, HInv, NEW c \in Client, Resume(c)
  PROVE  HInv'
<1>a. /\ at \in [Actor -> Places] /\ c \in Actor
      /\ call \in [Actor -> CallType \cup {NoCall}]
  BY Names DEF IInv, TypeInv
<1>b. /\ staged \in [Process -> SUBSET Thread]
      /\ making \in [Process -> SUBSET Thread]
      /\ held \in [Process -> SUBSET Thread]
      /\ writers \in [Process -> SUBSET Thread]
      /\ ProcessOf[c] \in Process /\ (at[c] # "idle" => T(c) \in Thread)
  BY Names, CallFacts DEF IInv, TypeInv
<1>c. DiskTypeInv /\ CoordInv /\ AbsentInv /\ HeldInv
  BY DEF HInv, DiskInv
<1>d. /\ Client \subseteq Actor /\ "free" \notin Actor
      /\ "none" \notin Thread /\ "absent" \notin Thread
  BY Names, NamesAssumption DEF NamesAssumption
<1> USE <1>a, <1>b, <1>c, <1>d
    DEF Goes, Returns, Works, Fails, Locks, Unlocks, Adds, Drops, FromStaged,
       storeVars, diskVars, lockVars, stagedVars, writerVars, boundVars
<1>1. ASSUME ResumeThread(c) PROVE HInv'
  <2>1. DiskTypeInv'
    BY <1>1 DEF DiskTypeInv, Bases, ResumeThread
  <2>2. CoordInv'
    BY <1>1 DEF CoordInv, CoordinatedPlaces, OpOf, ResumeThread
  <2>3. AbsentInv'
    BY <1>1 DEF AbsentInv, CoordInv, CoordinatedPlaces, DiskTypeInv, OpOf, T,
       Makes, MakePlaces, StagedPlaces, ResumeThread
  <2>4. HeldInv'
    BY <1>1 DEF HeldInv, ResumeThread
  <2>5. Quiet
    BY <1>1 DEF Quiet, Needed, Fresh, DiskTypeInv, AbsentInv, OpOf, T,
       OpenedPlaces, ResumeThread, NoCall
  <2>6. ReachInv'
    BY <2>5, QuietKeeps DEF IInv, HInv
  <2> QED
    BY <2>1, <2>2, <2>3, <2>4, <2>5, <2>6 DEF HInv, DiskInv
<1>2. ASSUME Reopen(c) PROVE HInv'
  <2>1. DiskTypeInv'
    BY <1>2 DEF DiskTypeInv, Bases, Reopen
  <2>2. CoordInv'
    BY <1>2 DEF CoordInv, CoordinatedPlaces, OpOf, Reopen
  <2>3. AbsentInv'
    BY <1>2 DEF AbsentInv, CoordInv, CoordinatedPlaces, DiskTypeInv, OpOf, T,
       Makes, MakePlaces, StagedPlaces, Reopen
  <2>4. HeldInv'
    BY <1>2 DEF HeldInv, Reopen
  <2>5. Quiet
    BY <1>2 DEF Quiet, Needed, Fresh, DiskTypeInv, AbsentInv, OpOf, T,
       OpenedPlaces, Reopen, NoCall
  <2>6. ReachInv'
    BY <2>5, QuietKeeps DEF IInv, HInv
  <2> QED
    BY <2>1, <2>2, <2>3, <2>4, <2>5, <2>6 DEF HInv, DiskInv
<1>3. ASSUME Repair(c) PROVE HInv'
  <2>1. DiskTypeInv'
    BY <1>3 DEF DiskTypeInv, Bases, Repair
  <2>2. CoordInv'
    BY <1>3 DEF CoordInv, CoordinatedPlaces, OpOf, Repair
  <2>3. AbsentInv'
    BY <1>3 DEF AbsentInv, CoordInv, CoordinatedPlaces, DiskTypeInv, OpOf, T,
       Makes, MakePlaces, StagedPlaces, Repair
  <2>4. HeldInv'
    BY <1>3, Names DEF IInv, HeldInv, LockInv, PhaseInv, KeptInv, PlaceInv,
       Claims, Opens, Owns, Makes, MakePlaces, OpenedPlaces, DeletePlaces,
       OpOf, T, Repair
  <2>5. Quiet
    BY <1>3 DEF Quiet, Needed, Fresh, DiskTypeInv, AbsentInv, OpOf, T,
       OpenedPlaces, Repair, NoCall
  <2>6. ReachInv'
    BY <2>5, QuietKeeps DEF IInv, HInv
  <2> QED
    BY <2>1, <2>2, <2>3, <2>4, <2>5, <2>6 DEF HInv, DiskInv
<1>4. ASSUME ReadResumed(c) PROVE HInv'
  <2>1. DiskTypeInv'
    BY <1>4 DEF DiskTypeInv, Bases, ReadResumed
  <2>2. CoordInv'
    BY <1>4 DEF CoordInv, CoordinatedPlaces, OpOf, ReadResumed
  <2>3. AbsentInv'
    BY <1>4 DEF AbsentInv, CoordInv, CoordinatedPlaces, DiskTypeInv, OpOf, T,
       Makes, MakePlaces, StagedPlaces, ReadResumed
  <2>4. HeldInv'
    BY <1>4, Names DEF IInv, HeldInv, LockInv, PhaseInv, KeptInv, PlaceInv,
       Claims, Opens, Owns, Makes, MakePlaces, OpenedPlaces, DeletePlaces,
       OpOf, T, ReadResumed
  <2>5. Quiet
    BY <1>4 DEF Quiet, Needed, Fresh, DiskTypeInv, AbsentInv, OpOf, T,
       OpenedPlaces, ReadResumed, NoCall
  <2>6. ReachInv'
    BY <2>5, QuietKeeps DEF IInv, HInv
  <2> QED
    BY <2>1, <2>2, <2>3, <2>4, <2>5, <2>6 DEF HInv, DiskInv
<1> QED
  BY <1>1, <1>2, <1>3, <1>4 DEF Resume

\* Forks, until the target is claimed.
LEMMA ForkKeepsDisk ==
  ASSUME IInv, HInv, NEW c \in Client, Fork(c), ForksAnswered
  PROVE  HInv'
<1>a. /\ at \in [Actor -> Places] /\ c \in Actor
      /\ call \in [Actor -> CallType \cup {NoCall}]
  BY Names DEF IInv, TypeInv
<1>b. /\ staged \in [Process -> SUBSET Thread]
      /\ making \in [Process -> SUBSET Thread]
      /\ held \in [Process -> SUBSET Thread]
      /\ writers \in [Process -> SUBSET Thread]
      /\ ProcessOf[c] \in Process /\ (at[c] # "idle" => T(c) \in Thread)
  BY Names, CallFacts DEF IInv, TypeInv
<1>c. DiskTypeInv /\ CoordInv /\ AbsentInv /\ HeldInv
  BY DEF HInv, DiskInv
<1>d. /\ Client \subseteq Actor /\ "free" \notin Actor
      /\ "none" \notin Thread /\ "absent" \notin Thread
  BY Names, NamesAssumption DEF NamesAssumption
<1> USE <1>a, <1>b, <1>c, <1>d
    DEF Goes, Returns, Works, Fails, Locks, Unlocks, Adds, Drops, FromStaged,
       storeVars, diskVars, lockVars, stagedVars, writerVars, boundVars
<1>1. ASSUME PrepareFork(c) PROVE HInv'
  <2>1. S(c) \in Thread
    BY <1>1 DEF IInv, TypeInv, PlaceInv, OpOf, S, CallType, NoCall,
       ForkPlaces, PrepareFork
  <2>2. DiskTypeInv'
    BY <1>1, <2>1 DEF DiskTypeInv, Bases, PrepareFork
  <2>3. CoordInv'
    BY <1>1, <2>1 DEF CoordInv, CoordinatedPlaces, OpOf, PrepareFork
  <2>4. AbsentInv'
    BY <1>1, <2>1 DEF AbsentInv, CoordInv, CoordinatedPlaces, DiskTypeInv,
       OpOf, T, Makes, MakePlaces, StagedPlaces, PrepareFork
  <2>5. HeldInv'
    BY <1>1, <2>1 DEF HeldInv, PrepareFork
  <2>6. Quiet
    BY <1>1, <2>1 DEF Quiet, Needed, Fresh, DiskTypeInv, AbsentInv, OpOf, T,
       OpenedPlaces, PrepareFork, NoCall
  <2>7. ReachInv'
    BY <2>6, QuietKeeps DEF IInv, HInv
  <2> QED
    BY <2>2, <2>3, <2>4, <2>5, <2>6, <2>7 DEF HInv, DiskInv
<1>2. ASSUME Reserve(c) PROVE HInv'
  <2>1. S(c) \in Thread
    BY <1>2 DEF IInv, TypeInv, PlaceInv, OpOf, S, CallType, NoCall,
       ForkPlaces, Reserve
  <2>2. DiskTypeInv'
    BY <1>2, <2>1 DEF DiskTypeInv, Bases, Reserve, NoReservation
  <2>3. CoordInv'
    BY <1>2, <2>1 DEF CoordInv, CoordinatedPlaces, OpOf, Reserve,
       NoReservation
  <2>4. AbsentInv'
    BY <1>2, <2>1 DEF AbsentInv, CoordInv, CoordinatedPlaces, DiskTypeInv,
       OpOf, T, Makes, MakePlaces, StagedPlaces, Reserve, NoReservation
  <2>5. HeldInv'
    BY <1>2, <2>1 DEF HeldInv, Reserve, NoReservation
  <2>6. Quiet
    BY <1>2, <2>1 DEF Quiet, Needed, Fresh, DiskTypeInv, AbsentInv, OpOf, T,
       OpenedPlaces, Reserve, NoReservation, NoCall
  <2>7. ReachInv'
    BY <2>6, QuietKeeps DEF IInv, HInv
  <2> QED
    BY <2>2, <2>3, <2>4, <2>5, <2>6, <2>7 DEF HInv, DiskInv
<1>3. ASSUME Snapshot(c) PROVE HInv'
  <2>1. S(c) \in Thread
    BY <1>3 DEF IInv, TypeInv, PlaceInv, OpOf, S, CallType, NoCall,
       ForkPlaces, Snapshot
  <2>2. Lineage({S(c)}) \in SUBSET Thread
    BY <2>1, LineageIsLeast
  <2>3. DiskTypeInv'
    <3>1. ASSUME NEW base \in {"none"} \cup Thread
          PROVE  [reservation[c] EXCEPT !.base = base]
                   \in [source : Thread \cup {"none"},
                       base : Thread \cup {"none"}]
      BY DEF DiskTypeInv
    <3>2. PICK r \in [source : Thread \cup {"none"},
                    base : Thread \cup {"none"}] :
            reservation' = [reservation EXCEPT ![c] = r]
      BY <1>3, <2>2, <3>1 DEF Snapshot, NoReservation
    <3> QED
      BY <1>3, <3>2 DEF DiskTypeInv, Snapshot
  <2>4. CoordInv'
    BY <1>3, <2>1, <2>2 DEF CoordInv, CoordinatedPlaces, OpOf, Snapshot,
       NoReservation
  <2>5. AbsentInv'
    BY <1>3, <2>1, <2>2 DEF AbsentInv, CoordInv, CoordinatedPlaces,
       DiskTypeInv, OpOf, T, Makes, MakePlaces, StagedPlaces, Snapshot,
       NoReservation
  <2>6. HeldInv'
    BY <1>3, <2>1, <2>2 DEF HeldInv, Snapshot, NoReservation
  <2>7. ReachInv'
    BY <1>3, SnapshotKeeps
  <2> QED
    BY <2>3, <2>4, <2>5, <2>6, <2>7 DEF HInv, DiskInv
<1>4. ASSUME Prepared(c) PROVE HInv'
  <2>1. DiskTypeInv'
    BY <1>4 DEF DiskTypeInv, Bases, Prepared
  <2>2. CoordInv'
    BY <1>4 DEF CoordInv, CoordinatedPlaces, OpOf, Prepared
  <2>3. AbsentInv'
    BY <1>4 DEF AbsentInv, CoordInv, CoordinatedPlaces, DiskTypeInv, OpOf, T,
       Makes, MakePlaces, StagedPlaces, Prepared
  <2>4. HeldInv'
    BY <1>4 DEF HeldInv, Prepared
  <2>5. Quiet
    BY <1>4 DEF Quiet, Needed, Fresh, DiskTypeInv, AbsentInv, OpOf, T,
       OpenedPlaces, Prepared, NoCall
  <2>6. ReachInv'
    BY <2>5, QuietKeeps DEF IInv, HInv
  <2> QED
    BY <2>1, <2>2, <2>3, <2>4, <2>5, <2>6 DEF HInv, DiskInv
<1>5. ASSUME ReleasePreparedFork(c) PROVE HInv'
  <2>1. DiskTypeInv'
    BY <1>5 DEF DiskTypeInv, Bases, ReleasePreparedFork, NoReservation
  <2>2. CoordInv'
    BY <1>5 DEF CoordInv, CoordinatedPlaces, OpOf, ReleasePreparedFork,
       NoReservation
  <2>3. AbsentInv'
    BY <1>5 DEF AbsentInv, CoordInv, CoordinatedPlaces, DiskTypeInv, OpOf, T,
       Makes, MakePlaces, StagedPlaces, ReleasePreparedFork, NoReservation
  <2>4. HeldInv'
    BY <1>5 DEF HeldInv, ReleasePreparedFork, NoReservation
  <2>5. Quiet
    BY <1>5 DEF Quiet, Needed, Fresh, DiskTypeInv, AbsentInv, OpOf, T,
       OpenedPlaces, ReleasePreparedFork, NoReservation, NoCall
  <2>6. ReachInv'
    BY <2>5, QuietKeeps DEF IInv, HInv
  <2> QED
    BY <2>1, <2>2, <2>3, <2>4, <2>5, <2>6 DEF HInv, DiskInv
<1> QED
  BY <1>1, <1>2, <1>3, <1>4, <1>5 DEF Fork

\* Deletions.
LEMMA DeleteKeepsDisk ==
  ASSUME IInv, HInv, NEW c \in Client, Delete(c)
  PROVE  HInv'
<1>a. /\ at \in [Actor -> Places] /\ c \in Actor
      /\ call \in [Actor -> CallType \cup {NoCall}]
  BY Names DEF IInv, TypeInv
<1>b. /\ staged \in [Process -> SUBSET Thread]
      /\ making \in [Process -> SUBSET Thread]
      /\ held \in [Process -> SUBSET Thread]
      /\ writers \in [Process -> SUBSET Thread]
      /\ ProcessOf[c] \in Process /\ (at[c] # "idle" => T(c) \in Thread)
  BY Names, CallFacts DEF IInv, TypeInv
<1>c. DiskTypeInv /\ CoordInv /\ AbsentInv /\ HeldInv
  BY DEF HInv, DiskInv
<1>d. /\ Client \subseteq Actor /\ "free" \notin Actor
      /\ "none" \notin Thread /\ "absent" \notin Thread
  BY Names, NamesAssumption DEF NamesAssumption
<1> USE <1>a, <1>b, <1>c, <1>d
    DEF Goes, Returns, Works, Fails, Locks, Unlocks, Adds, Drops, FromStaged,
       storeVars, diskVars, lockVars, stagedVars, writerVars, boundVars
<1>1. ASSUME DeleteThread(c) PROVE HInv'
  <2>1. DiskTypeInv'
    BY <1>1 DEF DiskTypeInv, Bases, DeleteThread, Materializing, Awaits
  <2>2. CoordInv'
    BY <1>1 DEF CoordInv, CoordinatedPlaces, OpOf, DeleteThread,
       Materializing, Awaits
  <2>3. AbsentInv'
    BY <1>1 DEF AbsentInv, CoordInv, CoordinatedPlaces, DiskTypeInv, OpOf, T,
       Makes, MakePlaces, StagedPlaces, DeleteThread, Materializing, Awaits
  <2>4. HeldInv'
    BY <1>1 DEF HeldInv, DeleteThread, Materializing, Awaits
  <2>5. Quiet
    BY <1>1 DEF Quiet, Needed, Fresh, DiskTypeInv, AbsentInv, OpOf, T,
       OpenedPlaces, DeleteThread, Materializing, Awaits, NoCall
  <2>6. ReachInv'
    BY <2>5, QuietKeeps DEF IInv, HInv
  <2> QED
    BY <2>1, <2>2, <2>3, <2>4, <2>5, <2>6 DEF HInv, DiskInv
<1>2. ASSUME EnterDelete(c) PROVE HInv'
  <2>1. DiskTypeInv'
    BY <1>2 DEF DiskTypeInv, Bases, EnterDelete
  <2>2. CoordInv'
    BY <1>2 DEF CoordInv, CoordinatedPlaces, OpOf, EnterDelete
  <2>3. AbsentInv'
    BY <1>2 DEF AbsentInv, CoordInv, CoordinatedPlaces, DiskTypeInv, OpOf, T,
       Makes, MakePlaces, StagedPlaces, EnterDelete
  <2>4. HeldInv'
    BY <1>2 DEF HeldInv, EnterDelete
  <2>5. Quiet
    BY <1>2 DEF Quiet, Needed, Fresh, DiskTypeInv, AbsentInv, OpOf, T,
       OpenedPlaces, EnterDelete, NoCall
  <2>6. ReachInv'
    BY <2>5, QuietKeeps DEF IInv, HInv
  <2> QED
    BY <2>1, <2>2, <2>3, <2>4, <2>5, <2>6 DEF HInv, DiskInv
<1>3. ASSUME RemoveIndex(c) PROVE HInv'
  <2>1. DiskTypeInv'
    BY <1>3 DEF DiskTypeInv, Bases, RemoveIndex
  <2>2. CoordInv'
    BY <1>3 DEF CoordInv, CoordinatedPlaces, OpOf, RemoveIndex
  <2>3. AbsentInv'
    BY <1>3 DEF AbsentInv, CoordInv, CoordinatedPlaces, DiskTypeInv, OpOf, T,
       Makes, MakePlaces, StagedPlaces, RemoveIndex
  <2>4. HeldInv'
    BY <1>3, Names DEF IInv, HeldInv, LockInv, PhaseInv, KeptInv, PlaceInv,
       Claims, Opens, Owns, Makes, MakePlaces, OpenedPlaces, DeletePlaces,
       OpOf, T, RemoveIndex
  <2>5. Quiet
    BY <1>3 DEF Quiet, Needed, Fresh, DiskTypeInv, AbsentInv, OpOf, T,
       OpenedPlaces, RemoveIndex, NoCall
  <2>6. ReachInv'
    BY <2>5, QuietKeeps DEF IInv, HInv
  <2> QED
    BY <2>1, <2>2, <2>3, <2>4, <2>5, <2>6 DEF HInv, DiskInv
<1>4. ASSUME LeaveDelete(c) PROVE HInv'
  <2>1. DiskTypeInv'
    BY <1>4 DEF DiskTypeInv, Bases, LeaveDelete
  <2>2. CoordInv'
    BY <1>4 DEF CoordInv, CoordinatedPlaces, OpOf, LeaveDelete
  <2>3. AbsentInv'
    BY <1>4 DEF AbsentInv, CoordInv, CoordinatedPlaces, DiskTypeInv, OpOf, T,
       Makes, MakePlaces, StagedPlaces, LeaveDelete
  <2>4. HeldInv'
    BY <1>4 DEF HeldInv, LeaveDelete
  <2>5. Quiet
    BY <1>4 DEF Quiet, Needed, Fresh, DiskTypeInv, AbsentInv, OpOf, T,
       OpenedPlaces, LeaveDelete, NoCall
  <2>6. ReachInv'
    BY <2>5, QuietKeeps DEF IInv, HInv
  <2> QED
    BY <2>1, <2>2, <2>3, <2>4, <2>5, <2>6 DEF HInv, DiskInv
<1>5. ASSUME UnclaimDeleted(c) PROVE HInv'
  <2>1. DiskTypeInv'
    BY <1>5 DEF DiskTypeInv, Bases, UnclaimDeleted
  <2>2. CoordInv'
    BY <1>5 DEF CoordInv, CoordinatedPlaces, OpOf, UnclaimDeleted
  <2>3. AbsentInv'
    BY <1>5 DEF AbsentInv, CoordInv, CoordinatedPlaces, DiskTypeInv, OpOf, T,
       Makes, MakePlaces, StagedPlaces, UnclaimDeleted
  <2>4. HeldInv'
    BY <1>5 DEF HeldInv, UnclaimDeleted
  <2>5. Quiet
    BY <1>5 DEF Quiet, Needed, Fresh, DiskTypeInv, AbsentInv, OpOf, T,
       OpenedPlaces, UnclaimDeleted, NoCall
  <2>6. ReachInv'
    BY <2>5, QuietKeeps DEF IInv, HInv
  <2> QED
    BY <2>1, <2>2, <2>3, <2>4, <2>5, <2>6 DEF HInv, DiskInv
<1> QED
  BY <1>1, <1>2, <1>3, <1>4, <1>5 DEF Delete

\* Collections.
LEMMA CollectKeepsDisk ==
  ASSUME IInv, HInv, NEW c \in Actor, CollectStep(c)
  PROVE  HInv'
<1>a. /\ at \in [Actor -> Places] /\ c \in Actor
      /\ call \in [Actor -> CallType \cup {NoCall}]
  BY Names DEF IInv, TypeInv
<1>b. /\ staged \in [Process -> SUBSET Thread]
      /\ making \in [Process -> SUBSET Thread]
      /\ held \in [Process -> SUBSET Thread]
      /\ writers \in [Process -> SUBSET Thread]
  BY DEF IInv, TypeInv
<1>c. DiskTypeInv /\ CoordInv /\ AbsentInv /\ HeldInv
  BY DEF HInv, DiskInv
<1>d. /\ Client \subseteq Actor /\ "free" \notin Actor
      /\ "none" \notin Thread /\ "absent" \notin Thread
  BY Names, NamesAssumption DEF NamesAssumption
<1> USE <1>a, <1>b, <1>c, <1>d
    DEF Goes, Returns, Works, Fails, Locks, Unlocks, Adds, Drops, FromStaged,
       storeVars, diskVars, lockVars, stagedVars, writerVars, boundVars
<1>1. ASSUME Collect(c) PROVE HInv'
  <2>1. DiskTypeInv'
    BY <1>1 DEF DiskTypeInv, Bases, Collect
  <2>2. CoordInv'
    BY <1>1 DEF CoordInv, CoordinatedPlaces, OpOf, Collect
  <2>3. AbsentInv'
    BY <1>1 DEF AbsentInv, CoordInv, CoordinatedPlaces, DiskTypeInv, OpOf, T,
       Makes, MakePlaces, StagedPlaces, Collect
  <2>4. HeldInv'
    BY <1>1 DEF HeldInv, Collect
  <2>5. Quiet
    BY <1>1 DEF Quiet, Needed, Fresh, DiskTypeInv, AbsentInv, OpOf, T,
       OpenedPlaces, Collect, NoCall
  <2>6. ReachInv'
    BY <2>5, QuietKeeps DEF IInv, HInv
  <2> QED
    BY <2>1, <2>2, <2>3, <2>4, <2>5, <2>6 DEF HInv, DiskInv
<1>2. ASSUME Probe(c) PROVE HInv'
  <2>1. DiskTypeInv'
    BY <1>2 DEF DiskTypeInv, Bases, Probe
  <2>2. CoordInv'
    BY <1>2 DEF CoordInv, CoordinatedPlaces, OpOf, Probe
  <2>3. AbsentInv'
    BY <1>2 DEF AbsentInv, CoordInv, CoordinatedPlaces, DiskTypeInv, OpOf, T,
       Makes, MakePlaces, StagedPlaces, Probe
  <2>4. HeldInv'
    BY <1>2 DEF HeldInv, Probe
  <2>5. Quiet
    BY <1>2 DEF Quiet, Needed, Fresh, DiskTypeInv, AbsentInv, OpOf, T,
       OpenedPlaces, Probe, NoCall
  <2>6. ReachInv'
    BY <2>5, QuietKeeps DEF IInv, HInv
  <2> QED
    BY <2>1, <2>2, <2>3, <2>4, <2>5, <2>6 DEF HInv, DiskInv
<1>3. ASSUME Probed(c) PROVE HInv'
  <2>1. DiskTypeInv'
    BY <1>3 DEF DiskTypeInv, Bases, Probed
  <2>2. CoordInv'
    BY <1>3 DEF CoordInv, CoordinatedPlaces, OpOf, Probed
  <2>3. AbsentInv'
    BY <1>3 DEF AbsentInv, CoordInv, CoordinatedPlaces, DiskTypeInv, OpOf, T,
       Makes, MakePlaces, StagedPlaces, Probed
  <2>4. HeldInv'
    BY <1>3 DEF HeldInv, Probed
  <2>5. Quiet
    BY <1>3 DEF Quiet, Needed, Fresh, DiskTypeInv, AbsentInv, OpOf, T,
       OpenedPlaces, Probed, NoCall
  <2>6. ReachInv'
    BY <2>5, QuietKeeps DEF IInv, HInv
  <2> QED
    BY <2>1, <2>2, <2>3, <2>4, <2>5, <2>6 DEF HInv, DiskInv
<1>4. ASSUME Scan(c) PROVE HInv'
  <2>1. DiskTypeInv'
    BY <1>4 DEF DiskTypeInv, Bases, Scan
  <2>2. CoordInv'
    BY <1>4 DEF CoordInv, CoordinatedPlaces, OpOf, Scan
  <2>3. AbsentInv'
    BY <1>4 DEF AbsentInv, CoordInv, CoordinatedPlaces, DiskTypeInv, OpOf, T,
       Makes, MakePlaces, StagedPlaces, Scan
  <2>4. HeldInv'
    BY <1>4 DEF HeldInv, Scan
  <2>5. ReachInv'
    BY <1>4, ScanKeeps
  <2> QED
    BY <2>1, <2>2, <2>3, <2>4, <2>5 DEF HInv, DiskInv
<1>5. ASSUME Sweep(c) PROVE HInv'
  <2>1. DiskTypeInv'
    BY <1>5 DEF DiskTypeInv, Bases, Sweep
  <2>2. CoordInv'
    BY <1>5 DEF CoordInv, CoordinatedPlaces, OpOf, Sweep
  <2>3. AbsentInv'
    BY <1>5 DEF AbsentInv, CoordInv, CoordinatedPlaces, DiskTypeInv, OpOf, T,
       Makes, MakePlaces, StagedPlaces, Sweep
  <2>4. HeldInv'
    BY <1>5 DEF HeldInv, Sweep
  <2>5. ReachInv'
    BY <1>5, SweepKeeps
  <2> QED
    BY <2>1, <2>2, <2>3, <2>4, <2>5 DEF HInv, DiskInv
<1>6. ASSUME LeaveCollect(c) PROVE HInv'
  <2>1. DiskTypeInv'
    BY <1>6 DEF DiskTypeInv, Bases, LeaveCollect
  <2>2. CoordInv'
    BY <1>6 DEF CoordInv, CoordinatedPlaces, OpOf, LeaveCollect
  <2>3. AbsentInv'
    BY <1>6 DEF AbsentInv, CoordInv, CoordinatedPlaces, DiskTypeInv, OpOf, T,
       Makes, MakePlaces, StagedPlaces, LeaveCollect
  <2>4. HeldInv'
    BY <1>6 DEF HeldInv, LeaveCollect
  <2>5. Quiet
    BY <1>6 DEF Quiet, Needed, Fresh, DiskTypeInv, AbsentInv, OpOf, T,
       OpenedPlaces, LeaveCollect, NoCall
  <2>6. ReachInv'
    BY <2>5, QuietKeeps DEF IInv, HInv
  <2> QED
    BY <2>1, <2>2, <2>3, <2>4, <2>5, <2>6 DEF HInv, DiskInv
<1> QED
  BY <1>1, <1>2, <1>3, <1>4, <1>5, <1>6 DEF CollectStep

\* The beginning of a call.
LEMMA CallKeepsDisk ==
  ASSUME IInv, HInv, ~ GoalsRaceCloses, NEW c \in Client, NEW k \in left[c],
         MakeCall(c, k)
  PROVE  HInv'
<1>a. /\ at \in [Actor -> Places] /\ c \in Actor /\ Client \subseteq Actor
      /\ call \in [Actor -> CallType \cup {NoCall}]
      /\ ProcessOf[c] \in Process
      /\ k \in CallType /\ k.thread \in Thread /\ k.op \in Operations
  BY Names DEF IInv, TypeInv, CallType
<1>b. /\ staged \in [Process -> SUBSET Thread]
      /\ making \in [Process -> SUBSET Thread]
      /\ held \in [Process -> SUBSET Thread]
      /\ writers \in [Process -> SUBSET Thread]
  BY DEF IInv, TypeInv
<1>c. DiskTypeInv /\ CoordInv /\ AbsentInv /\ HeldInv
  BY DEF HInv, DiskInv
<1>d. "none" \notin Thread
  BY NamesAssumption DEF NamesAssumption
<1> USE <1>a, <1>b, <1>c, <1>d
    DEF Calls, Adds, Drops, storeVars, diskVars, lockVars, stagedVars,
        writerVars, boundVars
<1>1. ASSUME CreateThread(c, k) PROVE HInv'
  <2>1. DiskTypeInv'
    BY <1>1 DEF DiskTypeInv, CreateThread
  <2>2. CoordInv'
    BY <1>1 DEF CoordInv, CoordinatedPlaces, CreateThread
  <2>3. AbsentInv'
    BY <1>1 DEF AbsentInv, OpOf, T, Makes, StagedPlaces, CreateThread, Exists, NoCall
  <2>4. HeldInv'
    <3>1. k.thread \notin writers[ProcessOf[c]] \/ lock[k.thread] # "free"
      <4>1. ProcessOf[c] # "free"
        BY NamesAssumption DEF NamesAssumption
      <4>2. k.thread \in writers[ProcessOf[c]] => lock[k.thread] = ProcessOf[c]
        BY DEF IInv, LockInv
      <4> QED
        BY <4>1, <4>2
    <3> QED
      BY <1>1, <3>1 DEF HeldInv, CreateThread
  <2>5. Quiet
    BY <1>1 DEF Quiet, Needed, Fresh, OpOf, T, OpenedPlaces, CreateThread
  <2>6. ReachInv'
    BY <2>5, QuietKeeps DEF IInv, HInv
  <2> QED
    BY <2>1, <2>2, <2>3, <2>4, <2>6 DEF HInv, DiskInv
<1>2. ASSUME PersistThread(c, k) PROVE HInv'
  <2>1. DiskTypeInv'
    BY <1>2 DEF DiskTypeInv, PersistThread
  <2>2. CoordInv'
    BY <1>2 DEF CoordInv, CoordinatedPlaces, PersistThread
  <2>3. AbsentInv'
    BY <1>2 DEF AbsentInv, OpOf, T, Makes, MakePlaces, StagedPlaces,
                PersistThread
  <2>4. HeldInv'
    BY <1>2 DEF HeldInv, PersistThread
  <2>5. Quiet
    BY <1>2 DEF Quiet, Needed, Fresh, OpOf, T, OpenedPlaces, PersistThread
  <2>6. ReachInv'
    BY <2>5, QuietKeeps DEF IInv, HInv
  <2> QED
    BY <2>1, <2>2, <2>3, <2>4, <2>6 DEF HInv, DiskInv
<1>3. ASSUME CallStore(c, k) PROVE HInv'
  <2>0. k.op \in {"spawn", "resume", "shutdown", "discard", "fork", "delete"}
    BY <1>3 DEF CallStore, Operations
  <2>1. DiskTypeInv'
    BY <1>3 DEF DiskTypeInv, CallStore
  <2>2. CoordInv'
    BY <1>3, <2>0 DEF CoordInv, CoordinatedPlaces, CallStore
  <2>3. AbsentInv'
    BY <1>3, <2>0 DEF AbsentInv, OpOf, T, Makes, MakePlaces, StagedPlaces,
                CallStore
  <2>4. HeldInv'
    BY <1>3 DEF HeldInv, CallStore
  <2>5. Quiet
    BY <1>3, <2>0 DEF Quiet, Needed, Fresh, OpOf, T, OpenedPlaces, CallStore
  <2>6. ReachInv'
    BY <2>5, QuietKeeps DEF IInv, HInv
  <2> QED
    BY <2>1, <2>2, <2>3, <2>4, <2>6 DEF HInv, DiskInv
<1> QED
  BY <1>1, <1>2, <1>3 DEF MakeCall

\* A store is opened, and a process dies.
LEMMA ProcessKeepsDisk ==
  ASSUME IInv, HInv, NEW p \in Process, Open(p) \/ Crash(p)
  PROVE  HInv'
<1>a. /\ at \in [Actor -> Places] /\ Client \subseteq Actor
      /\ Boot[p] \in Actor \ Client
      /\ call \in [Actor -> CallType \cup {NoCall}]
  BY Names, NamesAssumption DEF IInv, TypeInv, NamesAssumption, Actor, Boots
<1>b. /\ staged \in [Process -> SUBSET Thread]
      /\ making \in [Process -> SUBSET Thread]
      /\ held \in [Process -> SUBSET Thread]
      /\ writers \in [Process -> SUBSET Thread]
  BY DEF IInv, TypeInv
<1>c. DiskTypeInv /\ CoordInv /\ AbsentInv /\ HeldInv
  BY DEF HInv, DiskInv
<1>d. "none" \notin Thread
  BY NamesAssumption DEF NamesAssumption
<1> USE <1>a, <1>b, <1>c, <1>d
    DEF storeVars, diskVars, lockVars, stagedVars, writerVars, boundVars
<1>1. ASSUME Open(p) PROVE HInv'
  <2>1. DiskTypeInv'
    BY <1>1 DEF DiskTypeInv, Open
  <2>2. CoordInv'
    BY <1>1 DEF CoordInv, CoordinatedPlaces, Open
  <2>3. AbsentInv'
    BY <1>1 DEF AbsentInv, OpOf, T, Makes, Open
  <2>4. HeldInv'
    BY <1>1 DEF HeldInv, Open
  <2>5. Quiet
    BY <1>1 DEF Quiet, Needed, Fresh, OpOf, T, Open
  <2>6. ReachInv'
    BY <2>5, QuietKeeps DEF IInv, HInv
  <2> QED
    BY <2>1, <2>2, <2>3, <2>4, <2>6 DEF HInv, DiskInv
<1>2. ASSUME Crash(p) PROVE HInv'
  <2>1. /\ UNCHANGED <<index, journal, lockFiles>>
        /\ \A q \in Process : \/ staged'[q] = {} /\ held'[q] = {}
                              \/ /\ staged'[q] = staged[q] /\ held'[q] = held[q]
                                 /\ making'[q] = making[q]
                                 /\ writers'[q] = writers[q]
    BY <1>2 DEF Crash
  <2>2. \A a \in Actor :
          \/ ProcessOf[a] = p /\ at'[a] = "idle" /\ todo'[a] = {}
          \/ /\ ProcessOf[a] # p /\ a # p /\ at'[a] = at[a]
             /\ call'[a] = call[a] /\ todo'[a] = todo[a]
    BY <1>2, CallersAreNoProcesses DEF Crash, OfProcess
  <2>3. \A c \in Client : reservation'[c] \in {reservation[c], NoReservation}
    BY <1>2 DEF Crash
  <2>4. DiskTypeInv'
    BY <1>2, <2>1 DEF DiskTypeInv, Crash, NoReservation
  <2>5. CoordInv'
    <3>1. ASSUME NEW a \in Actor, at'[a] \in CoordinatedPlaces
          PROVE  coordination' = a
      <4>1. at[a] \in CoordinatedPlaces /\ ProcessOf[a] # p /\ a # p
        BY <2>2, <3>1 DEF CoordinatedPlaces
      <4>2. coordination = a
        BY <4>1 DEF CoordInv
      <4> QED
        BY <1>2, <4>1, <4>2 DEF Crash, OfProcess
    <3> QED
      BY <3>1 DEF CoordInv
  <2>6. AbsentInv'
    BY <2>1, <2>2 DEF AbsentInv, OpOf, T, Makes, MakePlaces, StagedPlaces
  <2>7. HeldInv'
    BY <2>1 DEF HeldInv
  <2>8. Quiet
    BY <1>2, <2>1, <2>2, <2>3 DEF Quiet, Needed, Fresh, OpOf, T, OpenedPlaces,
       NoReservation
  <2>9. ReachInv'
    BY <2>8, QuietKeeps DEF IInv, HInv
  <2> QED
    BY <2>4, <2>5, <2>6, <2>7, <2>9 DEF HInv, DiskInv
<1> QED
  BY <1>1, <1>2

\* What is stored at first can be read, and nothing else is needed.
LEMMA InitHInv == Init => HInv
<1> SUFFICES ASSUME Init PROVE HInv
  OBVIOUS
<1>1. PICK script \in Scripts : journal = script.stored
  BY DEF Init
<1>2. /\ journal \in [Thread -> Bases]
      /\ index = {t \in Thread : journal[t] # "absent"}
      /\ \A t \in Thread : journal[t] \in Thread => journal[journal[t]] # "absent"
  BY <1>1, ScriptsAssumption, StoredAssumption
     DEF Init, ScriptsAssumption, StoredAssumption
<1>3. /\ \A c \in Actor : at[c] = "idle"
      /\ \A c \in Client : reservation[c].base = "none"
      /\ Client \subseteq Actor
  BY Names DEF Init, NoReservation
<1>4. DiskInv
  BY <1>2, <1>3 DEF DiskInv, DiskTypeInv, CoordInv, CoordinatedPlaces, Init,
     NoReservation
<1>5. AbsentInv /\ HeldInv
  BY <1>3 DEF AbsentInv, HeldInv, Init, StagedPlaces, Makes, MakePlaces
<1>6. \A r \in Thread : Needed(r) => r \in index
  BY <1>3, NamesAssumption DEF Needed, NamesAssumption
<1>7. \A r \in index : Reads(r, index)
  BY <1>2 DEF Reads
<1>8. ReachInv
  BY <1>2, <1>3, <1>6, <1>7 DEF ReachInv, Avoids, Fresh, OpenedPlaces
<1> QED
  BY <1>4, <1>5, <1>8 DEF HInv

LEMMA NextHInv ==
  ASSUME IInv, HInv, OriginInv, ~ GoalsRaceCloses, ForksAnswered,
         [Next]_vars
  PROVE  HInv'
<1>1. CASE UNCHANGED vars
  <2>1. Quiet
    BY <1>1 DEF vars, storeVars, diskVars, Quiet, Needed, Fresh, OpOf, T
  <2>2. ReachInv'
    BY <2>1, QuietKeeps DEF IInv, HInv
  <2> QED
    BY <1>1, <2>2 DEF vars, storeVars, diskVars, lockVars, stagedVars,
       writerVars, HInv, DiskInv, DiskTypeInv, CoordInv, AbsentInv, HeldInv,
       Makes, OpOf, T
<1>2. ASSUME NEW c \in Client, ClientStep(c) PROVE HInv'
  BY <1>2, Names, CreateKeepsDisk, CloseKeepsDisk, ResumeKeepsDisk,
     ForkKeepsDisk, DeleteKeepsDisk, CollectKeepsDisk DEF ClientStep
<1>3. ASSUME NEW c \in Client, NEW k \in left[c], MakeCall(c, k) PROVE HInv'
  BY <1>3, CallKeepsDisk
<1>4. ASSUME NEW p \in Process, CollectStep(Boot[p]) PROVE HInv'
  BY <1>4, CollectKeepsDisk DEF Actor, Boots
<1>5. ASSUME NEW p \in Process, Open(p) \/ Crash(p) PROVE HInv'
  BY <1>5, ProcessKeepsDisk
<1> QED
  BY <1>1, <1>2, <1>3, <1>4, <1>5 DEF Next

\* Whatever a stored thread, a Session or a prepared fork needs of the rollouts
\* is on disk after every step and every crash, when no goal is set on a thread
\* that is being closed or has been, and nobody forks a thread whose creation was not
\* answered yet: no creation that is cut short, deletion or collection leaves
\* a rollout that continues one that is gone.
THEOREM HistoryReachableHolds ==
  ASSUME ~ GoalsRaceCloses
  PROVE  Spec /\ []ForksAnswered => []HistoryReachable
<1>1. Init => HInv /\ OriginInv
  BY InitHInv, InitOriginInv
<1>2. IInv /\ HInv /\ OriginInv /\ ForksAnswered /\ [Next]_vars
        => HInv' /\ OriginInv'
  BY NextHInv, NextOriginInv
<1>3. IInv /\ HInv => HistoryReachable
  <2> SUFFICES ASSUME IInv, HInv PROVE HistoryReachable
    OBVIOUS
  <2>1. index \subseteq Thread
    BY DEF HInv, DiskInv, DiskTypeInv
  <2>2. \A r \in Thread : Needed(r) => Readable(r)
    BY AvoidsIsReadable DEF HInv, ReachInv
  <2>3. \A t \in index : Readable(t)
    BY <2>1, <2>2 DEF Needed
  <2>4. \A c \in Client : reservation[c].base # "none" =>
          reservation[c].base \in Thread
    BY DEF HInv, DiskInv, DiskTypeInv
  <2>5. \A c \in Client : reservation[c].base # "none" =>
          Readable(reservation[c].base)
    BY <2>2, <2>4 DEF Needed
  <2>6. \A p \in Process : held[p] \cap writers[p] \subseteq index
    BY DEF HInv, HeldInv
  <2> QED
    BY <2>3, <2>5, <2>6 DEF HistoryReachable
<1>4. Spec => []IInv
  BY SpecIInv
<1> QED
  BY <1>1, <1>2, <1>3, <1>4, PTL DEF Spec
=============================================================================
