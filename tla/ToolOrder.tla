------------------------------ MODULE ToolOrder ------------------------------
(***************************************************************************)
(* What a model turn is promised about the tools it calls: the calls are   *)
(* numbered in the order the model made them, a call whose tool is         *)
(* exclusive runs alone, and a call never starts once a later call it      *)
(* conflicts with has started.  Calls that may run in parallel are         *)
(* otherwise free, and any call that has not started may be dropped.       *)
(*                                                                         *)
(* ToolGate implements this specification with a queue and two counters.   *)
(***************************************************************************)
EXTENDS Naturals

CONSTANT N      \* the number of calls

Calls == 1..N

VARIABLES
  mode,         \* mode[c] is "parallel" or "exclusive"
  phase         \* phase[c] is "idle", "running", "done" or "dropped"

vars == <<mode, phase>>

\* Two calls may not run at the same time when either is exclusive.
Conflict(c, d) == c # d /\ "exclusive" \in {mode[c], mode[d]}

Init ==
  /\ mode \in [Calls -> {"parallel", "exclusive"}]
  /\ phase = [c \in Calls |-> "idle"]

\* A call starts: nothing that conflicts with it runs, and no later call that
\* conflicts with it has run.
Start(c) ==
  /\ phase[c] = "idle"
  /\ \A d \in Calls : Conflict(c, d) =>
        /\ phase[d] # "running"
        /\ c < d => phase[d] # "done"
  /\ phase' = [phase EXCEPT ![c] = "running"]
  /\ UNCHANGED mode

Finish(c) ==
  /\ phase[c] = "running"
  /\ phase' = [phase EXCEPT ![c] = "done"]
  /\ UNCHANGED mode

\* A call that has not started is denied, cancelled or fails to start.
Drop(c) ==
  /\ phase[c] = "idle"
  /\ phase' = [phase EXCEPT ![c] = "dropped"]
  /\ UNCHANGED mode

Next == \E c \in Calls : Start(c) \/ Finish(c) \/ Drop(c)

Spec == Init /\ [][Next]_vars

=============================================================================
