------------------------------ MODULE MCSession ------------------------------
(***************************************************************************)
(* Instances of Session for TLC: the sets of commands of the runs.         *)
(***************************************************************************)
EXTENDS Session

Command(type, id, n) ==
  [type |-> type, id |-> id, source |-> "human", mode |-> "start_if_idle",
   expected |-> "any", n |-> n]
Followup(id, n) ==
  [Command("turn_input", id, n) EXCEPT !.source = "agent",
                                       !.mode = "start_or_steer"]
Prompt(id) == [Command("turn_input", id, 1) EXCEPT !.mode = "start_or_steer"]
Resume(id, expected) ==
  [Command("resume_turn", id, 1) EXCEPT !.source = "runtime",
                                        !.expected = expected]
Shutdown1 == Command("shutdown", "shutdown", 1)
ShutdownIfIdle1 == Command("shutdown_if_idle", "shutdown_if_idle", 1)
Interrupt1 == Command("interrupt", "interrupt", 1)
Fork1 == Command("fork_barrier", "fork", 1)
Message1 == Command("agent_message", "message", 1)
Message2 == Command("agent_message", "message", 2)

Calm(commands) == [commands |-> commands, crashes |-> 0]
Crashing(commands) == [commands |-> commands, crashes |-> 1]

\* Two inputs of agents, one of them retried, and an interrupt.
Steering == {Followup("a", 1), Followup("b", 1), Followup("b", 2), Interrupt1}
\* A Turn that may be interrupted, its continuation, and a compaction.
Resumption == {Command("turn_input", "h", 1), Resume("r", "h"),
               Command("compact", "c", 1), [Interrupt1 EXCEPT !.expected = "h"]}
\* A Turn, a message and a fork, and both ways to shut down.
Closing == {Followup("a", 1), Message1, Fork1, Shutdown1, ShutdownIfIdle1}
\* Two inputs of agents, or one and a message, and a retry after a crash.
CrashScripts ==
  {Crashing({Followup("a", 1), Followup("b", 1), Followup("b", 2)}),
   Crashing({Followup("a", 1), Message1, Message2})}
TurnScripts ==
  {Calm(Steering), Calm(Resumption), Calm(Closing)} \union CrashScripts

\* A Turn, an agent message, its retry and a fork.
Forking == {Followup("a", 1), Message1, Message2, Fork1}
\* A human prompt, the steering of its Turn, a failure from outside.
Failing == {Prompt("p"), [Prompt("s") EXCEPT !.mode = "steer", !.expected = "p"],
            Interrupt1, Command("fail_agent", "fail", 1)}
SaveScripts == {Calm(Forking), Calm(Failing)}

\* A compaction that an agent steers; a message and its retry.
CompactScripts == {Calm({Command("compact", "c", 1), Followup("a", 1)})}
MessageScripts == {Crashing({Followup("a", 1), Message1, Message2})}
=============================================================================
