---------------------------- MODULE MCAgentControl ---------------------------
(***************************************************************************)
(* Instances of AgentControl for TLC: the tree and the calls of the runs.  *)
(***************************************************************************)
EXTENDS AgentControl

\* Two children of the root, one that takes the name of the first when that
\* could not be spawned, and a child of the first.
MCChildren == {"a", "b", "c", "again"}
MCParent == [c \in MCChildren |-> IF c = "c" THEN "a" ELSE "root"]
MCPath == [c \in MCChildren |-> CASE c = "c" -> <<"a", "c">>
                                  [] c = "again" -> <<"a">>
                                  [] OTHER -> <<c>>]

Call(type, by, to, id, n) ==
  [type |-> type, by |-> by, to |-> to, id |-> id, n |-> n]
SpawnA == Call("spawn", "root", "a", "none", 1)
SpawnAgain == Call("spawn", "root", "again", "none", 1)
SpawnB == Call("spawn", "root", "b", "none", 1)
SpawnC == Call("spawn", "a", "c", "none", 1)
Followup(n) == Call("followup", "root", "a", "task", n)
MessageA == Call("message", "root", "a", "none", 1)
WaitRoot == Call("wait", "root", "root", "none", 1)
WaitA == Call("wait", "a", "a", "none", 1)
DeleteA == Call("delete", "root", "a", "none", 1)
DeleteC == Call("delete", "root", "c", "none", 1)
DeleteAgain == Call("delete", "root", "a", "none", 2)
Prompt == Call("prompt", "root", "a", "none", 1)

Script(calls, m, n) == [calls |-> calls, failures |-> m, crashes |-> n]
\* Three children that compete for two slots, one of them asked again.
Competing == Script({SpawnA, SpawnB, SpawnC, Followup(1)}, 0, 0)
\* A follow-up, its retry, a crash.
Retrying == Script({SpawnA, Followup(1), Followup(2)}, 2, 1)
\* A subtree deleted while it grows, waits and is written to.
Deleting == Script({SpawnA, SpawnC, WaitA, DeleteA}, 2, 1)
Fencing == Script({SpawnA, Followup(1), MessageA, WaitA, DeleteA}, 2, 0)
\* A child that works for somebody else too, and a parent that waits.
Sharing == Script({SpawnA, Followup(1), Prompt, WaitRoot}, 2, 0)
\* A name that is used again after a spawn that failed half-way.
Renaming == Script({SpawnA, SpawnAgain}, 3, 1)
\* A deletion that fails or is lost half-way and is tried again.
Undoing == Script({SpawnA, SpawnC, DeleteA, DeleteAgain}, 2, 1)
\* Two deletions at once, of a thread and of the one above it.
Nesting == Script({SpawnA, SpawnC, DeleteA, DeleteC}, 2, 0)
\* A child that works for a person when the process dies and dies again.
Prompting == Script({SpawnA, Prompt, WaitRoot}, 1, 2)
MCScripts == {Competing, Retrying, Deleting, Fencing, Sharing, Renaming,
              Undoing, Nesting, Prompting}
=============================================================================
