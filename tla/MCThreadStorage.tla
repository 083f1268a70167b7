--------------------------- MODULE MCThreadStorage ---------------------------
(***************************************************************************)
(* The instance of ThreadStorage for TLC: two processes, and what is       *)
(* stored and called in an execution.                                      *)
(***************************************************************************)
EXTENDS ThreadStorage

Processes == {"p", "q"}
Clients == {"p1", "p2", "q1"}
Booters == [x \in Processes |-> IF x = "p" THEN "bootP" ELSE "bootQ"]
ProcessOfClient ==
  [c \in Clients \cup {"bootP", "bootQ"} |->
     IF c \in {"q1", "bootQ"} THEN "q" ELSE "p"]
Threads == {"a", "b", "f"}

Do(op, t) == [op |-> op, thread |-> t, source |-> "none"]
ForkOf(s, t) == [op |-> "fork", thread |-> t, source |-> s]
Stored(a, b, f) ==
  [t \in Threads |-> CASE t = "a" -> a [] t = "b" -> b [] OTHER -> f]
Script(disk, p1, p2, q1) ==
  [stored |-> disk,
   calls |-> [c \in Clients |-> CASE c = "p1" -> p1 [] c = "p2" -> p2
                                  [] OTHER -> q1]]
Nothing == Stored("absent", "absent", "absent")
OneThread == Stored("none", "absent", "absent")
Forked == Stored("none", "absent", "a")

\* A thread is staged, materialized, closed, discarded and deleted.
Staging == Script(Nothing,
  {Do("create", "a"), Do("shutdown", "a"), Do("discard", "a"),
   Do("delete", "a")},
  {Do("persist", "a"), Do("delete", "a")},
  {Do("resume", "a")})
\* A child is created while its parent is resumed and discarded.
Spawning == Script(OneThread,
  {Do("spawn", "b"), Do("delete", "b")},
  {Do("resume", "a"), Do("discard", "a")},
  {Do("delete", "a")})
\* A live thread is forked and its source closed and deleted.
Forking == Script(OneThread,
  {Do("resume", "a"), ForkOf("a", "f")},
  {Do("shutdown", "a"), Do("delete", "a")},
  {Do("delete", "a")})
\* A fork is forked while it and what it continues are deleted.
Chaining == Script(Forked,
  {ForkOf("f", "b"), Do("discard", "b")}, {Do("delete", "a")},
  {Do("delete", "f"), Do("resume", "b")})
StorageScripts == {Staging, Spawning, Forking, Chaining}
=============================================================================
