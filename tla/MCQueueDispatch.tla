--------------------------- MODULE MCQueueDispatch ---------------------------
(***************************************************************************)
(* The instance of QueueDispatch for TLC: the sets of calls of the run.    *)
(***************************************************************************)
EXTENDS QueueDispatch

Call(op, sub, n) == [op |-> op, sub |-> sub, n |-> n]
Session1(op) == Call(op, "none", 1)

\* An input that is queued, retried, sent directly and cancelled.
Retrying == {Call("queue", "a", 1), Call("queue", "a", 2),
             Call("direct", "a", 1), Call("cancel", "a", 1)}
\* Two inputs that are reordered and started by hand.
Ordering == {Call("queue", "a", 1), Call("queue", "b", 1),
             Session1("reorder"), Call("start", "b", 1)}
\* An input that is edited and retried, beside another one.
Editing == {Call("queue", "a", 1), Call("update", "a", 1),
            Call("queue", "a", 2), Call("queue", "b", 1)}
\* One input more than the queue has room for.
Filling == {Call("queue", "a", 1), Call("queue", "b", 1), Call("queue", "c", 1)}
\* Archive transitions around a queued and a direct input.
Archiving == {Call("queue", "a", 1), Call("direct", "b", 1),
              Session1("archive"), Session1("restore")}
\* Another process queues an input, and the session is deleted.
Sharing == {Call("external", "a", 1), Call("queue", "b", 1),
            Session1("delete")}
QueueScripts == {Retrying, Ordering, Editing, Filling, Archiving, Sharing}
=============================================================================
