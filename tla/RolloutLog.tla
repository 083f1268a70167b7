----------------------------- MODULE RolloutLog -----------------------------
(***************************************************************************)
(* What the writer of one physical rollout promises, without files, bytes  *)
(* or operation queues.  Records accepted by appendItems wait in a buffer, *)
(* are committed to the log in order, and from some point on are durable.  *)
(* Losing the writer (crash, power loss, discard) may keep the first       *)
(* buffered record, whose bytes may already be on disk, and may drop a     *)
(* suffix of the log that no flush has promised; nothing else is lost,     *)
(* reordered, repeated or replaced.                                        *)
(***************************************************************************)
EXTENDS Naturals, Sequences

CONSTANT Gens  \* identities of writer incarnations, to tell apart two
               \* records that are given the same sequence number

VARIABLES
  log,      \* the records a reader of the file sees, in order
  buffer,   \* accepted records that a reader does not see yet
  durable,  \* length of the prefix of log that a flush has promised
  state     \* of the writer: "open", "closed" by a shutdown, or "lost"

logVars == <<log, buffer, durable, state>>

Records == [seq : Nat \ {0}, gen : Gens]

\* Sequence numbers count the records of log and buffer without a gap.
Numbered(s, first) == \A i \in DOMAIN s : s[i].seq = first + i - 1

LogInit ==
  /\ log = <<>>
  /\ buffer = <<>>
  /\ durable = 0
  /\ state = "open"

\* appendItems gives the batch the next sequence numbers.
Accept ==
  /\ state = "open"
  /\ \E n \in 1 .. Len(buffer') : \E g \in Gens :
       buffer' = buffer \o
         [i \in 1 .. n |-> [seq |-> Len(log) + Len(buffer) + i, gen |-> g]]
  /\ UNCHANGED <<log, durable, state>>

\* The first buffered record becomes a complete line of the file.
Commit ==
  /\ buffer # <<>>
  /\ log' = Append(log, Head(buffer))
  /\ buffer' = Tail(buffer)
  /\ UNCHANGED <<durable, state>>

\* A flush resolves: a longer prefix is promised.
Promise ==
  /\ durable' \in durable .. Len(log)
  /\ UNCHANGED <<log, buffer, state>>

\* shutdownThread resolves only with an empty buffer and a durable log.
Close ==
  /\ buffer = <<>>
  /\ state = "open"
  /\ durable' = Len(log)
  /\ state' = "closed"
  /\ UNCHANGED <<log, buffer>>

\* The writer goes away with its buffer; the file keeps at least what was
\* promised and at most one record that was never acknowledged.
Lose ==
  /\ \E n \in durable .. Len(log) : 
       \/ log' = SubSeq(log, 1, n)
       \/ buffer # <<>> /\ log' = Append(log, Head(buffer))
  /\ buffer' = <<>>
  /\ state' = "lost"
  /\ UNCHANGED durable

\* resumeThread opens a new writer on the log as it is.
Reopen ==
  /\ state # "open"
  /\ state' = "open"
  /\ UNCHANGED <<log, buffer, durable>>

LogNext == Accept \/ Commit \/ Promise \/ Close \/ Lose \/ Reopen

LogSpec == LogInit /\ [][LogNext]_logVars
=============================================================================
