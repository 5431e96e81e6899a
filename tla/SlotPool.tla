------------------------------ MODULE SlotPool ------------------------------
(***************************************************************************)
(* What createConcurrencyGate promises to its callers, independently of    *)
(* the counter it keeps and of the microtasks in which they go on: at most *)
(* Limit clients are inside, who finds no room queues, and room is given   *)
(* to those who queue in the order in which they came.                     *)
(***************************************************************************)
EXTENDS Naturals, Sequences, FiniteSets

CONSTANTS Task, Limit

VARIABLES inside,  \* the clients that have a slot
          queue    \* the clients that wait for one, oldest first

poolVars == <<inside, queue>>

Init == inside = {} /\ queue = <<>>

Outside(t) == t \notin inside /\ \A i \in 1 .. Len(queue) : queue[i] # t

\* A client that finds every slot taken joins the end of the queue.
Queue(t) ==
  /\ Outside(t)
  /\ Cardinality(inside) = Limit
  /\ queue' = Append(queue, t)
  /\ UNCHANGED inside

\* A slot is free: a client that arrives takes it, and nobody was queueing.
Enter(t) ==
  /\ Outside(t)
  /\ Cardinality(inside) < Limit
  /\ queue = <<>>
  /\ inside' = inside \cup {t}
  /\ UNCHANGED queue

\* A client leaves and nobody queues: its slot is free again.
Leave(t) ==
  /\ t \in inside
  /\ queue = <<>>
  /\ inside' = inside \ {t}
  /\ UNCHANGED queue

\* A client leaves and its slot passes, in the same step, to the one that has
\* queued for longest.
HandOver(t) ==
  /\ t \in inside
  /\ queue # <<>>
  /\ inside' = (inside \ {t}) \cup {Head(queue)}
  /\ queue' = Tail(queue)

Next == \E t \in Task : Queue(t) \/ Enter(t) \/ Leave(t) \/ HandOver(t)

Spec == Init /\ [][Next]_poolVars
=============================================================================
