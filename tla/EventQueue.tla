----------------------------- MODULE EventQueue -----------------------------
(***************************************************************************)
(* What the kernel promises who posts an event: a bounded queue whose      *)
(* events are taken in the order in which they were posted.                *)
(***************************************************************************)
EXTENDS Integers, Sequences

CONSTANTS
  NumEvents,         \* how many events wait at most
  Slot               \* an event and its receiver

VARIABLE queue

Init == queue = << >>

\* An event is refused only if the queue is full.
Post ==
  /\ Len(queue) < NumEvents
  /\ \E e \in Slot : queue' = Append(queue, e)

Take ==
  /\ queue # << >>
  /\ queue' = Tail(queue)

Next == Post \/ Take

Spec == Init /\ [][Next]_queue

FairSpec == Spec /\ WF_queue(Take)
=============================================================================
