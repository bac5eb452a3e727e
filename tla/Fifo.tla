-------------------------------- MODULE Fifo --------------------------------
(***************************************************************************)
(* What the packet queue and the flow queue promise to the threads that    *)
(* share them: a first-in first-out buffer whose operations are atomic.    *)
(* A consumer that finds nothing is told so, and it is told so only when   *)
(* nothing is there.  LinkedQueue is shown to implement this module.       *)
(***************************************************************************)
EXTENDS Sequences

CONSTANTS
  Threads,  \* the threads that call the queue
  Nodes,    \* the objects that can be queued (addresses of packet_t or flow_t)
  NULL,     \* the null pointer: what a dequeue of an empty queue returns
  None      \* "no result is pending"

VARIABLES
  items,    \* the objects in the queue, the oldest first
  ret       \* ret[t]: the dequeue result that thread t has not disposed of yet

vars == <<items, ret>>

Init ==
  /\ items = <<>>
  /\ ret = [t \in Threads |-> None]

Put(n) ==
  /\ \A i \in DOMAIN items : items[i] # n
  /\ items' = Append(items, n)
  /\ UNCHANGED ret

Take(t) ==
  /\ ret[t] = None
  /\ items # <<>>
  /\ ret' = [ret EXCEPT ![t] = Head(items)]
  /\ items' = Tail(items)

TakeNothing(t) ==
  /\ ret[t] = None
  /\ items = <<>>
  /\ ret' = [ret EXCEPT ![t] = NULL]
  /\ UNCHANGED items

Dispose(t) ==
  /\ ret' = [ret EXCEPT ![t] = None]
  /\ UNCHANGED items

\* Clearing the queue discards its oldest element, again and again.
Discard ==
  /\ items # <<>>
  /\ items' = Tail(items)
  /\ UNCHANGED ret

Next ==
  \/ \E n \in Nodes : Put(n)
  \/ \E t \in Threads : Take(t) \/ TakeNothing(t) \/ Dispose(t)
  \/ Discard

Spec == Init /\ [][Next]_vars
=============================================================================
