---------------------------- MODULE LinkedQueue -----------------------------
(***************************************************************************)
(* The singly linked queue behind src/packet_queue.c.  src/flow_queue.c is *)
(* the same code over flow_t.  A call is several steps of its thread: it   *)
(* locks the mutex, changes the list one group of assignments at a time    *)
(* and unlocks.  The objects are linked through their own "next" field,    *)
(* which a dequeue leaves as it was.                                       *)
(***************************************************************************)
EXTENDS Naturals, Sequences

CONSTANTS
  Threads,  \* the threads that call the queue
  Nodes,    \* addresses of queued objects (packet_t, flow_t)
  NULL,     \* the null pointer
  None      \* "no result pending"; also "the mutex has no owner"

ASSUME NullAssumption ==
  /\ NULL \notin Nodes
  /\ None \notin Nodes \cup Threads \cup {NULL}

VARIABLES
  que_len,  \* unsigned int que_len
  first,    \* packet_t *pkt_first
  last,     \* packet_t *pkt_last
  next,     \* next[n]: n->next
  mutex,    \* the thread that owns the mutex, or None
  pc,       \* pc[t]: where thread t is in its call
  arg,      \* arg[t]: the object thread t is enqueueing, or NULL
  ret,      \* ret[t]: the result of t's last dequeue, until it is disposed of
  chain     \* history: the objects in the queue, in the order of the calls

vars == <<que_len, first, last, next, mutex, pc, arg, ret, chain>>
list == <<que_len, first, last, next, chain>>

Waiting  == {"enq_lock", "deq_lock", "clr_lock"}
Critical == {"enq_link", "enq_seal", "deq_test", "deq_unlink",
             "clr_loop", "unlock"}

Init ==
  /\ que_len = 0
  /\ first = NULL
  /\ last = NULL
  /\ next \in [Nodes -> {NULL}]
  /\ mutex = None
  /\ pc = [t \in Threads |-> "idle"]
  /\ arg = [t \in Threads |-> NULL]
  /\ ret = [t \in Threads |-> None]
  /\ chain = <<>>

Goto(t, to) == pc' = [pc EXCEPT ![t] = to]

-----------------------------------------------------------------------------
\* The callers.  An object that is enqueued is not queued, not about to be
\* queued and not in the hands of a consumer: packet_preprocess allocates it.
Unused(n) ==
  /\ \A i \in DOMAIN chain : chain[i] # n
  /\ \A t \in Threads : arg[t] # n /\ ret[t] # n

CallEnq(t, n) ==
  /\ pc[t] = "idle" /\ ret[t] = None
  /\ Unused(n)
  /\ arg' = [arg EXCEPT ![t] = n]
  /\ Goto(t, "enq_lock")
  /\ UNCHANGED <<list, mutex, ret>>

CallDeq(t) ==
  /\ pc[t] = "idle" /\ ret[t] = None
  /\ Goto(t, "deq_lock")
  /\ UNCHANGED <<list, mutex, arg, ret>>

CallClr(t) ==
  /\ pc[t] = "idle" /\ ret[t] = None
  /\ Goto(t, "clr_lock")
  /\ UNCHANGED <<list, mutex, arg, ret>>

\* The consumer frees the object or hands it on; its address may be reused.
Dispose(t) ==
  /\ pc[t] = "idle" /\ ret[t] # None
  /\ ret' = [ret EXCEPT ![t] = None]
  /\ UNCHANGED <<list, mutex, pc, arg>>

-----------------------------------------------------------------------------
Lock(t) ==
  /\ pc[t] \in Waiting
  /\ mutex = None
  /\ mutex' = t
  /\ Goto(t, CASE pc[t] = "enq_lock" -> "enq_link"
               [] pc[t] = "deq_lock" -> "deq_test"
               [] pc[t] = "clr_lock" -> "clr_loop")
  /\ UNCHANGED <<list, arg, ret>>

Unlock(t) ==
  /\ pc[t] = "unlock"
  /\ mutex' = None
  /\ Goto(t, "idle")
  /\ UNCHANGED <<list, arg, ret>>

\* packet_queue_enq: hang the object behind the last one, or make it the first.
EnqLink(t) ==
  /\ pc[t] = "enq_link"
  /\ \/ /\ que_len = 0
        /\ first' = arg[t]
        /\ UNCHANGED next
     \/ /\ que_len # 0
        /\ next' = [next EXCEPT ![last] = arg[t]]
        /\ UNCHANGED first
  /\ last' = arg[t]
  /\ Goto(t, "enq_seal")
  /\ UNCHANGED <<que_len, mutex, arg, ret, chain>>

\* Mutant: pkt_last->next keeps what an earlier stay in the queue left there.
EnqSealStale(t) ==
  /\ pc[t] = "enq_seal"
  /\ que_len' = que_len + 1
  /\ chain' = Append(chain, arg[t])
  /\ arg' = [arg EXCEPT ![t] = NULL]
  /\ Goto(t, "unlock")
  /\ UNCHANGED <<first, last, next, mutex, ret>>

\* packet_queue_enq: pkt_last->next = NULL; que_len++.
EnqSeal(t) ==
  /\ pc[t] = "enq_seal"
  /\ next' = [next EXCEPT ![last] = NULL]
  /\ que_len' = que_len + 1
  /\ chain' = Append(chain, arg[t])
  /\ arg' = [arg EXCEPT ![t] = NULL]
  /\ Goto(t, "unlock")
  /\ UNCHANGED <<first, last, mutex, ret>>

\* Mutant: the early return keeps the mutex.
DeqEmptyLocked(t) ==
  /\ pc[t] = "deq_test"
  /\ que_len = 0
  /\ ret' = [ret EXCEPT ![t] = NULL]
  /\ Goto(t, "idle")
  /\ UNCHANGED <<list, mutex, arg>>

\* packet_queue_deq: the three cases of que_len.
DeqEmpty(t) ==
  /\ pc[t] = "deq_test"
  /\ que_len = 0
  /\ ret' = [ret EXCEPT ![t] = NULL]
  /\ Goto(t, "unlock")
  /\ UNCHANGED <<list, mutex, arg>>

\* Mutant: pkt_last is not cleared when the last object leaves.
DeqTestKeepsLast(t) ==
  /\ pc[t] = "deq_test"
  /\ que_len # 0
  /\ Goto(t, "deq_unlink")
  /\ UNCHANGED <<list, mutex, arg, ret>>

DeqTest(t) ==
  /\ pc[t] = "deq_test"
  /\ que_len # 0
  /\ last' = IF que_len = 1 THEN NULL ELSE last
  /\ Goto(t, "deq_unlink")
  /\ UNCHANGED <<que_len, first, next, mutex, arg, ret, chain>>

\* Mutant: pkt_first does not move on.
DeqUnlinkStays(t) ==
  /\ pc[t] = "deq_unlink"
  /\ ret' = [ret EXCEPT ![t] = first]
  /\ que_len' = que_len - 1
  /\ chain' = Tail(chain)
  /\ Goto(t, "unlock")
  /\ UNCHANGED <<first, last, next, mutex, arg>>

DeqUnlink(t) ==
  /\ pc[t] = "deq_unlink"
  /\ ret' = [ret EXCEPT ![t] = first]
  /\ first' = next[first]
  /\ que_len' = que_len - 1
  /\ chain' = Tail(chain)
  /\ Goto(t, "unlock")
  /\ UNCHANGED <<last, next, mutex, arg>>

\* packet_queue_clr: free the first object as long as there is one.
ClrLoop(t) ==
  /\ pc[t] = "clr_loop"
  /\ que_len > 0
  /\ first' = next[first]
  /\ que_len' = que_len - 1
  /\ chain' = Tail(chain)
  /\ UNCHANGED <<last, next, mutex, pc, arg, ret>>

\* Mutant: the clear counts once too often.
ClrDoneCounts(t) ==
  /\ pc[t] = "clr_loop"
  /\ que_len = 0
  /\ first' = NULL
  /\ last' = NULL
  /\ que_len' = que_len - 1
  /\ Goto(t, "unlock")
  /\ UNCHANGED <<next, mutex, arg, ret, chain>>

ClrDone(t) ==
  /\ pc[t] = "clr_loop"
  /\ que_len = 0
  /\ first' = NULL
  /\ last' = NULL
  /\ que_len' = 0
  /\ Goto(t, "unlock")
  /\ UNCHANGED <<next, mutex, arg, ret, chain>>

-----------------------------------------------------------------------------
Call(t) ==
  \/ \E n \in Nodes : CallEnq(t, n)
  \/ CallDeq(t)
  \/ CallClr(t)
  \/ Dispose(t)

Inside(t) ==
  \/ EnqLink(t) \/ EnqSeal(t)
  \/ DeqEmpty(t) \/ DeqTest(t) \/ DeqUnlink(t)
  \/ ClrLoop(t) \/ ClrDone(t)
  \/ Unlock(t)

Next == \E t \in Threads : Call(t) \/ Lock(t) \/ Inside(t)

Spec == Init /\ [][Next]_vars

\* A thread that owns the mutex keeps running: nothing inside blocks.
FairSpec == Spec /\ \A t \in Threads : WF_vars(Inside(t))

-----------------------------------------------------------------------------
TypeOK ==
  /\ que_len \in Nat
  /\ first \in Nodes \cup {NULL}
  /\ last \in Nodes \cup {NULL}
  /\ next \in [Nodes -> Nodes \cup {NULL}]
  /\ mutex \in Threads \cup {None}
  /\ pc \in [Threads -> {"idle"} \cup Waiting \cup Critical]
  /\ arg \in [Threads -> Nodes \cup {NULL}]
  /\ ret \in [Threads -> Nodes \cup {NULL, None}]
  /\ chain \in Seq(Nodes)

\* The owner of the mutex and nobody else is inside packet_queue_enq, _deq or
\* _clr: every path into the list takes the mutex, every path out gives it back.
MutexInv == \A t \in Threads : pc[t] \in Critical <=> mutex = t

At(l) == mutex # None /\ pc[mutex] = l
Halfway == At("enq_seal") \/ At("deq_unlink") \/ At("clr_loop")

\* The links from pkt_first through every queued object, ended by NULL.
Linked ==
  /\ chain = <<>> => first = NULL
  /\ chain # <<>> => first = chain[1]
  /\ \A i \in 1 .. Len(chain) - 1 : next[chain[i]] = chain[i + 1]

\* No object is queued twice, and none that a thread still works on is queued.
Distinct ==
  /\ \A i, j \in 1 .. Len(chain) : chain[i] = chain[j] => i = j
  /\ \A t \in Threads : \A i \in 1 .. Len(chain) :
       chain[i] # arg[t] /\ chain[i] # ret[t]

\* Whenever no thread is half way through a change, pkt_first, pkt_last, the
\* next fields and que_len describe exactly the objects that were enqueued and
\* not dequeued, in order, and pkt_last->next is NULL.
QueueWellFormed ==
  ~ Halfway =>
    /\ que_len = Len(chain)
    /\ Linked
    /\ chain = <<>> => last = NULL
    /\ chain # <<>> => last = chain[Len(chain)] /\ next[last] = NULL

-----------------------------------------------------------------------------
\* The strengthening that makes QueueWellFormed inductive: what the list looks
\* like at every step of the thread inside, and who holds which object.
Links ==
  /\ \A i \in 1 .. Len(chain) - 1 : next[chain[i]] = chain[i + 1]
  /\ chain # <<>> => first = chain[1]

End == chain # <<>> => next[chain[Len(chain)]] = NULL

AtEnqSeal(t) ==
  /\ last = arg[t]
  /\ chain = <<>> => first = arg[t]
  /\ chain # <<>> => next[chain[Len(chain)]] = arg[t]

AtDeqUnlink ==
  /\ chain # <<>>
  /\ last = IF Len(chain) = 1 THEN NULL ELSE chain[Len(chain)]

Quiet == last = IF chain = <<>> THEN NULL ELSE chain[Len(chain)]

Shape ==
  /\ que_len = Len(chain)
  /\ Links
  /\ ~ At("enq_seal") => End /\ (chain = <<>> => first = NULL)
  /\ At("enq_seal") => AtEnqSeal(mutex)
  /\ At("deq_unlink") => AtDeqUnlink
  /\ ~ Halfway => Quiet

\* Every object is with one thread, or in the queue, or unused.
Private ==
  /\ \A t \in Threads :
       /\ arg[t] \in Nodes <=> pc[t] \in {"enq_lock", "enq_link", "enq_seal"}
       /\ ret[t] # None => pc[t] \in {"idle", "unlock"}
  /\ \A t, u \in Threads : arg[t] \in Nodes =>
       ret[u] # arg[t] /\ (arg[u] = arg[t] => u = t)

\* The inductive invariant of the queue, from which the proofs take everything.
IInv == TypeOK /\ MutexInv /\ Distinct /\ Shape /\ Private

\* The queue behaves as an atomic first-in first-out buffer for its callers.
Buffer == INSTANCE Fifo WITH items <- chain
ImplementsFifo == Buffer!Spec

\* The queue mutex is always released: no early return of packet_queue_deq
\* leaves it locked, and packet_queue_clr leaves its loop.
MutexReleased == \A t \in Threads : mutex = t ~> mutex # t
=============================================================================
