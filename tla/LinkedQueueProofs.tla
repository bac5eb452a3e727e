-------------------------- MODULE LinkedQueueProofs --------------------------
(***************************************************************************)
(* Theorems about LinkedQueue for any number of threads and objects: its   *)
(* type, mutual exclusion, the shape of the list, and that it implements   *)
(* the atomic buffer of module Fifo.                                       *)
(***************************************************************************)
EXTENDS LinkedQueue, SequenceTheorems, TLAPS

\* The queue starts empty, with no call in progress.
LEMMA InvInit == Init => IInv
<1> SUFFICES ASSUME Init PROVE IInv
  OBVIOUS
<1> USE DEF Init
<1>1. TypeOK
  BY EmptySeq DEF TypeOK
<1>2. MutexInv
  BY NullAssumption DEF MutexInv, Critical
<1>3. Distinct
  BY DEF Distinct
<1>4. Shape
  BY DEF Shape, Links, End, AtEnqSeal, AtDeqUnlink, Quiet, At, Halfway
<1>5. Private
  BY NullAssumption DEF Private
<1> QED
  BY <1>1, <1>2, <1>3, <1>4, <1>5 DEF IInv

\* The type of every variable is preserved by every step.
LEMMA TypeNext == IInv /\ [Next]_vars => TypeOK'
<1> SUFFICES ASSUME IInv, [Next]_vars PROVE TypeOK'
  OBVIOUS
<1> USE DEF IInv, TypeOK, Goto, list
<1>1. ASSUME NEW t \in Threads, NEW n \in Nodes, CallEnq(t, n) PROVE TypeOK'
  BY <1>1 DEF CallEnq, Waiting
<1>2. ASSUME NEW t \in Threads, CallDeq(t) \/ CallClr(t) \/ Dispose(t) PROVE TypeOK'
  BY <1>2 DEF CallDeq, CallClr, Dispose, Waiting
<1>3. ASSUME NEW t \in Threads, Lock(t) PROVE TypeOK'
  BY <1>3 DEF Lock, Waiting, Critical
<1>4. ASSUME NEW t \in Threads, Unlock(t) PROVE TypeOK'
  BY <1>4 DEF Unlock
<1>5. ASSUME NEW t \in Threads, EnqLink(t) PROVE TypeOK'
  BY <1>5 DEF EnqLink, Critical
<1>6. ASSUME NEW t \in Threads, EnqSeal(t) PROVE TypeOK'
  <2>1. mutex = t /\ arg[t] \in Nodes
    BY <1>6 DEF EnqSeal, MutexInv, Critical, Private
  <2>0. last \in Nodes
    BY <1>6, <2>1, NullAssumption DEF EnqSeal, Shape, At, AtEnqSeal
  <2>2. chain' \in Seq(Nodes)
    BY <1>6, <2>1, AppendProperties DEF EnqSeal
  <2>3. que_len' \in Nat /\ next' \in [Nodes -> Nodes \cup {NULL}]
    BY <1>6, <2>0 DEF EnqSeal
  <2>4. /\ pc' \in [Threads -> {"idle"} \cup Waiting \cup Critical]
        /\ arg' \in [Threads -> Nodes \cup {NULL}]
    BY <1>6 DEF EnqSeal, Critical
  <2> QED
    BY <1>6, <2>2, <2>3, <2>4 DEF EnqSeal
<1>7. ASSUME NEW t \in Threads, DeqEmpty(t) PROVE TypeOK'
  BY <1>7 DEF DeqEmpty, Critical
<1>8. ASSUME NEW t \in Threads, DeqTest(t) PROVE TypeOK'
  BY <1>8 DEF DeqTest, Critical
<1>9. ASSUME NEW t \in Threads, DeqUnlink(t) \/ ClrLoop(t) PROVE TypeOK'
  <2>1. mutex = t
    BY <1>9 DEF DeqUnlink, ClrLoop, MutexInv, Critical
  <2>2. chain # <<>> /\ que_len \in Nat \ {0}
    <3>1. CASE DeqUnlink(t)
      BY <2>1, <3>1, NullAssumption, EmptySeq DEF DeqUnlink, Shape, AtDeqUnlink, At
    <3>2. CASE ClrLoop(t)
      BY <3>2, EmptySeq DEF ClrLoop, Shape
    <3> QED
      BY <1>9, <3>1, <3>2
  <2>3. first = chain[1] /\ chain[1] \in Nodes
    BY <2>2, HeadTailProperties DEF Shape, Links
  <2>4. Tail(chain) \in Seq(Nodes)
    BY <2>2, HeadTailProperties
  <2>5. /\ chain' \in Seq(Nodes)
        /\ que_len' \in Nat
        /\ first' \in Nodes \cup {NULL}
    BY <1>9, <2>2, <2>3, <2>4 DEF DeqUnlink, ClrLoop
  <2>6. /\ pc' \in [Threads -> {"idle"} \cup Waiting \cup Critical]
        /\ ret' \in [Threads -> Nodes \cup {NULL, None}]
    BY <1>9, <2>3 DEF DeqUnlink, ClrLoop, Critical
  <2> QED
    BY <1>9, <2>5, <2>6 DEF DeqUnlink, ClrLoop
<1>10. ASSUME NEW t \in Threads, ClrDone(t) PROVE TypeOK'
  BY <1>10 DEF ClrDone, Critical
<1>11. CASE UNCHANGED vars
  BY <1>11 DEF vars
<1> QED
  BY <1>1, <1>2, <1>3, <1>4, <1>5, <1>6, <1>7, <1>8, <1>9, <1>10, <1>11
  DEF Next, Call, Inside

\* Only the owner of the mutex is inside; it is there from Lock to Unlock.
LEMMA MutexNext == IInv /\ [Next]_vars => MutexInv'
<1> SUFFICES ASSUME IInv, [Next]_vars PROVE MutexInv'
  OBVIOUS
<1> USE NullAssumption DEF IInv, TypeOK, MutexInv, Goto, list, Waiting, Critical
<1>1. ASSUME NEW t \in Threads, NEW n \in Nodes, CallEnq(t, n) PROVE MutexInv'
  BY <1>1 DEF CallEnq
<1>2. ASSUME NEW t \in Threads, CallDeq(t) \/ CallClr(t) \/ Dispose(t)
      PROVE  MutexInv'
  BY <1>2 DEF CallDeq, CallClr, Dispose
<1>3. ASSUME NEW t \in Threads, Lock(t) PROVE MutexInv'
  BY <1>3 DEF Lock
<1>4. ASSUME NEW t \in Threads, Unlock(t) PROVE MutexInv'
  BY <1>4 DEF Unlock
<1>5. ASSUME NEW t \in Threads, EnqLink(t) \/ EnqSeal(t) PROVE MutexInv'
  BY <1>5 DEF EnqLink, EnqSeal
<1>6. ASSUME NEW t \in Threads, DeqEmpty(t) \/ DeqTest(t) \/ DeqUnlink(t)
      PROVE  MutexInv'
  BY <1>6 DEF DeqEmpty, DeqTest, DeqUnlink
<1>7. ASSUME NEW t \in Threads, ClrLoop(t) \/ ClrDone(t) PROVE MutexInv'
  BY <1>7 DEF ClrLoop, ClrDone
<1>8. CASE UNCHANGED vars
  BY <1>8 DEF vars
<1> QED
  BY <1>1, <1>2, <1>3, <1>4, <1>5, <1>6, <1>7, <1>8 DEF Next, Call, Inside

\* Dequeueing and clearing remove the object pkt_first points to, and there is
\* one; enqueueing adds the caller's own.
LEMMA Removal ==
  ASSUME IInv, NEW t \in Threads, DeqUnlink(t) \/ ClrLoop(t)
  PROVE  /\ mutex = t
         /\ chain # <<>> /\ Len(chain) \in Nat \ {0}
         /\ first = chain[1] /\ chain[1] \in Nodes
         /\ chain' \in Seq(Nodes) /\ Len(chain') = Len(chain) - 1
         /\ \A i \in 1 .. Len(chain) - 1 : chain'[i] = chain[i + 1]
<1> USE DEF IInv, TypeOK
<1>1. mutex = t
  BY DEF DeqUnlink, ClrLoop, MutexInv, Critical
<1>2. chain # <<>>
  <2>1. CASE DeqUnlink(t)
    BY <1>1, <2>1, NullAssumption DEF DeqUnlink, Shape, AtDeqUnlink, At
  <2>2. CASE ClrLoop(t)
    BY <2>2, EmptySeq DEF ClrLoop, Shape
  <2> QED
    BY <2>1, <2>2
<1>3. Len(chain) \in Nat \ {0}
  BY <1>2, EmptySeq
<1>4. first = chain[1] /\ chain[1] \in Nodes
  BY <1>2, <1>3, ElementOfSeq DEF Shape, Links
<1>5. chain' = Tail(chain)
  BY DEF DeqUnlink, ClrLoop
<1> QED
  BY <1>1, <1>2, <1>3, <1>4, <1>5, HeadTailProperties

\* An enqueue adds the object that no other thread holds to the end of the queue.
LEMMA Addition ==
  ASSUME IInv, NEW t \in Threads, EnqSeal(t)
  PROVE  /\ mutex = t
         /\ arg[t] \in Nodes /\ last = arg[t]
         /\ Len(chain) \in Nat
         /\ chain' \in Seq(Nodes) /\ Len(chain') = Len(chain) + 1
         /\ \A i \in 1 .. Len(chain) : chain'[i] = chain[i]
         /\ chain'[Len(chain) + 1] = arg[t]
<1> USE DEF IInv, TypeOK
<1>1. mutex = t /\ arg[t] \in Nodes
  BY DEF EnqSeal, MutexInv, Critical, Private
<1>2. last = arg[t]
  BY <1>1, NullAssumption DEF EnqSeal, Shape, At, AtEnqSeal
<1>3. chain' = Append(chain, arg[t])
  BY DEF EnqSeal
<1> QED
  BY <1>1, <1>2, <1>3, AppendProperties, LenProperties

\* Objects stay with one holder.
LEMMA PrivateNext == IInv /\ [Next]_vars => Private'
<1> SUFFICES ASSUME IInv, [Next]_vars PROVE Private'
  OBVIOUS
<1> USE NullAssumption DEF IInv, TypeOK, Private, Goto, list, Waiting, Critical
<1>1. ASSUME NEW t \in Threads, NEW n \in Nodes, CallEnq(t, n) PROVE Private'
  BY <1>1 DEF CallEnq, Unused
<1>2. ASSUME NEW t \in Threads, CallDeq(t) \/ CallClr(t) \/ Dispose(t)
      PROVE  Private'
  BY <1>2 DEF CallDeq, CallClr, Dispose
<1>3. ASSUME NEW t \in Threads, Lock(t) PROVE Private'
  BY <1>3 DEF Lock
<1>4. ASSUME NEW t \in Threads, Unlock(t) PROVE Private'
  BY <1>4 DEF Unlock
<1>5. ASSUME NEW t \in Threads, EnqLink(t) PROVE Private'
  BY <1>5 DEF EnqLink
<1>6. ASSUME NEW t \in Threads, EnqSeal(t) PROVE Private'
  BY <1>6 DEF EnqSeal
<1>7. ASSUME NEW t \in Threads, DeqEmpty(t) \/ DeqTest(t) PROVE Private'
  BY <1>7 DEF DeqEmpty, DeqTest
<1>8. ASSUME NEW t \in Threads, DeqUnlink(t) PROVE Private'
  <2>1. first \in Nodes /\ \A u \in Threads : arg[u] # first
    BY <1>8, Removal DEF Distinct
  <2> QED
    BY <1>8, <2>1 DEF DeqUnlink
<1>9. ASSUME NEW t \in Threads, ClrLoop(t) \/ ClrDone(t) PROVE Private'
  BY <1>9 DEF ClrLoop, ClrDone
<1>10. CASE UNCHANGED vars
  BY <1>10 DEF vars
<1> QED
  BY <1>1, <1>2, <1>3, <1>4, <1>5, <1>6, <1>7, <1>8, <1>9, <1>10
  DEF Next, Call, Inside

\* No object is queued twice or queued while a thread still holds it.
LEMMA DistinctNext == IInv /\ [Next]_vars => Distinct'
<1> SUFFICES ASSUME IInv, [Next]_vars PROVE Distinct'
  OBVIOUS
<1> USE NullAssumption DEF IInv, TypeOK, Distinct, Goto, list
<1>0. Len(chain) \in Nat /\ \A i \in 1 .. Len(chain) : chain[i] \in Nodes
  BY LenProperties, ElementOfSeq
<1>1. ASSUME NEW t \in Threads, NEW n \in Nodes, CallEnq(t, n) PROVE Distinct'
  <2>1. \A i \in 1 .. Len(chain) : chain[i] # n
    BY <1>1, LenProperties DEF CallEnq, Unused
  <2>2. chain' = chain /\ ret' = ret /\ \A u \in Threads : arg'[u] \in {arg[u], n}
    BY <1>1 DEF CallEnq
  <2> QED
    BY <2>1, <2>2
<1>2. ASSUME NEW t \in Threads,
             \/ CallDeq(t) \/ CallClr(t) \/ Dispose(t) \/ Lock(t) \/ Unlock(t)
             \/ EnqLink(t) \/ DeqEmpty(t) \/ DeqTest(t) \/ ClrDone(t)
      PROVE  Distinct'
  <2>1. chain' = chain /\ arg' = arg
    BY <1>2 DEF CallDeq, CallClr, Dispose, Lock, Unlock, EnqLink, DeqEmpty,
                DeqTest, ClrDone
  <2>2. \A u \in Threads : ret'[u] \in {ret[u], NULL, None}
    BY <1>2 DEF CallDeq, CallClr, Dispose, Lock, Unlock, EnqLink, DeqEmpty,
                DeqTest, ClrDone
  <2> QED
    BY <1>0, <2>1, <2>2
<1>3. ASSUME NEW t \in Threads, EnqSeal(t) PROVE Distinct'
  <2>1. \A u \in Threads : arg'[u] # arg[t] /\ ret[u] # arg[t]
    BY <1>3, Addition DEF EnqSeal, Private
  <2>2. ret' = ret /\ \A u \in Threads : arg'[u] \in {arg[u], NULL}
    BY <1>3 DEF EnqSeal
  <2>3. \A i \in 1 .. Len(chain) : chain[i] # arg[t]
    BY <1>3
  <2>4. /\ arg[t] \in Nodes
        /\ Len(chain') = Len(chain) + 1
        /\ \A i \in 1 .. Len(chain) : chain'[i] = chain[i]
        /\ chain'[Len(chain) + 1] = arg[t]
    BY <1>3, Addition
  <2>5. \A i, j \in 1 .. Len(chain') : chain'[i] = chain'[j] => i = j
    BY <1>0, <2>3, <2>4
  <2>6. ASSUME NEW u \in Threads, NEW i \in 1 .. Len(chain')
        PROVE  chain'[i] # arg'[u] /\ chain'[i] # ret'[u]
    <3>1. CASE i = Len(chain) + 1
      BY <2>1, <2>2, <2>4, <3>1
    <3>2. CASE i \in 1 .. Len(chain)
      BY <1>0, <2>2, <2>4, <3>2
    <3> QED
      BY <1>0, <2>4, <3>1, <3>2
  <2> QED
    BY <2>5, <2>6
<1>4. ASSUME NEW t \in Threads, DeqUnlink(t) \/ ClrLoop(t) PROVE Distinct'
  <2>1. arg' = arg /\ \A u \in Threads : ret'[u] \in {ret[u], chain[1]}
    BY <1>4, Removal DEF DeqUnlink, ClrLoop
  <2>2. \A i \in 2 .. Len(chain) : chain[i] # chain[1]
    BY <1>0
  <2>3. /\ Len(chain) \in Nat \ {0}
        /\ Len(chain') = Len(chain) - 1
        /\ \A i \in 1 .. Len(chain) - 1 : chain'[i] = chain[i + 1]
    BY <1>4, Removal
  <2>4. \A i, j \in 1 .. Len(chain') : chain'[i] = chain'[j] => i = j
    BY <2>3
  <2>5. ASSUME NEW u \in Threads, NEW i \in 1 .. Len(chain')
        PROVE  chain'[i] # arg'[u] /\ chain'[i] # ret'[u]
    BY <2>1, <2>2, <2>3
  <2> QED
    BY <2>4, <2>5
<1>5. CASE UNCHANGED vars
  BY <1>5 DEF vars
<1> QED
  BY <1>1, <1>2, <1>3, <1>4, <1>5 DEF Next, Call, Inside

\* The list has the shape that the step of the thread inside accounts for.
LEMMA ShapeNext == IInv /\ [Next]_vars => Shape'
<1> SUFFICES ASSUME IInv, [Next]_vars PROVE Shape'
  OBVIOUS
<1> USE NullAssumption DEF IInv, TypeOK, Goto, list
<1>0. Len(chain) \in Nat /\ (chain = <<>> <=> Len(chain) = 0)
  BY LenProperties, EmptySeq
<1>1. ASSUME NEW t \in Threads,
             \/ \E n \in Nodes : CallEnq(t, n)
             \/ CallDeq(t) \/ CallClr(t) \/ Dispose(t)
      PROVE  Shape'
  <2>1. /\ UNCHANGED <<que_len, first, last, next, chain, mutex>>
        /\ pc[t] = "idle"
        /\ \A u \in Threads \ {t} : pc'[u] = pc[u] /\ arg'[u] = arg[u]
    BY <1>1 DEF CallEnq, CallDeq, CallClr, Dispose
  <2>2. mutex # t
    BY <2>1 DEF MutexInv, Critical
  <2>3. mutex # None => pc'[mutex] = pc[mutex] /\ arg'[mutex] = arg[mutex]
    BY <2>1, <2>2
  <2> QED
    BY <2>1, <2>3 DEF Shape, Links, End, AtEnqSeal, AtDeqUnlink, Quiet, At, Halfway
<1>2. ASSUME NEW t \in Threads, Lock(t) PROVE Shape'
  <2>1. /\ UNCHANGED <<que_len, first, last, next, chain>>
        /\ mutex = None /\ mutex' = t
        /\ pc'[t] \in {"enq_link", "deq_test", "clr_loop"}
    BY <1>2 DEF Lock, Waiting
  <2>2. ~ At("enq_seal")' /\ ~ At("deq_unlink")'
    BY <2>1 DEF At
  <2> QED
    BY <2>1, <2>2 DEF Shape, Links, End, Quiet, At, Halfway
<1>3. ASSUME NEW t \in Threads, Unlock(t) PROVE Shape'
  <2>1. mutex = t
    BY <1>3 DEF Unlock, MutexInv, Critical
  <2> QED
    BY <1>3, <2>1 DEF Unlock, Shape, Links, End, Quiet, At, Halfway
<1>4. ASSUME NEW t \in Threads, EnqLink(t) PROVE Shape'
  <2>1. mutex = t /\ arg[t] \in Nodes
    BY <1>4 DEF EnqLink, MutexInv, Critical, Private
  <2>2. Quiet /\ End /\ Links /\ que_len = Len(chain)
    BY <1>4, <2>1 DEF EnqLink, Shape, At, Halfway
  <2>3. At("enq_seal")' /\ ~ At("deq_unlink")' /\ Halfway'
    BY <1>4, <2>1 DEF EnqLink, At, Halfway
  <2>4. CASE que_len = 0
    BY <1>0, <1>4, <2>1, <2>2, <2>3, <2>4 DEF EnqLink, Shape, Links, AtEnqSeal
  <2>5. CASE que_len # 0
    <3>1. last = chain[Len(chain)] /\ last \in Nodes
      BY <1>0, <2>2, <2>5, ElementOfSeq DEF Quiet
    <3>2. next' = [next EXCEPT ![last] = arg[t]] /\ UNCHANGED first
      BY <1>4, <2>2, <2>5 DEF EnqLink
    <3>3. \A i \in 1 .. Len(chain) - 1 : chain[i] # last /\ chain[i] \in Nodes
      BY <1>0, <3>1, ElementOfSeq DEF Distinct
    <3>4. Links' /\ AtEnqSeal(mutex)'
      BY <1>0, <1>4, <2>1, <2>2, <2>5, <3>1, <3>2, <3>3
      DEF EnqLink, Links, AtEnqSeal
    <3> QED
      BY <1>4, <2>2, <2>3, <3>4 DEF EnqLink, Shape
  <2> QED
    BY <2>4, <2>5
<1>5. ASSUME NEW t \in Threads, EnqSeal(t) PROVE Shape'
  <2>1. /\ mutex = t /\ last = arg[t] /\ arg[t] \in Nodes
        /\ chain' \in Seq(Nodes) /\ Len(chain') = Len(chain) + 1
        /\ \A i \in 1 .. Len(chain) : chain'[i] = chain[i]
        /\ chain'[Len(chain) + 1] = arg[t]
    BY <1>5, Addition
  <2>2. Links /\ AtEnqSeal(t) /\ que_len = Len(chain)
    BY <1>5, <2>1 DEF EnqSeal, Shape, At
  <2>3. /\ next' = [next EXCEPT ![last] = NULL]
        /\ UNCHANGED <<first, last, mutex>>
        /\ que_len' = Len(chain')
        /\ pc'[t] = "unlock"
    BY <1>5, <2>1, <2>2 DEF EnqSeal
  <2>4. ~ Halfway' /\ ~ At("enq_seal")' /\ ~ At("deq_unlink")'
    BY <2>1, <2>3 DEF At, Halfway
  <2>5. \A i \in 1 .. Len(chain) : chain[i] # last /\ chain[i] \in Nodes
    BY <2>1, ElementOfSeq DEF Distinct
  <2>6. chain' # <<>>
    BY <1>0, <2>1, EmptySeq
  <2>7. \A i \in 1 .. Len(chain') - 1 : next'[chain'[i]] = chain'[i + 1]
    BY <1>0, <2>1, <2>2, <2>3, <2>5 DEF Links, AtEnqSeal
  <2>8. first' = chain'[1]
    <3>1. CASE chain = <<>>
      BY <1>0, <2>1, <2>2, <2>3, <3>1 DEF AtEnqSeal
    <3>2. CASE chain # <<>>
      <4>1. 1 \in 1 .. Len(chain)
        BY <1>0, <3>2
      <4> QED
        BY <2>1, <2>2, <2>3, <3>2, <4>1 DEF Links
    <3> QED
      BY <3>1, <3>2
  <2>9. Quiet' /\ End'
    BY <1>0, <2>1, <2>3, <2>6 DEF Quiet, End
  <2> QED
    BY <2>3, <2>4, <2>6, <2>7, <2>8, <2>9 DEF Shape, Links
<1>6. ASSUME NEW t \in Threads, DeqEmpty(t) PROVE Shape'
  <2>1. mutex = t
    BY <1>6 DEF DeqEmpty, MutexInv, Critical
  <2> QED
    BY <1>6, <2>1 DEF DeqEmpty, Shape, Links, End, Quiet, At, Halfway
<1>7. ASSUME NEW t \in Threads, DeqTest(t) PROVE Shape'
  <2>1. mutex = t
    BY <1>7 DEF DeqTest, MutexInv, Critical
  <2> QED
    BY <1>0, <1>7, <2>1
    DEF DeqTest, Shape, Links, End, Quiet, AtDeqUnlink, At, Halfway
<1>8. ASSUME NEW t \in Threads, DeqUnlink(t) \/ ClrLoop(t) PROVE Shape'
  <2>1. /\ mutex = t
        /\ chain # <<>> /\ Len(chain) \in Nat \ {0}
        /\ first = chain[1]
        /\ chain' \in Seq(Nodes) /\ Len(chain') = Len(chain) - 1
        /\ \A i \in 1 .. Len(chain) - 1 : chain'[i] = chain[i + 1]
    BY <1>8, Removal
  <2>2. Links /\ End /\ que_len = Len(chain)
    BY <1>8, <2>1 DEF DeqUnlink, ClrLoop, Shape, At
  <2>3. /\ UNCHANGED <<last, next, mutex>>
        /\ first' = next[first]
        /\ que_len' = Len(chain')
        /\ pc'[t] \in {"unlock", "clr_loop"}
    BY <1>8, <2>1, <2>2 DEF DeqUnlink, ClrLoop
  <2>4. ~ At("enq_seal")' /\ ~ At("deq_unlink")'
    BY <2>1, <2>3 DEF At
  <2>5. Len(chain') \in Nat /\ (chain' = <<>> <=> Len(chain') = 0)
    BY <2>1, LenProperties, EmptySeq
  <2>6. End' /\ (chain' = <<>> => first' = NULL)
    BY <2>1, <2>2, <2>3, <2>5 DEF End
  <2>7. Links'
    BY <2>1, <2>2, <2>3, <2>5 DEF Links
  <2>8. DeqUnlink(t) => Quiet'
    <3>1. DeqUnlink(t) => last = IF Len(chain) = 1 THEN NULL ELSE chain[Len(chain)]
      BY <2>1 DEF DeqUnlink, Shape, AtDeqUnlink, At
    <3> QED
      BY <2>1, <2>3, <2>5, <3>1 DEF Quiet
  <2>9. ClrLoop(t) => At("clr_loop")'
    BY <2>1 DEF ClrLoop, At
  <2> QED
    BY <1>8, <2>3, <2>4, <2>6, <2>7, <2>8, <2>9 DEF Shape, Halfway
<1>9. ASSUME NEW t \in Threads, ClrDone(t) PROVE Shape'
  <2>1. mutex = t
    BY <1>9 DEF ClrDone, MutexInv, Critical
  <2>2. chain = <<>>
    BY <1>0, <1>9 DEF ClrDone, Shape
  <2>3. ~ Halfway' /\ ~ At("enq_seal")' /\ ~ At("deq_unlink")'
    BY <1>9, <2>1 DEF ClrDone, At, Halfway
  <2> QED
    BY <1>0, <1>9, <2>2, <2>3 DEF ClrDone, Shape, Links, End, Quiet
<1>10. CASE UNCHANGED vars
  BY <1>10 DEF vars, Shape, Links, End, AtEnqSeal, AtDeqUnlink, Quiet, At, Halfway
<1> QED
  BY <1>1, <1>2, <1>3, <1>4, <1>5, <1>6, <1>7, <1>8, <1>9, <1>10
  DEF Next, Call, Inside

-----------------------------------------------------------------------------
\* The inductive invariant holds in every reachable state of the queue.
THEOREM Invariance == Spec => []IInv
<1>1. IInv /\ [Next]_vars => IInv'
  BY TypeNext, MutexNext, DistinctNext, ShapeNext, PrivateNext DEF IInv
<1> QED
  BY InvInit, <1>1, PTL DEF Spec

\* Every variable of the queue keeps its type: que_len never wraps below zero
\* and a call never stores anything but an object or NULL.
THEOREM TypeCorrect == Spec => []TypeOK
<1>1. IInv => TypeOK
  BY DEF IInv
<1> QED
  BY Invariance, <1>1, PTL

\* Mutual exclusion of packet_queue_enq, packet_queue_deq and packet_queue_clr.
THEOREM MutualExclusion == Spec => []MutexInv
<1>1. IInv => MutexInv
  BY DEF IInv
<1> QED
  BY Invariance, <1>1, PTL

\* No object is in the queue twice, or queued and held by a thread at once.
THEOREM NoSharing == Spec => []Distinct
<1>1. IInv => Distinct
  BY DEF IInv
<1> QED
  BY Invariance, <1>1, PTL

\* Between calls pkt_first, pkt_last, next and que_len describe the queue.
THEOREM WellFormed == Spec => []QueueWellFormed
<1>1. IInv => QueueWellFormed
  <2> SUFFICES ASSUME IInv, ~ Halfway PROVE QueueWellFormed
    BY DEF QueueWellFormed
  <2> QED
    BY DEF IInv, TypeOK, Shape, Links, End, Quiet, Halfway, QueueWellFormed, Linked
<1> QED
  BY Invariance, <1>1, PTL

\* Every step of the pointer code is a step of the atomic buffer or no step of
\* it: an object is handed out in the order it was put in, exactly once.
LEMMA StepSimulation == IInv /\ [Next]_vars => [Buffer!Next]_(Buffer!vars)
<1> SUFFICES ASSUME IInv, [Next]_vars PROVE [Buffer!Next]_(Buffer!vars)
  OBVIOUS
<1> USE NullAssumption DEF IInv, TypeOK, Goto, list, Buffer!vars
<1>0. Len(chain) \in Nat /\ (chain = <<>> <=> Len(chain) = 0)
  BY LenProperties, EmptySeq
<1>1. ASSUME NEW t \in Threads,
             \/ \E n \in Nodes : CallEnq(t, n)
             \/ CallDeq(t) \/ CallClr(t) \/ Lock(t) \/ Unlock(t)
             \/ EnqLink(t) \/ DeqTest(t) \/ ClrDone(t)
      PROVE  UNCHANGED Buffer!vars
  BY <1>1 DEF CallEnq, CallDeq, CallClr, Lock, Unlock, EnqLink, DeqTest, ClrDone
<1>2. ASSUME NEW t \in Threads, Dispose(t) PROVE Buffer!Dispose(t)
  BY <1>2 DEF Dispose, Buffer!Dispose
<1>3. ASSUME NEW t \in Threads, EnqSeal(t)
      PROVE  Buffer!Put(arg[t]) /\ arg[t] \in Nodes
  <2>1. \A i \in DOMAIN chain : chain[i] # arg[t]
    BY LenProperties DEF Distinct
  <2> QED
    BY <1>3, <2>1, Addition DEF EnqSeal, Buffer!Put
<1>4. ASSUME NEW t \in Threads, DeqEmpty(t) PROVE Buffer!TakeNothing(t)
  <2>1. chain = <<>>
    BY <1>0, <1>4 DEF DeqEmpty, Shape
  <2>2. ret[t] = None
    BY <1>4 DEF DeqEmpty, Private
  <2> QED
    BY <1>4, <2>1, <2>2 DEF DeqEmpty, Buffer!TakeNothing
<1>5. ASSUME NEW t \in Threads, DeqUnlink(t) PROVE Buffer!Take(t)
  <2>1. chain # <<>> /\ first = Head(chain)
    BY <1>5, Removal
  <2>2. ret[t] = None
    BY <1>5 DEF DeqUnlink, Private
  <2> QED
    BY <1>5, <2>1, <2>2 DEF DeqUnlink, Buffer!Take
<1>6. ASSUME NEW t \in Threads, ClrLoop(t) PROVE Buffer!Discard
  <2>1. chain # <<>>
    BY <1>6, Removal
  <2> QED
    BY <1>6, <2>1 DEF ClrLoop, Buffer!Discard
<1>7. CASE UNCHANGED vars
  BY <1>7 DEF vars
<1> QED
  BY <1>1, <1>2, <1>3, <1>4, <1>5, <1>6, <1>7 DEF Next, Call, Inside, Buffer!Next

\* The pointer queue implements the atomic first-in first-out buffer.
THEOREM Refinement == Spec => ImplementsFifo
<1>1. Init => Buffer!Init
  BY DEF Init, Buffer!Init
<1> QED
  BY Invariance, <1>1, StepSimulation, PTL DEF Spec, ImplementsFifo, Buffer!Spec
=============================================================================
