------------------------------- MODULE Sniffer -------------------------------
(***************************************************************************)
(* The four threads of http-sniffer and what they share (src/main.c,       *)
(* src/hash_table.c and the calls they make into src/flow.c):              *)
(*                                                                         *)
(*   main            captures packets into the packet queue                *)
(*   packet worker   takes them out and adds each to a flow of the table   *)
(*   scrubber        moves idle flows from the table to the flow queue     *)
(*   flow worker     takes flows out, saves them and frees them            *)
(*                                                                         *)
(* The two queues are atomic buffers: LinkedQueue implements module Fifo.  *)
(* A step of the table is what a thread does while it holds the mutex of   *)
(* one bucket, cut where the code takes the mutex anew or where another    *)
(* thread could see the difference.                                        *)
(***************************************************************************)
EXTENDS Flow, Integers

CONSTANTS
  Flows,      \* addresses of flow_t objects
  Sockets,    \* <<source, destination>> pairs of endpoints
  Buckets,    \* indices of flow_hash_table
  Hash,       \* HASH_FLOW: the bucket of each socket
  Traces,     \* the packet sequences the capture may deliver
  Live,       \* TRUE: -i interface, FALSE: -f tracefile
  Timeout,    \* the 60*10 seconds of scrubbing_flow_htbl
  Word,       \* the number of values of an unsigned long
  None        \* NULL; also a free mutex

Reverse(s) == <<s[2], s[1]>>

\* What the capture may deliver of a packet.
PacketRecords == [id : Nat, socket : Sockets, flags : SUBSET {SYN, ACK, FIN, RST},
                  http : {"none", "req", "rsp"}]

ASSUME SnifferAssumption ==
  /\ Buckets \subseteq Nat
  /\ Hash \in [Sockets -> Buckets]
  /\ \A s \in Sockets : Reverse(s) \in Sockets /\ Reverse(Reverse(s)) = s
  /\ \A t \in Traces : t \in Seq(PacketRecords) /\ \A i \in DOMAIN t : t[i].id = i
  /\ Timeout \in Nat /\ Word \in Nat /\ Timeout + 1 < Word - 1
  /\ None \notin Flows \cup {"packet", "scrub"} /\ None \notin PacketRecords
  /\ Live \in BOOLEAN

VARIABLES
  trace,      \* what the capture delivers
  captured,   \* how much of it is in or past the packet queue
  cap_fin,    \* GP_CAP_FIN
  pktq,       \* the packet queue
  flowq,      \* the flow queue
  live,       \* the flow_t objects allocated and not freed
  rec,        \* rec[f]: the contents of flow_t f
  idle,       \* idle[f]: seconds since f->last_action_sec, up to Timeout + 1
  table,      \* the flows linked into the hash table
  lock,       \* lock[b]: who holds the mutex of bucket b
  pkt_pc,     \* packet worker: where it is,
  pkt,        \*   the packet it adds,
  cur,        \*   the flow it found or made,
  src,        \*   and the direction
  scrub_pc,   \* scrubber: where it is,
  timeout,    \*   the argument of flow_scrubber,
  bucket,     \*   the buckets it has not finished,
  todo,       \*   the flows of the bucket it holds and has not looked at
  flow_pc,    \* flow worker: where it is
  flow,       \*   and the flow it works on
  freed,      \* history: the packets freed
  fault       \* the first memory error, if there was one

queues  == <<pktq, flowq>>
objects == <<live, rec, idle, table>>
worker  == <<pkt_pc, pkt, cur, src>>
scrub   == <<scrub_pc, timeout, bucket, todo>>
saver   == <<flow_pc, flow>>
vars == <<trace, captured, cap_fin, queues, objects, lock, worker, scrub, saver,
          freed, fault>>

Packets == {trace[i] : i \in DOMAIN trace}

Init ==
  /\ trace \in Traces
  /\ captured = 0
  /\ cap_fin = FALSE
  /\ pktq = <<>> /\ flowq = <<>>
  /\ live = {}
  /\ rec = [f \in Flows |-> NewFlow(None)]
  /\ idle = [f \in Flows |-> 0]
  /\ table = {}
  /\ lock = [b \in Buckets |-> None]
  /\ pkt_pc = "deq" /\ pkt = None /\ cur = None /\ src = FALSE
  /\ scrub_pc = "sleep" /\ timeout = Timeout /\ bucket = {} /\ todo = {}
  /\ flow_pc = "deq" /\ flow = None
  /\ freed = {}
  /\ fault = "none"

Home(f) == Hash[rec[f].socket]
InBucket(b) == {f \in table : Home(f) = b}
Running == fault = "none"

-----------------------------------------------------------------------------
\* main: capture_main.  Only the packets packet_preprocess keeps are modelled.
Capture ==
  /\ Running
  /\ captured < Len(trace)
  /\ captured' = captured + 1
  /\ pktq' = Append(pktq, trace[captured + 1])
  /\ UNCHANGED <<trace, cap_fin, flowq, objects, lock, worker, scrub, saver,
                 freed, fault>>

CaptureEnds ==
  /\ Running
  /\ ~ Live /\ ~ cap_fin
  /\ captured = Len(trace)
  /\ cap_fin' = TRUE
  /\ UNCHANGED <<trace, captured, queues, objects, lock, worker, scrub, saver,
                 freed, fault>>

\* The clock: last_action_sec falls behind.
Tick ==
  /\ Running
  /\ \E f \in live : idle[f] <= Timeout
  /\ idle' = [f \in Flows |-> IF idle[f] <= Timeout THEN idle[f] + 1 ELSE idle[f]]
  /\ UNCHANGED <<trace, captured, cap_fin, queues, live, rec, table, lock, worker,
                 scrub, saver, freed, fault>>

-----------------------------------------------------------------------------
\* The packet worker: process_packet_queue and flow_hash_add_packet.
PktDeq ==
  /\ Running
  /\ pkt_pc = "deq"
  /\ IF pktq = <<>>
       THEN /\ pkt_pc' = "check"
            /\ UNCHANGED <<pkt, pktq>>
       ELSE /\ pkt_pc' = "find_reverse"
            /\ pkt' = Head(pktq)
            /\ pktq' = Tail(pktq)
  /\ UNCHANGED <<trace, captured, cap_fin, flowq, objects, lock, cur, src, scrub,
                 saver, freed, fault>>

PktCheck ==
  /\ Running
  /\ pkt_pc = "check"
  /\ pkt_pc' = IF cap_fin THEN "done" ELSE "deq"
  /\ UNCHANGED <<trace, captured, cap_fin, queues, objects, lock, pkt, cur, src,
                 scrub, saver, freed, fault>>

\* flow_hash_find returns the flow and has released the mutex when it does.
Found(s, f) == f \in table /\ rec[f].socket = s
NotFound(s) == \A f \in table : rec[f].socket # s

PktFindReverse ==
  /\ Running
  /\ pkt_pc = "find_reverse"
  /\ lock[Hash[Reverse(pkt.socket)]] = None
  /\ \/ \E f \in Flows :
          /\ Found(Reverse(pkt.socket), f)
          /\ cur' = f /\ src' = FALSE /\ pkt_pc' = "add_lock"
     \/ /\ NotFound(Reverse(pkt.socket))
        /\ pkt_pc' = "find"
        /\ UNCHANGED <<cur, src>>
  /\ UNCHANGED <<trace, captured, cap_fin, queues, objects, lock, pkt, scrub, saver,
                 freed, fault>>

\* Mutant: a SYN makes a new flow without a look at the table.
PktFindSynFirst ==
  /\ Running
  /\ pkt_pc = "find"
  /\ lock[Hash[pkt.socket]] = None
  /\ IF pkt.flags = {SYN}
       THEN pkt_pc' = "new" /\ UNCHANGED <<pkt, freed>>
       ELSE pkt_pc' = "deq" /\ pkt' = None /\ freed' = freed \cup {pkt}
  /\ UNCHANGED <<trace, captured, cap_fin, queues, objects, lock, cur, src, scrub,
                 saver, fault>>

PktFind ==
  /\ Running
  /\ pkt_pc = "find"
  /\ lock[Hash[pkt.socket]] = None
  /\ \/ \E f \in Flows :
          /\ Found(pkt.socket, f)
          /\ cur' = f /\ src' = TRUE /\ pkt_pc' = "add_lock"
          /\ UNCHANGED <<pkt, freed>>
     \/ /\ NotFound(pkt.socket)
        /\ pkt.flags = {SYN}
        /\ pkt_pc' = "new"
        /\ UNCHANGED <<pkt, cur, src, freed>>
     \/ /\ NotFound(pkt.socket)
        /\ pkt.flags # {SYN}
        /\ freed' = freed \cup {pkt}
        /\ pkt' = None
        /\ pkt_pc' = "deq"
        /\ UNCHANGED <<cur, src>>
  /\ UNCHANGED <<trace, captured, cap_fin, queues, objects, lock, scrub, saver, fault>>

\* flow_hash_new: last_action_sec is still 0, half a century ago.
PktNew ==
  /\ Running
  /\ pkt_pc = "new"
  /\ lock[Hash[pkt.socket]] = None
  /\ \E f \in Flows \ live :
       /\ live' = live \cup {f}
       /\ rec' = [rec EXCEPT ![f] = NewFlow(pkt.socket)]
       /\ idle' = [idle EXCEPT ![f] = Timeout + 1]
       /\ table' = table \cup {f}
       /\ cur' = f
  /\ src' = TRUE
  /\ pkt_pc' = "add_lock"
  /\ UNCHANGED <<trace, captured, cap_fin, queues, lock, pkt, scrub, saver, freed, fault>>

\* Mutant: takes the mutex without waiting for the scrubber.
PktLockAnyway ==
  /\ Running
  /\ pkt_pc = "add_lock"
  /\ lock' = [lock EXCEPT ![Home(cur)] = "packet"]
  /\ pkt_pc' = "add"
  /\ UNCHANGED <<trace, captured, cap_fin, queues, objects, pkt, cur, src, scrub,
                 saver, freed, fault>>

\* flow_add_packet: pthread_mutex_lock(&(f->hmb->mutex)).
PktLock ==
  /\ Running
  /\ pkt_pc = "add_lock"
  /\ lock[Home(cur)] = None
  /\ lock' = [lock EXCEPT ![Home(cur)] = "packet"]
  /\ pkt_pc' = "add"
  /\ UNCHANGED <<trace, captured, cap_fin, queues, objects, pkt, cur, src, scrub,
                 saver, freed, fault>>

\* flow_free empties the chains and gives the memory back.
Emptied(f) == [f EXCEPT !.pkt_src = <<>>, !.pkt_dst = <<>>]

\* The body of flow_add_packet.
PktAdd ==
  /\ Running
  /\ pkt_pc = "add"
  /\ LET k == Kind(rec[cur], pkt, src) IN
       /\ k \in Dropping \cup Closing => cur \in table
       /\ freed' = freed \cup Freed(rec[cur], pkt, src)
       /\ table' = IF k \in Dropping \cup Closing THEN table \ {cur} ELSE table
       /\ live' = IF k \in Dropping THEN live \ {cur} ELSE live
       /\ flowq' = IF k \in Closing THEN Append(flowq, cur) ELSE flowq
       /\ rec' = [rec EXCEPT ![cur] = IF k \in Dropping
                                        THEN Emptied(@) ELSE AddTo(@, pkt, src)]
       /\ idle' = IF k \in Dropping THEN idle ELSE [idle EXCEPT ![cur] = 0]
  /\ pkt' = None
  /\ pkt_pc' = "add_unlock"
  /\ UNCHANGED <<trace, captured, cap_fin, pktq, lock, cur, src, scrub, saver, fault>>

\* flow_hash_delete of a flow that is not in the table: it unlinks the flow
\* from whatever list its next and prev fields belong to.
PktUnlinkTwice ==
  /\ Running
  /\ pkt_pc = "add"
  /\ Kind(rec[cur], pkt, src) \in Dropping \cup Closing
  /\ cur \notin table
  /\ fault' = "unlinked_twice"
  /\ UNCHANGED <<trace, captured, cap_fin, queues, objects, lock, worker, scrub,
                 saver, freed>>

\* pthread_mutex_unlock(&(f->hmb->mutex)), whatever became of f.
PktUnlock ==
  /\ Running
  /\ pkt_pc = "add_unlock"
  /\ lock' = [lock EXCEPT ![Home(cur)] = None]
  /\ cur' = None
  /\ pkt_pc' = "deq"
  /\ UNCHANGED <<trace, captured, cap_fin, queues, objects, pkt, src, scrub, saver,
                 freed, fault>>

\* Reading or writing a flow_t that was freed: the memory is as it was left, and
\* the steps above go on with it, or the process dies.
PktUseAfterFree ==
  /\ Running
  /\ pkt_pc \in {"add_lock", "add", "add_unlock"}
  /\ cur \notin live
  /\ fault' = IF pkt_pc = "add_unlock" THEN "unlock_after_free" ELSE "add_after_free"
  /\ UNCHANGED <<trace, captured, cap_fin, queues, objects, lock, worker, scrub,
                 saver, freed>>

-----------------------------------------------------------------------------
\* The scrubber: scrubbing_flow_htbl and flow_scrubber.
ScrubWake ==
  /\ Running
  /\ scrub_pc = "sleep"
  /\ timeout' = IF cap_fin THEN -1 ELSE Timeout
  /\ bucket' = Buckets
  /\ scrub_pc' = "next"
  /\ UNCHANGED <<trace, captured, cap_fin, queues, objects, lock, worker, todo, saver,
                 freed, fault>>

ScrubLock ==
  /\ Running
  /\ scrub_pc = "next"
  /\ \E b \in bucket :
       /\ \A c \in bucket : b <= c
       /\ lock[b] = None
       /\ lock' = [lock EXCEPT ![b] = "scrub"]
       /\ todo' = InBucket(b)
  /\ scrub_pc' = "scan"
  /\ UNCHANGED <<trace, captured, cap_fin, queues, objects, worker, timeout, bucket,
                 saver, freed, fault>>

\* delta > timeout compares an unsigned long with an int.
TooIdle(f) == idle[f] > timeout % Word

\* Mutant: puts the flow into the queue and leaves it in the table.
ScrubFlowKeeps ==
  /\ Running
  /\ scrub_pc = "scan"
  /\ \E f \in todo :
       /\ todo' = todo \ {f}
       /\ IF TooIdle(f)
            THEN /\ rec' = [rec EXCEPT ![f].close = "forced"]
                 /\ flowq' = Append(flowq, f)
            ELSE UNCHANGED <<rec, flowq>>
  /\ UNCHANGED <<trace, captured, cap_fin, pktq, live, idle, table, lock, worker,
                 scrub_pc, timeout, bucket, saver, freed, fault>>

\* Mutant: does not mark the flow as closed by force.
ScrubFlowUnmarked ==
  /\ Running
  /\ scrub_pc = "scan"
  /\ \E f \in todo :
       /\ todo' = todo \ {f}
       /\ IF TooIdle(f)
            THEN table' = table \ {f} /\ flowq' = Append(flowq, f)
            ELSE UNCHANGED <<table, flowq>>
  /\ UNCHANGED <<trace, captured, cap_fin, pktq, live, rec, idle, lock, worker,
                 scrub_pc, timeout, bucket, saver, freed, fault>>

ScrubFlow ==
  /\ Running
  /\ scrub_pc = "scan"
  /\ \E f \in todo :
       /\ todo' = todo \ {f}
       /\ IF TooIdle(f)
            THEN /\ rec' = [rec EXCEPT ![f].close = "forced"]
                 /\ table' = table \ {f}
                 /\ flowq' = Append(flowq, f)
            ELSE UNCHANGED <<rec, table, flowq>>
  /\ UNCHANGED <<trace, captured, cap_fin, pktq, live, idle, lock, worker, scrub_pc,
                 timeout, bucket, saver, freed, fault>>

\* Mutant: goes on to the next bucket with the mutex of this one.
ScrubUnlockNot ==
  /\ Running
  /\ scrub_pc = "scan"
  /\ todo = {}
  /\ \E b \in bucket : (\A c \in bucket : b <= c) /\ bucket' = bucket \ {b}
  /\ scrub_pc' = "next"
  /\ UNCHANGED <<trace, captured, cap_fin, queues, objects, lock, worker, timeout, todo,
                 saver, freed, fault>>

ScrubUnlock ==
  /\ Running
  /\ scrub_pc = "scan"
  /\ todo = {}
  /\ \E b \in bucket :
       /\ \A c \in bucket : b <= c
       /\ lock' = [lock EXCEPT ![b] = None]
       /\ bucket' = bucket \ {b}
  /\ scrub_pc' = "next"
  /\ UNCHANGED <<trace, captured, cap_fin, queues, objects, worker, timeout, todo,
                 saver, freed, fault>>

\* Mutant: never asks whether the capture has ended.
ScrubForever ==
  /\ Running
  /\ scrub_pc = "next"
  /\ bucket = {}
  /\ scrub_pc' = "sleep"
  /\ UNCHANGED <<trace, captured, cap_fin, queues, objects, lock, worker, timeout,
                 bucket, todo, saver, freed, fault>>

ScrubPassEnds ==
  /\ Running
  /\ scrub_pc = "next"
  /\ bucket = {}
  /\ scrub_pc' = IF timeout = -1 THEN "done" ELSE "sleep"
  /\ UNCHANGED <<trace, captured, cap_fin, queues, objects, lock, worker, timeout,
                 bucket, todo, saver, freed, fault>>

-----------------------------------------------------------------------------
\* The flow worker: process_flow_queue.
FlowDeq ==
  /\ Running
  /\ flow_pc = "deq"
  /\ IF flowq = <<>>
       THEN /\ flow_pc' = "check"
            /\ UNCHANGED <<flow, flowq>>
       ELSE /\ flow_pc' = "save"
            /\ flow' = Head(flowq)
            /\ flowq' = Tail(flowq)
  /\ UNCHANGED <<trace, captured, cap_fin, pktq, objects, lock, worker, scrub, freed,
                 fault>>

FlowCheck ==
  /\ Running
  /\ flow_pc = "check"
  /\ flow_pc' = IF cap_fin THEN "done" ELSE "deq"
  /\ UNCHANGED <<trace, captured, cap_fin, queues, objects, lock, worker, scrub, flow,
                 freed, fault>>

\* flow_extract_http, save_flow_json and flow_print read the flow; flow_free
\* frees its packets and the flow.
FlowSave ==
  /\ Running
  /\ flow_pc = "save"
  /\ flow_pc' = "free"
  /\ UNCHANGED <<trace, captured, cap_fin, queues, objects, lock, worker, scrub, flow,
                 freed, fault>>

FlowFree ==
  /\ Running
  /\ flow_pc = "free"
  /\ freed' = freed \cup Chained(rec[flow])
  /\ rec' = [rec EXCEPT ![flow] = Emptied(@)]
  /\ live' = live \ {flow}
  /\ flow' = None
  /\ flow_pc' = "deq"
  /\ UNCHANGED <<trace, captured, cap_fin, queues, idle, table, lock, worker, scrub,
                 fault>>

-----------------------------------------------------------------------------
Main    == Capture \/ CaptureEnds
PktWork == \/ PktDeq \/ PktCheck \/ PktFindReverse \/ PktFind \/ PktNew
           \/ PktLock \/ PktAdd \/ PktUnlinkTwice \/ PktUnlock \/ PktUseAfterFree
Scrub   == ScrubWake \/ ScrubLock \/ ScrubFlow \/ ScrubUnlock \/ ScrubPassEnds
FlowWork == FlowDeq \/ FlowCheck \/ FlowSave \/ FlowFree

\* main has joined the three threads and returned, or the process has died.
Ended ==
  \/ ~ Running
  \/ pkt_pc = "done" /\ flow_pc = "done" /\ scrub_pc = "done"
Stop == Ended /\ UNCHANGED vars

Next == Main \/ Tick \/ PktWork \/ Scrub \/ FlowWork \/ Stop

Spec == Init /\ [][Next]_vars

\* Each thread is scheduled again and again, and the clock goes on.
Fairness == WF_vars(Main) /\ WF_vars(PktWork) /\ WF_vars(Scrub) /\ WF_vars(FlowWork)
              /\ WF_vars(Tick)
FairSpec == Spec /\ Fairness

-----------------------------------------------------------------------------
FlowRecords ==
  [socket : Sockets \cup {None}, pkt_src : Seq(Packets), pkt_dst : Seq(Packets),
   pkts_src : Nat, pkts_dst : Nat, http : BOOLEAN, close : {"open", "closed", "forced"}]

TypeOK ==
  /\ trace \in Traces /\ captured \in 0 .. Len(trace)
  /\ cap_fin \in BOOLEAN
  /\ pktq \in Seq(Packets) /\ flowq \in Seq(Flows)
  /\ live \subseteq Flows /\ table \subseteq Flows
  /\ rec \in [Flows -> FlowRecords]
  /\ idle \in [Flows -> 0 .. Timeout + 1]
  /\ lock \in [Buckets -> {None, "packet", "scrub"}]
  /\ pkt_pc \in {"deq", "check", "find_reverse", "find", "new", "add_lock", "add",
                 "add_unlock", "done"}
  /\ pkt \in Packets \cup {None} /\ cur \in Flows \cup {None} /\ src \in BOOLEAN
  /\ scrub_pc \in {"sleep", "next", "scan", "done"}
  /\ timeout \in {-1, Timeout}
  /\ bucket \subseteq Buckets /\ todo \subseteq Flows
  /\ flow_pc \in {"deq", "check", "save", "free", "done"}
  /\ flow \in Flows \cup {None}
  /\ freed \subseteq Packets
  /\ fault \in {"none", "unlinked_twice", "unlock_after_free", "add_after_free"}

\* Every flow_t that is allocated is in exactly one place - linked into the
\* table, waiting in the flow queue (once) or with the flow worker - and none
\* that is freed is in any: no thread frees what another can still look up.
OnePlace ==
  LET Queued == {flowq[i] : i \in DOMAIN flowq} IN
  /\ live = table \cup Queued \cup ({flow} \ {None})
  /\ table \cap Queued = {} /\ flow \notin table \cup Queued
  /\ \A i, j \in DOMAIN flowq : flowq[i] = flowq[j] => i = j

\* The table never holds two flows of one connection, in either direction,
\* though flow_hash_add_packet looks it up and adds it under separate locks.
UniqueConnection ==
  \A f, g \in table :
    rec[f].socket \in {rec[g].socket, Reverse(rec[g].socket)} => f = g

\* A packet is in the packet queue, with the packet worker, on one chain of one
\* flow, or freed: never in two of these, so no packet_free is repeated.
PacketOnePlace ==
  LET Waiting == {pktq[i] : i \in DOMAIN pktq}
      Hooked  == UNION {Chained(rec[f]) : f \in live}
  IN /\ freed \cap (Waiting \cup {pkt} \cup Hooked) = {}
     /\ Waiting \cap ({pkt} \cup Hooked) = {}
     /\ pkt \notin Hooked
     /\ \A f, g \in live : f # g => Chained(rec[f]) \cap Chained(rec[g]) = {}

InOrder(r) ==
  /\ \A i \in DOMAIN r.pkt_src : r.pkt_src[i].socket = r.socket
  /\ \A i \in DOMAIN r.pkt_dst : r.pkt_dst[i].socket = Reverse(r.socket)
  /\ \A c \in {r.pkt_src, r.pkt_dst} : \A i, j \in DOMAIN c : i < j => c[i].id < c[j].id

\* The chains hold the packets of the flow's own connection, each direction
\* apart, in the order they were captured.
ChainsInOrder == \A f \in live : InOrder(rec[f])

\* The packet worker adds to a flow that has left the table only if the scrubber
\* forced it closed between flow_hash_find and the lock of flow_add_packet.
StaleOnlyIfForced ==
  pkt_pc \in {"add_lock", "add"} /\ cur \notin table => rec[cur].close = "forced"

\* And only such a flow still changes after it left the table for good: the flow
\* worker saves what the packet worker closed as it was closed.
ClosedIsFinal ==
  [][\A f \in live \ table : rec'[f] # rec[f] =>
       f \notin live' \/ rec[f].close = "forced"]_vars

\* A capture file comes to an end, and so does the program.
Terminates == <>Ended

\* A live capture never ends, but a flow that goes quiet is given up: it leaves
\* the table, is saved and its memory is returned.
QuietFlowsLeave == \A f \in Flows : f \in live ~> f \notin live \/ ~ Running
-----------------------------------------------------------------------------
\* The parts of the inductive invariant that the properties above rest on.

\* How many packets of the trace the packet worker has taken, and has done with.
Taken == captured - Len(pktq)
Done  == IF pkt = None THEN Taken ELSE Taken - 1

\* The packet queue is the part of the trace between what the packet worker has
\* taken and what main has captured.
Arrival ==
  /\ Len(pktq) <= captured
  /\ \A i \in DOMAIN pktq : pktq[i] = trace[Taken + i]
  /\ pkt # None => Taken > 0 /\ pkt = trace[Taken]

\* What the threads hold at each point of their loops.
Holding ==
  /\ pkt # None <=> pkt_pc \in {"find_reverse", "find", "new", "add_lock", "add"}
  /\ cur # None <=> pkt_pc \in {"add_lock", "add", "add_unlock"}
  /\ flow # None <=> flow_pc \in {"save", "free"}

\* What the packet worker knows of the table keeps until it acts on it, though it
\* has given the bucket back: only the packet worker adds flows.
Lookup ==
  /\ pkt_pc \in {"find", "new"} => NotFound(Reverse(pkt.socket))
  /\ pkt_pc = "new" => NotFound(pkt.socket)
  /\ \A f \in table \cup ({cur} \ {None}) : rec[f].socket \in Sockets
  /\ pkt_pc \in {"add_lock", "add"} =>
       pkt.socket = IF src THEN rec[cur].socket ELSE Reverse(rec[cur].socket)

\* The bucket flow_scrubber has reached.
Lowest(b) == b \in bucket /\ \A c \in bucket : b <= c

\* The packet worker adds under the mutex of the flow's bucket, also when the
\* flow has left it, and the flows the scrubber has not looked at stay in its
\* bucket meanwhile.
Locking ==
  /\ pkt_pc \in {"add", "add_unlock"} => lock[Home(cur)] = "packet"
  /\ scrub_pc = "scan" =>
       \E b \in Buckets : Lowest(b) /\ lock[b] = "scrub" /\ todo \subseteq InBucket(b)

\* Chains hold packets that were taken, are not freed and hang on no other chain,
\* in the memory of freed flows too.
Chains ==
  /\ \A p \in freed : p.id <= Done
  /\ \A f \in Flows : \A p \in Chained(rec[f]) : p.id <= Done /\ p \notin freed
  /\ \A f, g \in Flows : f # g => Chained(rec[f]) \cap Chained(rec[g]) = {}
  /\ \A f \in Flows : InOrder(rec[f])

\* The inductive invariant: no thread's step breaks what another relies on while
\* it waits between two locks.
IInv == /\ TypeOK /\ OnePlace /\ UniqueConnection /\ StaleOnlyIfForced
        /\ Arrival /\ Holding /\ Lookup /\ Locking /\ Chains

-----------------------------------------------------------------------------
\* What comments and messages of the code say, and the code does not do.

\* main.c:224: "Flow processing finished.\n"
FlowProcessingFinished == flow_pc = "done" => flowq = <<>>

\* main.c:239: "cleanse all flows"
CleanseAllFlows ==
  [][\A b \in Buckets : timeout = -1 /\ lock[b] = "scrub" /\ lock'[b] = None
       => InBucket(b) = {}]_vars

\* flow.h:113: "Add a packet to one of the flow records in hash table"
AddedToTableRecord == pkt_pc = "add" => cur \in table
=============================================================================
