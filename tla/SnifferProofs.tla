---------------------------- MODULE SnifferProofs ----------------------------
(***************************************************************************)
(* Theorems about Sniffer for any number of flows and buckets, any hash    *)
(* and any capture: who owns each flow and each packet, that a connection  *)
(* has one flow, and what may still happen to a flow that has left the     *)
(* table.                                                                  *)
(***************************************************************************)
EXTENDS Sniffer, SequenceTheorems, TLAPS

-----------------------------------------------------------------------------
\* What the functions of module Flow return.

\* flow_new makes a record without packets.
LEMMA NewRecord ==
  ASSUME NEW s \in Sockets \cup {None}
  PROVE  /\ NewFlow(s) \in FlowRecords
         /\ NewFlow(s).socket = s
         /\ Chained(NewFlow(s)) = {}
         /\ s \in Sockets => InOrder(NewFlow(s))
<1>1. <<>> \in Seq(Packets) /\ DOMAIN <<>> = {}
  BY EmptySeq
<1> QED
  BY <1>1 DEF NewFlow, FlowRecords, Chained, InOrder

\* flow_free leaves the socket and the mark of a record, and no packets.
LEMMA EmptiedRecord ==
  ASSUME NEW r \in FlowRecords
  PROVE  /\ Emptied(r) \in FlowRecords
         /\ Emptied(r).socket = r.socket /\ Emptied(r).close = r.close
         /\ Chained(Emptied(r)) = {}
         /\ InOrder(Emptied(r))
<1>1. <<>> \in Seq(Packets) /\ DOMAIN <<>> = {}
  BY EmptySeq
<1>2. Emptied(r) \in FlowRecords
  BY <1>1 DEF Emptied, FlowRecords
<1>3. Emptied(r).pkt_src = <<>> /\ Emptied(r).pkt_dst = <<>>
  BY DEF Emptied, FlowRecords
<1>4. Emptied(r).socket = r.socket /\ Emptied(r).close = r.close
  BY DEF Emptied, FlowRecords
<1> QED
  BY <1>1, <1>2, <1>3, <1>4 DEF Chained, InOrder

\* flow_scrubber changes the mark only.
LEMMA ForcedRecord ==
  ASSUME NEW r \in FlowRecords
  PROVE  LET c == [r EXCEPT !.close = "forced"] IN
         /\ c \in FlowRecords /\ c.close = "forced"
         /\ c.socket = r.socket /\ c.pkt_src = r.pkt_src /\ c.pkt_dst = r.pkt_dst
BY DEF FlowRecords

\* The ways through flow_add_packet exclude each other.
LEMMA Kinds ==
  ASSUME NEW r, NEW p, NEW s
  PROVE  Kind(r, p, s) \in Dropping \cup Closing
                             \cup {"syn_again", "http", "handshake", "syn", "plain"}
BY DEF Kind, Dropping, Closing

\* cal_packet leaves everything but the counter of the direction.
LEMMA Counted ==
  ASSUME NEW r \in FlowRecords, NEW s \in BOOLEAN
  PROVE  LET c == cal_packet(r, s) IN
         /\ c \in FlowRecords
         /\ c.socket = r.socket /\ c.pkt_src = r.pkt_src /\ c.pkt_dst = r.pkt_dst
<1>1. CASE s
  <2>1. cal_packet(r, s) = [r EXCEPT !.pkts_src = r.pkts_src + 1]
    BY <1>1 DEF cal_packet
  <2>2. r.pkts_src + 1 \in Nat
    BY DEF FlowRecords
  <2> QED
    BY <2>1, <2>2 DEF FlowRecords
<1>2. CASE ~ s
  <2>1. cal_packet(r, s) = [r EXCEPT !.pkts_dst = r.pkts_dst + 1]
    BY <1>2 DEF cal_packet
  <2>2. r.pkts_dst + 1 \in Nat
    BY DEF FlowRecords
  <2> QED
    BY <2>1, <2>2 DEF FlowRecords
<1> QED
  BY <1>1, <1>2

\* hook_packet puts the packet at the end of the chain of its direction.
LEMMA HookedPacket ==
  ASSUME NEW r \in FlowRecords, NEW p \in Packets, NEW s \in BOOLEAN
  PROVE  LET h == hook_packet(r, p, s) IN
         /\ h \in FlowRecords
         /\ h.socket = r.socket
         /\ h.pkt_src = IF s THEN Append(r.pkt_src, p) ELSE r.pkt_src
         /\ h.pkt_dst = IF s THEN r.pkt_dst ELSE Append(r.pkt_dst, p)
<1>1. Append(r.pkt_src, p) \in Seq(Packets) /\ Append(r.pkt_dst, p) \in Seq(Packets)
  BY AppendProperties DEF FlowRecords
<1> QED
  BY <1>1 DEF hook_packet, FlowRecords

\* flow_add_packet keeps the socket; it empties the chains or leaves them alone
\* but for the packet it hooks.
LEMMA Adding ==
  ASSUME NEW r \in FlowRecords, NEW p \in Packets, NEW s \in BOOLEAN
  PROVE  LET a == AddTo(r, p, s)
             k == Kind(r, p, s)
         IN /\ a \in FlowRecords
            /\ a.socket = r.socket
            /\ k = "syn_again" => a.pkt_src = <<>> /\ a.pkt_dst = <<>>
            /\ k = "http" =>
                 /\ a.pkt_src = IF s THEN Append(r.pkt_src, p) ELSE r.pkt_src
                 /\ a.pkt_dst = IF s THEN r.pkt_dst ELSE Append(r.pkt_dst, p)
            /\ k \notin {"syn_again", "http"} =>
                 a.pkt_src = r.pkt_src /\ a.pkt_dst = r.pkt_dst
<1> DEFINE a == AddTo(r, p, s)
<1> DEFINE k == Kind(r, p, s)
<1> USE DEF Dropping, Closing
<1>1. CASE k \in Dropping
  BY <1>1 DEF AddTo
<1>2. CASE k \in Closing
  <2>1. a = [cal_packet(r, s) EXCEPT !.close = "closed"]
    BY <1>2 DEF AddTo
  <2>2. cal_packet(r, s) \in FlowRecords
    BY Counted
  <2>3. /\ a \in FlowRecords /\ a.socket = cal_packet(r, s).socket
        /\ a.pkt_src = cal_packet(r, s).pkt_src /\ a.pkt_dst = cal_packet(r, s).pkt_dst
    BY <2>1, <2>2 DEF FlowRecords
  <2> QED
    BY <1>2, <2>3, Counted
<1>3. CASE k = "syn_again"
  <2>1. a = cal_packet(NewFlow(r.socket), s)
    BY <1>3 DEF AddTo
  <2>2. r.socket \in Sockets \cup {None}
    BY DEF FlowRecords
  <2>3. /\ NewFlow(r.socket) \in FlowRecords
        /\ NewFlow(r.socket).socket = r.socket
        /\ NewFlow(r.socket).pkt_src = <<>> /\ NewFlow(r.socket).pkt_dst = <<>>
    BY <2>2, NewRecord DEF NewFlow
  <2> QED
    BY <1>3, <2>1, <2>3, Counted
<1>4. CASE k = "http"
  <2> DEFINE h == hook_packet(r, p, s)
  <2>1. a = [cal_packet(h, s) EXCEPT !.http = TRUE]
    BY <1>4 DEF AddTo
  <2>2. h \in FlowRecords
    BY HookedPacket
  <2>3. cal_packet(h, s) \in FlowRecords
    BY <2>2, Counted
  <2>4. /\ a \in FlowRecords /\ a.socket = cal_packet(h, s).socket
        /\ a.pkt_src = cal_packet(h, s).pkt_src /\ a.pkt_dst = cal_packet(h, s).pkt_dst
    BY <2>1, <2>3 DEF FlowRecords
  <2>5. /\ cal_packet(h, s).socket = h.socket
        /\ cal_packet(h, s).pkt_src = h.pkt_src /\ cal_packet(h, s).pkt_dst = h.pkt_dst
    BY <2>2, Counted
  <2> QED
    BY <1>4, <2>4, <2>5, HookedPacket
<1>5. CASE k \in {"handshake", "syn", "plain"}
  <2>1. a = cal_packet(r, s)
    BY <1>5 DEF AddTo
  <2> QED
    BY <1>5, <2>1, Counted
<1> QED
  BY <1>1, <1>2, <1>3, <1>4, <1>5, Kinds

\* A chain grows at its end, by a packet captured after those on it.
LEMMA AppendedChain ==
  ASSUME NEW c \in Seq(Packets), NEW p \in Packets
  PROVE  LET d == Append(c, p) IN
         /\ d \in Seq(Packets)
         /\ DOMAIN d = DOMAIN c \cup {Len(c) + 1}
         /\ \A i \in DOMAIN c : d[i] = c[i] /\ i < Len(c) + 1 /\ i \in Nat
         /\ d[Len(c) + 1] = p /\ Len(c) + 1 \in Nat
<1>1. Len(c) \in Nat /\ DOMAIN c = 1 .. Len(c)
  BY LenProperties
<1>2. /\ Append(c, p) \in Seq(Packets)
      /\ Len(Append(c, p)) = Len(c) + 1
      /\ \A i \in 1 .. Len(c) : Append(c, p)[i] = c[i]
      /\ Append(c, p)[Len(c) + 1] = p
  BY AppendProperties
<1>3. DOMAIN Append(c, p) = 1 .. Len(c) + 1
  BY <1>2, LenProperties
<1> QED
  BY <1>1, <1>2, <1>3

\* Every packet of the trace is numbered by its place, and no packet is None.
LEMMA TracePackets ==
  ASSUME TypeOK
  PROVE  /\ trace \in Seq(PacketRecords)
         /\ Len(trace) \in Nat /\ DOMAIN trace = 1 .. Len(trace)
         /\ \A i \in DOMAIN trace : trace[i] \in Packets /\ trace[i].id = i
         /\ \A p \in Packets : /\ p.id \in Nat /\ p # None /\ p.socket \in Sockets
                               /\ p.id \in DOMAIN trace /\ trace[p.id] = p
<1>1. trace \in Seq(PacketRecords) /\ \A i \in DOMAIN trace : trace[i].id = i
  BY SnifferAssumption DEF TypeOK
<1>2. Len(trace) \in Nat /\ DOMAIN trace = 1 .. Len(trace)
  BY <1>1, LenProperties
<1>3. \A i \in DOMAIN trace : trace[i] \in PacketRecords
  BY <1>1, <1>2, ElementOfSeq
<1> QED
  BY <1>1, <1>2, <1>3, SnifferAssumption DEF Packets, PacketRecords

\* A hooked packet joins its chain in order, and no other changes.
LEMMA AppendInOrder ==
  ASSUME TypeOK, NEW r \in FlowRecords, NEW a \in FlowRecords, NEW p \in Packets,
         NEW s \in BOOLEAN,
         InOrder(r), a.socket = r.socket,
         p.socket = IF s THEN r.socket ELSE Reverse(r.socket),
         \A q \in Chained(r) : q.id < p.id,
         a.pkt_src = IF s THEN Append(r.pkt_src, p) ELSE r.pkt_src,
         a.pkt_dst = IF s THEN r.pkt_dst ELSE Append(r.pkt_dst, p)
  PROVE  InOrder(a) /\ Chained(a) = Chained(r) \cup {p}
<1>1. ASSUME NEW c \in Seq(Packets), NEW e,
             \A i \in DOMAIN c : c[i].socket = e /\ c[i].id < p.id,
             \A i, j \in DOMAIN c : i < j => c[i].id < c[j].id,
             p.socket = e
      PROVE  LET d == Append(c, p) IN
             /\ \A i \in DOMAIN d : d[i].socket = e
             /\ \A i, j \in DOMAIN d : i < j => d[i].id < d[j].id
             /\ {d[i] : i \in DOMAIN d} = {c[i] : i \in DOMAIN c} \cup {p}
  <2> DEFINE d == Append(c, p)
  <2> DEFINE n == Len(c) + 1
  <2>1. /\ DOMAIN d = DOMAIN c \cup {n}
        /\ \A i \in DOMAIN c : d[i] = c[i] /\ i < n /\ i \in Nat
        /\ d[n] = p /\ n \in Nat
    BY AppendedChain
  <2> HIDE DEF d, n
  <2>2. \A i \in DOMAIN d : d[i].socket = e
    BY <1>1, <2>1
  <2>3. \A i, j \in DOMAIN d : i < j => d[i].id < d[j].id
    BY <1>1, <2>1
  <2>4. {d[i] : i \in DOMAIN d} = {c[i] : i \in DOMAIN c} \cup {p}
    BY <2>1
  <2> QED
    BY <2>2, <2>3, <2>4 DEF d
<1>2. r.pkt_src \in Seq(Packets) /\ r.pkt_dst \in Seq(Packets)
  BY DEF FlowRecords
<1>3. CASE s
  <2> DEFINE c == r.pkt_src
  <2> DEFINE d == Append(c, p)
  <2>1. a.pkt_src = d /\ a.pkt_dst = r.pkt_dst /\ p.socket = r.socket
    BY <1>3
  <2>2. \A i \in DOMAIN c : c[i].socket = r.socket /\ c[i].id < p.id
    BY DEF InOrder, Chained
  <2>3. \A i, j \in DOMAIN c : i < j => c[i].id < c[j].id
    BY DEF InOrder
  <2>4. /\ \A i \in DOMAIN d : d[i].socket = r.socket
        /\ \A i, j \in DOMAIN d : i < j => d[i].id < d[j].id
        /\ {d[i] : i \in DOMAIN d} = {c[i] : i \in DOMAIN c} \cup {p}
    BY <1>1, <1>2, <2>1, <2>2, <2>3
  <2> HIDE DEF d
  <2>5. InOrder(a)
    BY <2>1, <2>4 DEF InOrder
  <2>6. Chained(a) = {d[i] : i \in DOMAIN d} \cup {r.pkt_dst[i] : i \in DOMAIN r.pkt_dst}
    BY <2>1 DEF Chained
  <2>7. Chained(r) = {c[i] : i \in DOMAIN c} \cup {r.pkt_dst[i] : i \in DOMAIN r.pkt_dst}
    BY DEF Chained
  <2> QED
    BY <2>4, <2>5, <2>6, <2>7
<1>4. CASE ~ s
  <2> DEFINE c == r.pkt_dst
  <2> DEFINE d == Append(c, p)
  <2>1. a.pkt_dst = d /\ a.pkt_src = r.pkt_src /\ p.socket = Reverse(r.socket)
    BY <1>4
  <2>2. \A i \in DOMAIN c : c[i].socket = Reverse(r.socket) /\ c[i].id < p.id
    BY DEF InOrder, Chained
  <2>3. \A i, j \in DOMAIN c : i < j => c[i].id < c[j].id
    BY DEF InOrder
  <2>4. /\ \A i \in DOMAIN d : d[i].socket = Reverse(r.socket)
        /\ \A i, j \in DOMAIN d : i < j => d[i].id < d[j].id
        /\ {d[i] : i \in DOMAIN d} = {c[i] : i \in DOMAIN c} \cup {p}
    BY <1>1, <1>2, <2>1, <2>2, <2>3
  <2> HIDE DEF d
  <2>5. InOrder(a)
    BY <2>1, <2>4 DEF InOrder
  <2>6. Chained(a) = {d[i] : i \in DOMAIN d} \cup {r.pkt_src[i] : i \in DOMAIN r.pkt_src}
    BY <2>1 DEF Chained
  <2>7. Chained(r) = {c[i] : i \in DOMAIN c} \cup {r.pkt_src[i] : i \in DOMAIN r.pkt_src}
    BY DEF Chained
  <2> QED
    BY <2>4, <2>5, <2>6, <2>7
<1> QED
  BY <1>3, <1>4

-----------------------------------------------------------------------------
\* Which actions change which variables.
LEMMA Frames ==
  ASSUME Next
  PROVE  /\ trace' = trace
         /\ captured' = captured \/ Capture
         /\ cap_fin' = cap_fin \/ CaptureEnds
         /\ pktq' = pktq \/ Capture \/ PktDeq
         /\ flowq' = flowq \/ PktAdd \/ ScrubFlow \/ FlowDeq
         /\ live' = live \/ PktNew \/ PktAdd \/ FlowFree
         /\ rec' = rec \/ PktNew \/ PktAdd \/ ScrubFlow \/ FlowFree
         /\ idle' = idle \/ Tick \/ PktNew \/ PktAdd
         /\ table' = table \/ PktNew \/ PktAdd \/ ScrubFlow
         /\ lock' = lock \/ PktLock \/ PktUnlock \/ ScrubLock \/ ScrubUnlock
         /\ \/ UNCHANGED <<pkt_pc, pkt, cur, src>>
            \/ PktDeq \/ PktCheck \/ PktFindReverse \/ PktFind \/ PktNew
            \/ PktLock \/ PktAdd \/ PktUnlock
         /\ \/ UNCHANGED <<scrub_pc, timeout, bucket, todo>>
            \/ ScrubWake \/ ScrubLock \/ ScrubFlow \/ ScrubUnlock \/ ScrubPassEnds
         /\ \/ UNCHANGED <<flow_pc, flow>>
            \/ FlowDeq \/ FlowCheck \/ FlowSave \/ FlowFree
         /\ freed' = freed \/ PktFind \/ PktAdd \/ FlowFree
         /\ fault' = fault \/ PktUnlinkTwice \/ PktUseAfterFree
<1>1. CASE Capture
  BY <1>1 DEF Capture, queues, objects, worker, scrub, saver
<1>2. CASE CaptureEnds
  BY <1>2 DEF CaptureEnds, queues, objects, worker, scrub, saver
<1>3. CASE Tick
  BY <1>3 DEF Tick, queues, objects, worker, scrub, saver
<1>4. CASE PktDeq
  BY <1>4 DEF PktDeq, queues, objects, worker, scrub, saver
<1>5. CASE PktCheck
  BY <1>5 DEF PktCheck, queues, objects, worker, scrub, saver
<1>6. CASE PktFindReverse
  BY <1>6 DEF PktFindReverse, queues, objects, worker, scrub, saver
<1>7. CASE PktFind
  BY <1>7 DEF PktFind, queues, objects, worker, scrub, saver
<1>8. CASE PktNew
  BY <1>8 DEF PktNew, queues, objects, worker, scrub, saver
<1>9. CASE PktLock
  BY <1>9 DEF PktLock, queues, objects, worker, scrub, saver
<1>10. CASE PktAdd
  BY <1>10 DEF PktAdd, queues, objects, worker, scrub, saver
<1>11. CASE PktUnlinkTwice
  BY <1>11 DEF PktUnlinkTwice, queues, objects, worker, scrub, saver
<1>12. CASE PktUnlock
  BY <1>12 DEF PktUnlock, queues, objects, worker, scrub, saver
<1>13. CASE PktUseAfterFree
  BY <1>13 DEF PktUseAfterFree, queues, objects, worker, scrub, saver
<1>14. CASE ScrubWake
  BY <1>14 DEF ScrubWake, queues, objects, worker, scrub, saver
<1>15. CASE ScrubLock
  BY <1>15 DEF ScrubLock, queues, objects, worker, scrub, saver
<1>16. CASE ScrubFlow
  BY <1>16 DEF ScrubFlow, queues, objects, worker, scrub, saver
<1>17. CASE ScrubUnlock
  BY <1>17 DEF ScrubUnlock, queues, objects, worker, scrub, saver
<1>18. CASE ScrubPassEnds
  BY <1>18 DEF ScrubPassEnds, queues, objects, worker, scrub, saver
<1>19. CASE FlowDeq
  BY <1>19 DEF FlowDeq, queues, objects, worker, scrub, saver
<1>20. CASE FlowCheck
  BY <1>20 DEF FlowCheck, queues, objects, worker, scrub, saver
<1>21. CASE FlowSave
  BY <1>21 DEF FlowSave, queues, objects, worker, scrub, saver
<1>22. CASE FlowFree
  BY <1>22 DEF FlowFree, queues, objects, worker, scrub, saver
<1>23. CASE Stop
  BY <1>23 DEF Stop, vars, worker, scrub, saver, queues, objects
<1> QED
  BY <1>1, <1>2, <1>3, <1>4, <1>5, <1>6, <1>7, <1>8, <1>9, <1>10, <1>11, <1>12, <1>13, <1>14, <1>15, <1>16, <1>17, <1>18, <1>19, <1>20, <1>21, <1>22, <1>23 DEF Next, Main, PktWork, Scrub, FlowWork

-----------------------------------------------------------------------------
\* The queue of flows as a set.
Elements(q) == {q[i] : i \in DOMAIN q}
Distinct(q) == \A i, j \in DOMAIN q : q[i] = q[j] => i = j

\* A flow put at the end of the queue.
LEMMA EnqueuedFlow ==
  ASSUME NEW q \in Seq(Flows), NEW f \in Flows
  PROVE  /\ Append(q, f) \in Seq(Flows)
         /\ Elements(Append(q, f)) = Elements(q) \cup {f}
         /\ Distinct(q) /\ f \notin Elements(q) => Distinct(Append(q, f))
<1> DEFINE n == Len(q)
<1>1. n \in Nat /\ DOMAIN q = 1 .. n
  BY LenProperties
<1>2. /\ Append(q, f) \in Seq(Flows) /\ Len(Append(q, f)) = n + 1
      /\ \A i \in 1 .. n : Append(q, f)[i] = q[i]
      /\ Append(q, f)[n + 1] = f
  BY AppendProperties
<1>3. DOMAIN Append(q, f) = (1 .. n) \cup {n + 1}
  BY <1>1, <1>2, LenProperties
<1>4. n + 1 \notin 1 .. n
  BY <1>1
<1> HIDE DEF n
<1>5. Elements(Append(q, f)) = Elements(q) \cup {f}
  BY <1>1, <1>2, <1>3 DEF Elements
<1>6. Distinct(q) /\ f \notin Elements(q) => Distinct(Append(q, f))
  BY <1>1, <1>2, <1>3 DEF Elements, Distinct
<1> QED
  BY <1>2, <1>5, <1>6

\* The flow taken from the front of the queue.
LEMMA DequeuedFlow ==
  ASSUME NEW q \in Seq(Flows), q # <<>>
  PROVE  /\ Head(q) \in Flows /\ Tail(q) \in Seq(Flows)
         /\ Elements(q) = Elements(Tail(q)) \cup {Head(q)}
         /\ Distinct(q) => Distinct(Tail(q)) /\ Head(q) \notin Elements(Tail(q))
<1> DEFINE n == Len(q)
<1>1. n \in Nat \ {0} /\ DOMAIN q = 1 .. n
  BY LenProperties, EmptySeq
<1>2. /\ Head(q) \in Flows /\ Head(q) = q[1]
      /\ Tail(q) \in Seq(Flows) /\ Len(Tail(q)) = n - 1
      /\ \A i \in 1 .. n - 1 : Tail(q)[i] = q[i + 1]
  BY HeadTailProperties, ElementOfSeq
<1>3. DOMAIN Tail(q) = 1 .. n - 1
  BY <1>1, <1>2, LenProperties
<1>4. \A i \in 1 .. n : i = 1 \/ \E j \in 1 .. n - 1 : q[i] = Tail(q)[j]
  <2> TAKE i \in 1 .. n
  <2> DEFINE j == i - 1
  <2>1. i = 1 \/ j \in 1 .. n - 1
    BY <1>1
  <2>2. j + 1 = i
    OBVIOUS
  <2> HIDE DEF j
  <2> QED
    BY <1>2, <2>1, <2>2
<1>5. \A i \in 1 .. n - 1 : i + 1 \in 1 .. n /\ i + 1 # 1
  BY <1>1
<1>6. Elements(q) = Elements(Tail(q)) \cup {Head(q)}
  <2>1. ASSUME NEW x \in Elements(q) PROVE x \in Elements(Tail(q)) \cup {Head(q)}
    <3>1. PICK i \in 1 .. n : q[i] = x
      BY <1>1, <2>1 DEF Elements
    <3>2. i = 1 \/ \E j \in 1 .. n - 1 : q[i] = Tail(q)[j]
      BY <1>4
    <3> QED
      BY <1>2, <1>3, <3>1, <3>2 DEF Elements
  <2>2. ASSUME NEW x \in Elements(Tail(q)) PROVE x \in Elements(q)
    BY <1>1, <1>2, <1>3, <1>5 DEF Elements
  <2>3. Head(q) \in Elements(q)
    BY <1>1, <1>2 DEF Elements
  <2> QED
    BY <2>1, <2>2, <2>3
<1>7. Distinct(q) => Head(q) \notin Elements(Tail(q))
  BY <1>1, <1>2, <1>3, <1>5 DEF Elements, Distinct
<1>8. ASSUME Distinct(q), NEW i \in 1 .. n - 1, NEW j \in 1 .. n - 1,
             Tail(q)[i] = Tail(q)[j]
      PROVE  i = j
  <2>1. i + 1 = j + 1
    BY <1>1, <1>2, <1>5, <1>8 DEF Distinct
  <2> QED
    BY <1>1, <2>1
<1> QED
  BY <1>2, <1>3, <1>6, <1>7, <1>8 DEF Distinct

\* OnePlace in these words.
LEMMA Places ==
  /\ OnePlace <=>
       /\ live = table \cup Elements(flowq) \cup ({flow} \ {None})
       /\ table \cap Elements(flowq) = {} /\ flow \notin table \cup Elements(flowq)
       /\ Distinct(flowq)
  /\ OnePlace' <=>
       /\ live' = table' \cup Elements(flowq') \cup ({flow'} \ {None})
       /\ table' \cap Elements(flowq') = {} /\ flow' \notin table' \cup Elements(flowq')
       /\ Distinct(flowq')
BY DEF OnePlace, Elements, Distinct

\* What flow_scrubber has not looked at is in the table, in a bucket it owns.
LEMMA ScrubbedFlow ==
  ASSUME IInv, ScrubFlow
  PROVE  \A f \in todo : /\ f \in table /\ f \in Flows /\ f # None
                         /\ lock[Home(f)] = "scrub"
<1>1. table \subseteq Flows /\ None \notin Flows
  BY SnifferAssumption DEF IInv, TypeOK
<1>2. PICK b \in Buckets : lock[b] = "scrub" /\ todo \subseteq InBucket(b)
  BY DEF IInv, Locking, ScrubFlow
<1> QED
  BY <1>1, <1>2 DEF InBucket

\* What the packet worker adds, and to what.
LEMMA AddedPacket ==
  ASSUME IInv, pkt_pc \in {"add_lock", "add"}
  PROVE  /\ pkt \in Packets /\ pkt # None /\ cur \in Flows /\ cur # None
         /\ src \in BOOLEAN /\ rec[cur] \in FlowRecords
         /\ Home(cur) \in Buckets
<1>1. pkt \in Packets /\ pkt # None /\ cur \in Flows /\ cur # None /\ src \in BOOLEAN
  BY DEF IInv, TypeOK, Holding
<1>2. rec[cur] \in FlowRecords
  BY <1>1 DEF IInv, TypeOK
<1>3. rec[cur].socket \in Sockets
  BY <1>1 DEF IInv, Lookup
<1> QED
  BY <1>1, <1>2, <1>3, SnifferAssumption DEF Home

\* No flow gets a second owner, and none is left without one.
LEMMA OnePlaceNext ==
  ASSUME IInv, Next
  PROVE  OnePlace'
<1> USE DEF IInv
<1>1. CASE UNCHANGED <<live, table, flowq, flow>>
  BY <1>1, Places
<1>2. flowq \in Seq(Flows) /\ None \notin Flows /\ table \subseteq Flows
  BY SnifferAssumption DEF TypeOK
<1>3. CASE PktNew
  <2>1. PICK f \in Flows \ live : live' = live \cup {f} /\ table' = table \cup {f}
    BY <1>3 DEF PktNew
  <2>2. UNCHANGED <<flowq, flow>>
    BY <1>3 DEF PktNew, queues, saver
  <2>3. f # None /\ f \notin Elements(flowq) /\ f # flow
    BY <1>2, <2>1, Places
  <2> QED
    BY <2>1, <2>2, <2>3, Places
<1>4. CASE PktAdd
  <2> DEFINE k == Kind(rec[cur], pkt, src)
  <2>1. /\ k \in Dropping \cup Closing => cur \in table
        /\ table' = IF k \in Dropping \cup Closing THEN table \ {cur} ELSE table
        /\ live' = IF k \in Dropping THEN live \ {cur} ELSE live
        /\ flowq' = IF k \in Closing THEN Append(flowq, cur) ELSE flowq
        /\ flow' = flow
    BY <1>4 DEF PktAdd, saver
  <2>2. cur \in Flows /\ cur # None
    BY <1>4, AddedPacket DEF PktAdd
  <2>3. CASE k \in Dropping
    <3>1. k \notin Closing
      BY <2>3 DEF Dropping, Closing
    <3> QED
      BY <2>1, <2>3, <3>1, Places
  <2>4. CASE k \in Closing
    <3>1. k \notin Dropping
      BY <2>4 DEF Dropping, Closing
    <3>2. cur \notin Elements(flowq) /\ cur # flow /\ cur \in live
      BY <2>1, <2>4, Places
    <3>3. Elements(flowq') = Elements(flowq) \cup {cur} /\ Distinct(flowq')
      BY <1>2, <2>1, <2>2, <2>4, <3>2, EnqueuedFlow, Places
    <3> QED
      BY <2>1, <2>4, <3>1, <3>2, <3>3, Places
  <2>5. CASE k \notin Dropping \cup Closing
    BY <1>1, <2>1, <2>5
  <2> QED
    BY <2>3, <2>4, <2>5
<1>5. CASE ScrubFlow
  <2>1. PICK f \in todo : IF TooIdle(f)
                            THEN table' = table \ {f} /\ flowq' = Append(flowq, f)
                            ELSE UNCHANGED <<table, flowq>>
    BY <1>5 DEF ScrubFlow
  <2>2. UNCHANGED <<live, flow>>
    BY <1>5 DEF ScrubFlow, saver
  <2>3. f \in table /\ f \in Flows
    BY <1>5, ScrubbedFlow
  <2>4. CASE TooIdle(f)
    <3>1. f \notin Elements(flowq) /\ f # flow /\ f \in live
      BY <2>3, Places
    <3>2. Elements(flowq') = Elements(flowq) \cup {f} /\ Distinct(flowq')
      BY <1>2, <2>1, <2>3, <2>4, <3>1, EnqueuedFlow, Places
    <3> QED
      BY <2>1, <2>2, <2>4, <3>1, <3>2, Places
  <2>5. CASE ~ TooIdle(f)
    BY <1>1, <2>1, <2>2, <2>5
  <2> QED
    BY <2>4, <2>5
<1>6. CASE FlowDeq
  <2>1. UNCHANGED <<live, table>> /\ flow = None
    BY <1>6 DEF FlowDeq, objects, Holding
  <2>2. CASE flowq = <<>>
    BY <1>1, <1>6, <2>1, <2>2 DEF FlowDeq
  <2>3. CASE flowq # <<>>
    <3>1. flow' = Head(flowq) /\ flowq' = Tail(flowq)
      BY <1>6, <2>3 DEF FlowDeq
    <3>2. /\ Head(flowq) \in Flows
          /\ Elements(flowq) = Elements(Tail(flowq)) \cup {Head(flowq)}
          /\ Distinct(Tail(flowq)) /\ Head(flowq) \notin Elements(Tail(flowq))
      BY <1>2, <2>3, DequeuedFlow, Places
    <3> QED
      BY <1>2, <2>1, <3>1, <3>2, Places
  <2> QED
    BY <2>2, <2>3
<1>7. CASE FlowFree
  <2>1. /\ flow # None /\ flow' = None /\ live' = live \ {flow}
        /\ UNCHANGED <<table, flowq>>
    BY <1>7 DEF FlowFree, Holding, queues
  <2>2. None \notin table \cup Elements(flowq)
    <3>1. \A i \in DOMAIN flowq : flowq[i] \in Flows
      BY <1>2, ElementOfSeq, LenProperties
    <3> QED
      BY <1>2, <3>1 DEF Elements
  <2> QED
    BY <2>1, <2>2, Places
<1>8. \/ UNCHANGED <<live, table, flowq, flow>>
      \/ PktNew \/ PktAdd \/ ScrubFlow \/ FlowDeq \/ FlowFree
  <2>1. flow' = flow \/ FlowDeq \/ FlowFree
    BY Frames DEF FlowCheck, FlowSave
  <2> QED
    BY <2>1, Frames
<1> QED
  BY <1>1, <1>3, <1>4, <1>5, <1>6, <1>7, <1>8

\* The packet in hand was captured after all that are hooked or freed.
LEMMA NewestPacket ==
  ASSUME IInv, pkt # None
  PROVE  /\ pkt \in Packets /\ pkt.id = Taken /\ Taken \in Nat \ {0} /\ Done = Taken - 1
         /\ pkt \notin freed
         /\ \A f \in Flows : \A q \in Chained(rec[f]) : q.id < pkt.id
<1> USE DEF IInv
<1>1. TypeOK /\ pkt \in Packets
  BY DEF TypeOK
<1>2. Taken \in Nat \ {0} /\ pkt = trace[Taken]
  <2>1. captured \in Nat /\ Len(pktq) \in Nat
    BY <1>1, TracePackets, LenProperties DEF TypeOK
  <2> QED
    BY <2>1 DEF Arrival, Taken
<1>3. Taken \in DOMAIN trace
  <2>1. Taken <= captured /\ captured \in 0 .. Len(trace) /\ Len(trace) \in Nat
    BY <1>1, TracePackets, LenProperties DEF TypeOK, Taken
  <2> QED
    BY <1>1, <1>2, <2>1, TracePackets
<1>4. pkt.id = Taken /\ Done = Taken - 1
  BY <1>1, <1>2, <1>3, TracePackets DEF Done
<1>5. ASSUME NEW f \in Flows, NEW q \in Chained(rec[f]) PROVE q.id < pkt.id
  <2>1. q \in Packets
    <3>1. rec[f] \in FlowRecords
      BY <1>1 DEF TypeOK
    <3> QED
      BY <3>1, ElementOfSeq, LenProperties DEF Chained, FlowRecords
  <2>2. q.id <= Done
    BY <1>5 DEF Chains
  <2>3. q.id \in Nat
    BY <1>1, <2>1, TracePackets
  <2> QED
    BY <1>2, <1>4, <2>2, <2>3
<1>6. pkt \notin freed
  <2>1. pkt \in freed => pkt.id <= Done
    BY DEF Chains
  <2> QED
    BY <1>2, <1>4, <2>1
<1> QED
  BY <1>1, <1>2, <1>4, <1>5, <1>6

\* flow_add_packet changes the record it was given and hooks or frees the packet.
LEMMA AddEffect ==
  ASSUME IInv, PktAdd
  PROVE  LET k == Kind(rec[cur], pkt, src)
             r == rec[cur]
             a == rec'[cur]
         IN /\ rec' = [rec EXCEPT ![cur] = a]
            /\ a \in FlowRecords /\ a.socket = r.socket
            /\ InOrder(a)
            /\ \/ /\ Chained(a) = Chained(r) \cup {pkt}
                  /\ freed' = freed
               \/ /\ Chained(a) = Chained(r)
                  /\ freed' = freed \cup {pkt}
               \/ /\ Chained(a) = {}
                  /\ freed' = freed \cup {pkt} \cup Chained(r)
<1> USE DEF IInv
<1> DEFINE k == Kind(rec[cur], pkt, src)
<1> DEFINE r == rec[cur]
<1> DEFINE a == rec'[cur]
<1>1. /\ pkt \in Packets /\ pkt # None /\ cur \in Flows /\ src \in BOOLEAN
      /\ r \in FlowRecords
  BY AddedPacket DEF PktAdd
<1>2. rec \in [Flows -> FlowRecords]
  BY DEF TypeOK
<1>3. /\ rec' = [rec EXCEPT ![cur] = a]
      /\ a = IF k \in Dropping THEN Emptied(r) ELSE AddTo(r, pkt, src)
      /\ freed' = freed \cup Freed(r, pkt, src)
  BY <1>1, <1>2 DEF PktAdd
<1>4. /\ InOrder(r)
      /\ pkt.socket = IF src THEN r.socket ELSE Reverse(r.socket)
      /\ \A q \in Chained(r) : q.id < pkt.id
  BY <1>1, NewestPacket DEF Chains, Lookup, PktAdd
<1> HIDE DEF k, r, a
<1>5. CASE k \in Dropping
  <2>1. k # "http"
    BY <1>5 DEF Dropping
  <2>2. Freed(r, pkt, src) = {pkt} \cup Chained(r)
    BY <1>5, <2>1 DEF Freed, k, r
  <2> QED
    BY <1>1, <1>3, <1>5, <2>2, EmptiedRecord DEF k, r, a
<1>6. CASE k = "syn_again"
  <2>1. k \notin Dropping
    BY <1>6 DEF Dropping
  <2>2. Freed(r, pkt, src) = {pkt} \cup Chained(r)
    BY <1>6 DEF Freed, k, r
  <2>3. a.pkt_src = <<>> /\ a.pkt_dst = <<>> /\ a \in FlowRecords /\ a.socket = r.socket
    BY <1>1, <1>3, <1>6, <2>1, Adding DEF k, r
  <2>4. Chained(a) = {} /\ InOrder(a)
    BY <2>3, EmptySeq DEF Chained, InOrder
  <2> QED
    BY <1>3, <2>2, <2>3, <2>4 DEF k, r, a
<1>7. CASE k = "http"
  <2>1. k \notin Dropping
    BY <1>7 DEF Dropping
  <2>2. Freed(r, pkt, src) = {}
    BY <1>7 DEF Freed, k, r, Dropping
  <2>3. /\ a \in FlowRecords /\ a.socket = r.socket
        /\ a.pkt_src = IF src THEN Append(r.pkt_src, pkt) ELSE r.pkt_src
        /\ a.pkt_dst = IF src THEN r.pkt_dst ELSE Append(r.pkt_dst, pkt)
    BY <1>1, <1>3, <1>7, <2>1, Adding DEF k, r
  <2>4. InOrder(a) /\ Chained(a) = Chained(r) \cup {pkt}
    BY <1>1, <1>4, <2>3, AppendInOrder
  <2> QED
    BY <1>3, <2>2, <2>3, <2>4 DEF k, r, a
<1>8. CASE k \notin Dropping \cup {"syn_again", "http"}
  <2>1. Freed(r, pkt, src) = {pkt}
    BY <1>8 DEF Freed, k, r
  <2>2. /\ a \in FlowRecords /\ a.socket = r.socket
        /\ a.pkt_src = r.pkt_src /\ a.pkt_dst = r.pkt_dst
    BY <1>1, <1>3, <1>8, Adding DEF k, r
  <2>3. Chained(a) = Chained(r) /\ InOrder(a)
    BY <1>4, <2>2 DEF Chained, InOrder
  <2> QED
    BY <1>3, <2>1, <2>2, <2>3 DEF k, r, a
<1> QED
  BY <1>5, <1>6, <1>7, <1>8

\* The packets of a record were captured.
LEMMA ChainedPackets ==
  ASSUME NEW r \in FlowRecords
  PROVE  Chained(r) \subseteq Packets
BY ElementOfSeq, LenProperties DEF Chained, FlowRecords

\* The type invariant is inductive, given what the threads hold.
LEMMA TypeNext ==
  ASSUME IInv, Next
  PROVE  TypeOK'
<1> USE DEF IInv
<1>1. trace' = trace /\ Packets' = Packets /\ FlowRecords' = FlowRecords
  BY Frames DEF Packets, FlowRecords
<1>2. /\ TypeOK /\ Len(trace) \in Nat /\ DOMAIN trace = 1 .. Len(trace)
      /\ \A i \in DOMAIN trace : trace[i] \in Packets
  BY TracePackets
<1>3. captured' \in 0 .. Len(trace) /\ pktq' \in Seq(Packets)
  <2>1. CASE Capture
    <3>1. captured \in Nat /\ captured < Len(trace) /\ captured' = captured + 1
      BY <1>2, <2>1 DEF Capture, TypeOK
    <3>2. captured + 1 \in 1 .. Len(trace)
      BY <1>2, <3>1
    <3>3. pktq' = Append(pktq, trace[captured + 1])
      BY <2>1 DEF Capture
    <3>4. trace[captured + 1] \in Packets
      BY <1>2, <3>2
    <3>5. pktq' \in Seq(Packets)
      BY <3>3, <3>4, AppendProperties DEF TypeOK
    <3>6. captured' \in 0 .. Len(trace)
      BY <1>2, <3>1
    <3> QED
      BY <3>5, <3>6
  <2>2. CASE PktDeq
    <3>1. captured' = captured
      BY <2>2 DEF PktDeq
    <3>2. CASE pktq = <<>>
      BY <2>2, <3>1, <3>2 DEF PktDeq, TypeOK
    <3>3. CASE pktq # <<>>
      BY <2>2, <3>1, <3>3, HeadTailProperties DEF PktDeq, TypeOK
    <3> QED
      BY <3>2, <3>3
  <2>3. CASE UNCHANGED <<captured, pktq>>
    BY <2>3 DEF TypeOK
  <2> QED
    BY <2>1, <2>2, <2>3, Frames
<1>4. cap_fin' \in BOOLEAN
  BY Frames DEF CaptureEnds, TypeOK
<1>5. flowq' \in Seq(Flows) /\ flow' \in Flows \cup {None}
  <2>1. flowq \in Seq(Flows)
    BY DEF TypeOK
  <2>2. CASE FlowDeq
    <3>1. CASE flowq = <<>>
      BY <2>1, <2>2, <3>1 DEF FlowDeq, TypeOK
    <3>2. CASE flowq # <<>>
      <4>1. Head(flowq) \in Flows /\ Tail(flowq) \in Seq(Flows)
        BY <2>1, <3>2, HeadTailProperties
      <4> QED
        BY <2>2, <3>2, <4>1 DEF FlowDeq
    <3> QED
      BY <3>1, <3>2
  <2>3. flowq' \in Seq(Flows) \/ FlowDeq
    <3>1. CASE PktAdd
      <4>1. cur \in Flows
        BY <3>1, AddedPacket DEF PktAdd
      <4> QED
        BY <2>1, <3>1, <4>1, AppendProperties DEF PktAdd
    <3>2. CASE ScrubFlow
      <4>1. PICK f \in todo : flowq' = Append(flowq, f) \/ flowq' = flowq
        BY <3>2 DEF ScrubFlow
      <4>2. f \in Flows
        BY <4>1 DEF TypeOK
      <4> QED
        BY <2>1, <4>1, <4>2, AppendProperties
    <3> QED
      BY <2>1, <3>1, <3>2, Frames
  <2>4. flow' \in Flows \cup {None} \/ FlowDeq
    BY Frames DEF FlowCheck, FlowSave, FlowFree, TypeOK
  <2> QED
    BY <2>2, <2>3, <2>4
<1>6. live' \subseteq Flows /\ table' \subseteq Flows
  BY Frames DEF PktNew, PktAdd, FlowFree, ScrubFlow, TypeOK
<1>7. rec' \in [Flows -> FlowRecords]
  <2>1. rec \in [Flows -> FlowRecords]
    BY DEF TypeOK
  <2>2. CASE PktNew
    <3>1. pkt \in Packets
      BY <2>2 DEF PktNew, Holding, TypeOK
    <3>2. NewFlow(pkt.socket) \in FlowRecords
      BY <1>2, <3>1, TracePackets, NewRecord
    <3> QED
      BY <2>1, <2>2, <3>2 DEF PktNew
  <2>3. CASE PktAdd
    BY <2>1, <2>3, AddEffect, AddedPacket
  <2>4. CASE ScrubFlow
    <3>1. PICK f \in todo : rec' = [rec EXCEPT ![f].close = "forced"] \/ rec' = rec
      BY <2>4 DEF ScrubFlow
    <3>2. f \in Flows
      BY <3>1 DEF TypeOK
    <3>3. [rec[f] EXCEPT !.close = "forced"] \in FlowRecords
      BY <2>1, <3>2, ForcedRecord
    <3> QED
      BY <2>1, <3>1, <3>2, <3>3
  <2>5. CASE FlowFree
    <3>1. flow \in Flows
      BY <2>5 DEF FlowFree, Holding, TypeOK
    <3>2. Emptied(rec[flow]) \in FlowRecords
      BY <2>1, <3>1, EmptiedRecord
    <3> QED
      BY <2>1, <2>5, <3>1, <3>2 DEF FlowFree
  <2> QED
    BY <2>1, <2>2, <2>3, <2>4, <2>5, Frames
<1>8. idle' \in [Flows -> 0 .. Timeout + 1]
  <2>1. idle \in [Flows -> 0 .. Timeout + 1] /\ Timeout \in Nat
    BY SnifferAssumption DEF TypeOK
  <2>2. CASE Tick
    <3>1. \A f \in Flows : idle[f] <= Timeout => idle[f] + 1 \in 0 .. Timeout + 1
      BY <2>1
    <3> QED
      BY <2>1, <2>2, <3>1 DEF Tick
  <2>3. CASE PktNew
    <3>1. Timeout + 1 \in 0 .. Timeout + 1
      BY <2>1
    <3> QED
      BY <2>1, <2>3, <3>1 DEF PktNew
  <2>4. CASE PktAdd
    <3>1. 0 \in 0 .. Timeout + 1
      BY <2>1
    <3> QED
      BY <2>1, <2>4, <3>1 DEF PktAdd
  <2> QED
    BY <2>1, <2>2, <2>3, <2>4, Frames
<1>9. lock' \in [Buckets -> {None, "packet", "scrub"}]
  <2>1. lock \in [Buckets -> {None, "packet", "scrub"}]
    BY DEF TypeOK
  <2> QED
    BY <2>1, Frames DEF PktLock, PktUnlock, ScrubLock, ScrubUnlock
<1>10. /\ pkt_pc' \in {"deq", "check", "find_reverse", "find", "new", "add_lock", "add",
                       "add_unlock", "done"}
       /\ pkt' \in Packets \cup {None}
  <2>1. pktq \in Seq(Packets) /\ (pktq # <<>> => Head(pktq) \in Packets)
    BY HeadTailProperties DEF TypeOK
  <2> QED
    BY <2>1, Frames DEF PktDeq, PktCheck, PktFindReverse, PktFind, PktNew, PktLock,
         PktAdd, PktUnlock, TypeOK
<1>11. cur' \in Flows \cup {None} /\ src' \in BOOLEAN
  BY Frames DEF PktDeq, PktCheck, PktFindReverse, PktFind, PktNew, PktLock, PktAdd,
       PktUnlock, TypeOK
<1>12. /\ scrub_pc' \in {"sleep", "next", "scan", "done"}
       /\ timeout' \in {-1, Timeout} /\ bucket' \subseteq Buckets /\ todo' \subseteq Flows
  BY Frames DEF ScrubWake, ScrubLock, ScrubFlow, ScrubUnlock, ScrubPassEnds, InBucket,
       TypeOK
<1>13. flow_pc' \in {"deq", "check", "save", "free", "done"}
  BY Frames DEF FlowDeq, FlowCheck, FlowSave, FlowFree, TypeOK
<1>14. freed' \subseteq Packets
  <2>1. CASE PktFind
    <3>1. pkt \in Packets
      BY <2>1 DEF PktFind, Holding, TypeOK
    <3> QED
      BY <2>1, <3>1 DEF PktFind, TypeOK
  <2>2. CASE PktAdd
    BY <2>2, AddEffect, AddedPacket, ChainedPackets DEF PktAdd, TypeOK
  <2>3. CASE FlowFree
    <3>1. flow \in Flows
      BY <2>3 DEF FlowFree, Holding, TypeOK
    <3> QED
      BY <2>3, <3>1, ChainedPackets DEF FlowFree, TypeOK
  <2> QED
    BY <2>1, <2>2, <2>3, Frames DEF TypeOK
<1>15. fault' \in {"none", "unlinked_twice", "unlock_after_free", "add_after_free"}
  BY Frames DEF PktUnlinkTwice, PktUseAfterFree, TypeOK
<1>16. trace \in Traces
  BY DEF TypeOK
<1> QED
  BY <1>1, <1>3, <1>4, <1>5, <1>6, <1>7, <1>8, <1>9, <1>10, <1>11, <1>12, <1>13,
     <1>14, <1>15, <1>16 DEF TypeOK

\* The program counters say what the threads hold.
LEMMA HoldingNext ==
  ASSUME IInv, Next
  PROVE  Holding'
<1> USE DEF IInv
<1>1. None \notin Flows /\ None \notin Packets
  BY SnifferAssumption, TracePackets
<1>2. /\ pkt' # None <=> pkt_pc' \in {"find_reverse", "find", "new", "add_lock", "add"}
      /\ cur' # None <=> pkt_pc' \in {"add_lock", "add", "add_unlock"}
  <2>1. CASE UNCHANGED <<pkt_pc, pkt, cur, src>>
    BY <2>1 DEF Holding
  <2>2. CASE PktDeq
    <3>1. pktq \in Seq(Packets) /\ (pktq # <<>> => Head(pktq) \in Packets)
      BY HeadTailProperties DEF TypeOK
    <3> QED
      BY <1>1, <2>2, <3>1 DEF PktDeq, Holding
  <2>3. CASE PktCheck \/ PktLock \/ PktUnlock
    BY <2>3 DEF PktCheck, PktLock, PktUnlock, Holding
  <2>4. CASE PktFindReverse \/ PktFind
    BY <1>1, <2>4 DEF PktFindReverse, PktFind, Holding
  <2>5. CASE PktNew \/ PktAdd
    BY <1>1, <2>5 DEF PktNew, PktAdd, Holding
  <2> QED
    BY <2>1, <2>2, <2>3, <2>4, <2>5, Frames
<1>3. flow' # None <=> flow_pc' \in {"save", "free"}
  <2>1. CASE FlowDeq
    <3>1. flowq \in Seq(Flows) /\ (flowq # <<>> => Head(flowq) \in Flows)
      BY HeadTailProperties DEF TypeOK
    <3> QED
      BY <1>1, <2>1, <3>1 DEF FlowDeq, Holding
  <2>2. CASE FlowCheck \/ FlowSave \/ FlowFree
    BY <2>2 DEF FlowCheck, FlowSave, FlowFree, Holding
  <2> QED
    BY <2>1, <2>2, Frames DEF Holding
<1> QED
  BY <1>2, <1>3 DEF Holding

\* The packet queue stays the part of the trace that is captured and not taken.
LEMMA ArrivalNext ==
  ASSUME IInv, Next
  PROVE  /\ Arrival'
         /\ Taken \in Nat /\ Taken' \in Nat
         /\ Taken' = Taken \/ (PktDeq /\ pkt = None /\ pkt' # None /\ Taken' = Taken + 1)
<1> USE DEF IInv
<1> DEFINE n == Len(pktq)
<1>1. /\ captured \in Nat /\ n \in Nat /\ n <= captured
      /\ pktq \in Seq(Packets) /\ DOMAIN pktq = 1 .. n
  BY TracePackets, LenProperties DEF TypeOK, Arrival
<1>2. Taken = captured - n /\ Taken \in Nat
  BY <1>1 DEF Taken
<1>3. trace' = trace
  BY Frames
<1>4. CASE Capture
  <2>1. /\ captured' = captured + 1 /\ pktq' = Append(pktq, trace[captured + 1])
        /\ pkt' = pkt
    BY <1>4 DEF Capture, worker
  <2>2. trace[captured + 1] \in Packets
    <3>1. captured + 1 \in DOMAIN trace
      BY <1>1, <1>4, TracePackets DEF Capture
    <3> QED
      BY <3>1, TracePackets
  <2>3. /\ Len(pktq') = n + 1 /\ pktq' \in Seq(Packets)
        /\ \A i \in 1 .. n : pktq'[i] = pktq[i]
        /\ pktq'[n + 1] = trace[captured + 1]
    BY <1>1, <2>1, <2>2, AppendProperties
  <2>4. Taken' = Taken /\ DOMAIN pktq' = 1 .. n + 1
    BY <1>1, <1>2, <2>1, <2>3, LenProperties DEF Taken
  <2>5. Taken + (n + 1) = captured + 1
    BY <1>1, <1>2
  <2>6. \A i \in 1 .. n + 1 : pktq'[i] = trace[Taken + i]
    <3> TAKE i \in 1 .. n + 1
    <3>1. CASE i = n + 1
      BY <2>3, <2>5, <3>1
    <3>2. CASE i \in 1 .. n
      BY <1>1, <2>3, <3>2 DEF Arrival
    <3> QED
      BY <1>1, <3>1, <3>2
  <2>7. Len(pktq') <= captured'
    BY <1>1, <2>1, <2>3
  <2> QED
    BY <1>2, <1>3, <2>1, <2>4, <2>6, <2>7 DEF Arrival
<1>5. CASE PktDeq /\ pktq # <<>>
  <2>1. pkt' = Head(pktq) /\ pktq' = Tail(pktq) /\ captured' = captured /\ pkt = None
    BY <1>5 DEF PktDeq, Holding
  <2>2. n \in Nat \ {0}
    BY <1>1, <1>5, EmptySeq
  <2>3. /\ pkt' = pktq[1] /\ pktq' \in Seq(Packets) /\ Len(pktq') = n - 1
        /\ \A i \in 1 .. n - 1 : pktq'[i] = pktq[i + 1]
        /\ pkt' \in Packets
    BY <1>1, <1>5, <2>1, HeadTailProperties
  <2>4. /\ Taken' = Taken + 1 /\ DOMAIN pktq' = 1 .. n - 1
        /\ n - 1 <= captured /\ 1 \in 1 .. n
    BY <1>1, <1>2, <2>1, <2>2, <2>3, LenProperties DEF Taken
  <2>5. \A i \in 1 .. n - 1 : pktq'[i] = trace[Taken' + i]
    <3> TAKE i \in 1 .. n - 1
    <3>1. i + 1 \in 1 .. n /\ Taken + (i + 1) = Taken' + i
      BY <1>2, <2>2, <2>4
    <3>2. pktq[i + 1] = trace[Taken + (i + 1)]
      BY <1>1, <3>1 DEF Arrival
    <3> QED
      BY <2>3, <3>1, <3>2
  <2>6. pkt' = trace[Taken'] /\ Taken' > 0
    BY <1>1, <1>2, <2>3, <2>4 DEF Arrival
  <2>7. pkt' # None
    BY <2>3, TracePackets
  <2> QED
    BY <1>2, <1>3, <1>5, <2>1, <2>3, <2>4, <2>5, <2>6, <2>7 DEF Arrival
<1>6. CASE /\ UNCHANGED <<captured, pktq>>
           /\ pkt' = pkt \/ pkt' = None
  BY <1>2, <1>3, <1>6 DEF Arrival, Taken
<1>7. pkt' = pkt \/ pkt' = None \/ (PktDeq /\ pktq # <<>>)
  BY Frames DEF PktDeq, PktCheck, PktFindReverse, PktFind, PktNew, PktLock, PktAdd,
       PktUnlock
<1>8. PktDeq /\ pktq = <<>> => UNCHANGED <<captured, pktq>>
  BY DEF PktDeq
<1> QED
  BY <1>4, <1>5, <1>6, <1>7, <1>8, Frames

\* A record keeps its socket until its memory is used again.
LEMMA SocketsStay ==
  ASSUME IInv, Next, NEW f \in Flows
  PROVE  \/ rec'[f].socket = rec[f].socket
         \/ PktNew /\ f \notin live
<1> USE DEF IInv
<1>1. rec \in [Flows -> FlowRecords] /\ rec[f] \in FlowRecords
  BY DEF TypeOK
<1>2. CASE PktAdd
  BY <1>1, <1>2, AddEffect
<1>3. CASE ScrubFlow
  <2>1. PICK g \in todo : rec' = [rec EXCEPT ![g].close = "forced"] \/ rec' = rec
    BY <1>3 DEF ScrubFlow
  <2>2. CASE rec' = [rec EXCEPT ![g].close = "forced"] /\ f = g
    BY <1>1, <2>2, ForcedRecord
  <2> QED
    BY <1>1, <2>1, <2>2
<1>4. CASE FlowFree
  BY <1>1, <1>4, EmptiedRecord DEF FlowFree
<1>5. CASE PktNew
  BY <1>1, <1>5 DEF PktNew
<1> QED
  BY <1>2, <1>3, <1>4, <1>5, Frames

\* Only the packet worker adds flows, when it knows the connection has none.
LEMMA TableShrinks ==
  ASSUME IInv, Next, ~ PktNew
  PROVE  table' \subseteq table /\ \A f \in table : rec'[f].socket = rec[f].socket
<1>1. table \subseteq Flows
  BY DEF IInv, TypeOK
<1>2. table' \subseteq table
  BY Frames DEF PktAdd, ScrubFlow
<1> QED
  BY <1>1, <1>2, SocketsStay

\* A flow that is made is linked for the connection of its packet.
LEMMA NewInTable ==
  ASSUME IInv, PktNew
  PROVE  /\ pkt.socket \in Sockets
         /\ cur' \in Flows \ live /\ cur' \notin table
         /\ table' = table \cup {cur'}
         /\ rec'[cur'].socket = pkt.socket
         /\ \A f \in table : rec'[f] = rec[f]
         /\ pkt' = pkt /\ src' = TRUE /\ pkt_pc' = "add_lock"
<1> USE DEF IInv
<1>1. PICK f \in Flows \ live :
        /\ rec' = [rec EXCEPT ![f] = NewFlow(pkt.socket)]
        /\ table' = table \cup {f} /\ cur' = f
  BY DEF PktNew
<1>2. pkt' = pkt /\ src' = TRUE /\ pkt_pc' = "add_lock"
  BY DEF PktNew
<1>3. pkt.socket \in Sockets
  BY TracePackets DEF PktNew, Holding, TypeOK
<1>4. f \notin table /\ rec \in [Flows -> FlowRecords] /\ table \subseteq Flows
  BY <1>1, Places DEF TypeOK
<1>5. NewFlow(pkt.socket).socket = pkt.socket
  BY DEF NewFlow
<1> QED
  BY <1>1, <1>2, <1>3, <1>4, <1>5

\* A connection has one flow in the table.
LEMMA UniqueNext ==
  ASSUME IInv, Next
  PROVE  UniqueConnection'
<1> USE DEF IInv
<1>1. CASE ~ PktNew
  BY <1>1, TableShrinks DEF UniqueConnection
<1>2. CASE PktNew
  <2> DEFINE s == pkt.socket
  <2>1. \A f \in table : rec[f].socket # s /\ rec[f].socket # Reverse(s)
    BY <1>2 DEF PktNew, Lookup, NotFound
  <2>2. \A f \in table : rec[f].socket \in Sockets
    BY DEF Lookup
  <2>3. \A f \in table : s # Reverse(rec[f].socket)
    BY <2>1, <2>2, SnifferAssumption
  <2>4. /\ table' = table \cup {cur'} /\ rec'[cur'].socket = s
        /\ \A f \in table : rec'[f].socket = rec[f].socket
    BY <1>2, NewInTable
  <2> HIDE DEF s
  <2> QED
    BY <2>1, <2>3, <2>4 DEF UniqueConnection
<1> QED
  BY <1>1, <1>2

\* What a lookup said stays true until the packet worker acts on it.
LEMMA LookupNext ==
  ASSUME IInv, Next
  PROVE  Lookup'
<1> USE DEF IInv
<1>1. CASE PktNew
  <2>1. cur' # None /\ \A f \in table : rec[f].socket \in Sockets
    BY <1>1, NewInTable, SnifferAssumption DEF Lookup
  <2> QED
    BY <1>1, <2>1, NewInTable DEF Lookup
<1>2. CASE ~ PktNew
  <2>1. /\ table' \subseteq table
        /\ \A f \in table : rec'[f].socket = rec[f].socket
        /\ \A f \in Flows : rec'[f].socket = rec[f].socket
    BY <1>2, TableShrinks, SocketsStay
  <2>2. table \subseteq Flows /\ cur \in Flows \cup {None}
    BY DEF TypeOK
  <2>4. CASE UNCHANGED <<pkt_pc, pkt, cur, src>>
    <3>1. pkt_pc \in {"add_lock", "add"} => cur \in Flows
      BY AddedPacket
    <3>2. \A f \in table' \cup ({cur'} \ {None}) : rec'[f].socket \in Sockets
      BY <2>1, <2>2, <2>4 DEF Lookup
    <3>3. pkt_pc' \in {"add_lock", "add"} =>
            pkt'.socket = IF src' THEN rec'[cur'].socket ELSE Reverse(rec'[cur'].socket)
      BY <2>1, <2>4, <3>1 DEF Lookup
    <3>4. /\ pkt_pc' \in {"find", "new"} =>
               \A f \in table' : rec'[f].socket # Reverse(pkt'.socket)
          /\ pkt_pc' = "new" => \A f \in table' : rec'[f].socket # pkt'.socket
      BY <2>1, <2>4 DEF Lookup, NotFound
    <3> QED
      BY <3>2, <3>3, <3>4 DEF Lookup, NotFound
  <2>5. CASE PktDeq \/ PktCheck
    <3>1. cur' = cur /\ pkt_pc' \notin {"find", "new", "add_lock", "add"}
      BY <2>5 DEF PktDeq, PktCheck
    <3> QED
      BY <2>1, <2>2, <3>1 DEF Lookup
  <2>6. CASE PktFindReverse
    <3>1. CASE pkt_pc' = "find"
      <4>1. /\ NotFound(Reverse(pkt.socket)) /\ UNCHANGED <<pkt, cur, table, rec>>
        BY <2>6, <3>1 DEF PktFindReverse, objects
      <4> QED
        BY <3>1, <4>1 DEF Lookup, NotFound
    <3>2. CASE pkt_pc' = "add_lock"
      <4>1. /\ cur' \in table /\ rec[cur'].socket = Reverse(pkt.socket) /\ src' = FALSE
            /\ UNCHANGED <<pkt, table, rec>>
        BY <2>6, <3>2 DEF PktFindReverse, objects, Found
      <4>2. pkt.socket \in Sockets
        BY <2>6, TracePackets DEF PktFindReverse, Holding, TypeOK
      <4> QED
        BY <3>2, <4>1, <4>2, SnifferAssumption DEF Lookup
    <3> QED
      BY <2>6, <3>1, <3>2 DEF PktFindReverse
  <2>7. CASE PktFind
    <3>1. UNCHANGED <<table, rec>>
      BY <2>7 DEF PktFind, objects
    <3>2. CASE pkt_pc' = "new"
      <4>1. NotFound(pkt.socket) /\ NotFound(Reverse(pkt.socket)) /\ UNCHANGED <<pkt, cur>>
        BY <2>7, <3>2 DEF PktFind, Lookup
      <4> QED
        BY <3>1, <3>2, <4>1 DEF Lookup, NotFound
    <3>3. CASE pkt_pc' = "add_lock"
      <4>1. cur' \in table /\ rec[cur'].socket = pkt.socket /\ src' = TRUE /\ pkt' = pkt
        BY <2>7, <3>3 DEF PktFind, Found
      <4> QED
        BY <3>1, <3>3, <4>1 DEF Lookup
    <3>4. CASE pkt_pc' = "deq"
      <4>1. cur' = cur
        BY <2>7, <3>4 DEF PktFind
      <4> QED
        BY <3>1, <3>4, <4>1 DEF Lookup
    <3> QED
      BY <2>7, <3>2, <3>3, <3>4 DEF PktFind
  <2>8. CASE PktLock
    <3>1. UNCHANGED <<pkt, cur, src, table, rec>> /\ pkt_pc = "add_lock" /\ pkt_pc' = "add"
      BY <2>8 DEF PktLock, objects
    <3> QED
      BY <3>1 DEF Lookup
  <2>9. CASE PktAdd
    <3>1. cur' = cur /\ pkt_pc' = "add_unlock"
      BY <2>9 DEF PktAdd
    <3> QED
      BY <2>1, <2>2, <3>1 DEF Lookup
  <2>10. CASE PktUnlock
    <3>1. cur' = None /\ pkt_pc' = "deq"
      BY <2>10 DEF PktUnlock
    <3> QED
      BY <2>1, <3>1 DEF Lookup
  <2> QED
    BY <1>2, <2>4, <2>5, <2>6, <2>7, <2>8, <2>9, <2>10, Frames
<1> QED
  BY <1>1, <1>2

\* A flow leaves the table by the scrubber's hand, marked, or by the packet
\* worker's, which then turns to the next packet.
LEMMA StaleNext ==
  ASSUME IInv, Next
  PROVE  StaleOnlyIfForced'
<1> USE DEF IInv
<1>1. CASE UNCHANGED <<pkt_pc, pkt, cur, src>>
  <2>1. SUFFICES ASSUME pkt_pc \in {"add_lock", "add"}, cur \notin table'
                 PROVE  rec'[cur].close = "forced"
    BY <1>1 DEF StaleOnlyIfForced
  <2>2. cur \in Flows /\ rec \in [Flows -> FlowRecords] /\ rec[cur] \in FlowRecords
    BY <2>1, AddedPacket DEF TypeOK
  <2>3. ~ PktNew /\ ~ PktAdd
    BY <1>1, <2>1 DEF PktNew, PktAdd
  <2>4. CASE ScrubFlow
    <3>1. PICK f \in todo :
            IF TooIdle(f)
              THEN /\ rec' = [rec EXCEPT ![f].close = "forced"] /\ table' = table \ {f}
              ELSE UNCHANGED <<rec, table>>
      BY <2>4 DEF ScrubFlow
    <3>2. f \in Flows /\ rec[f] \in FlowRecords
      BY <3>1 DEF TypeOK
    <3>3. CASE TooIdle(f) /\ f = cur
      BY <2>2, <3>1, <3>2, <3>3, ForcedRecord
    <3>4. CASE ~ (TooIdle(f) /\ f = cur)
      <4>1. cur \notin table /\ rec'[cur] = rec[cur]
        BY <2>1, <2>2, <3>1, <3>2, <3>4
      <4> QED
        BY <2>1, <4>1 DEF StaleOnlyIfForced
    <3> QED
      BY <3>3, <3>4
  <2>5. CASE FlowFree
    <3>1. table' = table
      BY <2>5 DEF FlowFree
    <3>2. rec' = [rec EXCEPT ![flow] = Emptied(rec[flow])]
      BY <2>5 DEF FlowFree
    <3>3. rec'[cur].close = rec[cur].close
      BY <2>2, <3>2, EmptiedRecord
    <3> QED
      BY <2>1, <3>1, <3>3 DEF StaleOnlyIfForced
  <2>6. CASE UNCHANGED <<table, rec>>
    BY <2>1, <2>6 DEF StaleOnlyIfForced
  <2> QED
    BY <2>3, <2>4, <2>5, <2>6, Frames DEF FlowFree
<1>2. CASE PktDeq \/ PktCheck \/ PktAdd \/ PktUnlock
  BY <1>2 DEF PktDeq, PktCheck, PktAdd, PktUnlock, StaleOnlyIfForced
<1>3. CASE PktFindReverse \/ PktFind
  <2>1. table' = table /\ (pkt_pc' = "add_lock" => cur' \in table) /\ pkt_pc' # "add"
    BY <1>3 DEF PktFindReverse, PktFind, Found, objects
  <2> QED
    BY <2>1 DEF StaleOnlyIfForced
<1>4. CASE PktNew
  <2>1. cur' \in table'
    BY <1>4, NewInTable
  <2> QED
    BY <2>1 DEF StaleOnlyIfForced
<1>5. CASE PktLock
  BY <1>5 DEF PktLock, objects, StaleOnlyIfForced
<1> QED
  BY <1>1, <1>2, <1>3, <1>4, <1>5, Frames

\* The bucket the scrubber has reached is the one whose mutex it took.
LEMMA LowestBucket ==
  ASSUME TypeOK, NEW b, NEW c, Lowest(b), Lowest(c)
  PROVE  b = c
<1>1. b \in Nat /\ c \in Nat /\ b <= c /\ c <= b
  BY SnifferAssumption DEF TypeOK, Lowest
<1> QED
  BY <1>1

\* Who adds to a flow, and who walks a bucket, keeps its mutex.
LEMMA LockingNext ==
  ASSUME IInv, Next
  PROVE  Locking'
<1> USE DEF IInv
<1>1. lock \in [Buckets -> {None, "packet", "scrub"}] /\ None \notin {"packet", "scrub"}
  BY SnifferAssumption DEF TypeOK
<1>2. ASSUME pkt_pc' \in {"add", "add_unlock"}
      PROVE  lock'[Home(cur)'] = "packet"
  <2>1. CASE PktLock
    <3>1. Home(cur) \in Buckets
      BY <2>1, AddedPacket DEF PktLock
    <3>2. Home(cur)' = Home(cur)
      BY <2>1 DEF PktLock, objects, Home
    <3>3. lock' = [lock EXCEPT ![Home(cur)] = "packet"]
      BY <2>1 DEF PktLock
    <3> QED
      BY <1>1, <3>1, <3>2, <3>3
  <2>2. CASE PktAdd
    <3>1. Home(cur)' = Home(cur)
      BY <2>2, AddEffect DEF PktAdd, Home
    <3>2. lock' = lock
      BY <2>2 DEF PktAdd
    <3> QED
      BY <2>2, <3>1, <3>2 DEF PktAdd, Locking
  <2>3. CASE UNCHANGED <<pkt_pc, pkt, cur, src>>
    <3>1. cur \in Flows
      BY <1>2, <2>3 DEF Holding, TypeOK
    <3>2. Home(cur)' = Home(cur)
      <4>1. ~ PktNew
        BY <2>3 DEF PktNew
      <4> QED
        BY <2>3, <3>1, <4>1, SocketsStay DEF Home
    <3>3. lock[Home(cur)] = "packet"
      BY <1>2, <2>3 DEF Locking
    <3>4. CASE ScrubLock
      <4>1. PICK b : lock[b] = None /\ lock' = [lock EXCEPT ![b] = "scrub"]
        BY <3>4 DEF ScrubLock
      <4> QED
        BY <1>1, <3>2, <3>3, <4>1
    <3>5. CASE ScrubUnlock
      <4>1. PICK b : Lowest(b) /\ lock' = [lock EXCEPT ![b] = None]
        BY <3>5 DEF ScrubUnlock, Lowest
      <4>2. lock[b] = "scrub"
        BY <3>5, <4>1, LowestBucket DEF ScrubUnlock, Locking
      <4> QED
        BY <1>1, <3>2, <3>3, <4>1, <4>2
    <3>6. lock' = lock \/ ScrubLock \/ ScrubUnlock
      BY <1>2, <2>3, Frames DEF PktLock, PktUnlock
    <3> QED
      BY <3>2, <3>3, <3>4, <3>5, <3>6
  <2>4. PktLock \/ PktAdd \/ UNCHANGED <<pkt_pc, pkt, cur, src>>
    BY <1>2, Frames DEF PktDeq, PktCheck, PktFindReverse, PktFind, PktNew, PktUnlock
  <2> QED
    BY <2>1, <2>2, <2>3, <2>4
<1>3. ASSUME scrub_pc' = "scan"
      PROVE  \E b \in Buckets : /\ Lowest(b)' /\ lock'[b] = "scrub"
                                /\ todo' \subseteq InBucket(b)'
  <2>1. CASE ScrubLock
    <3>1. PICK b \in bucket : /\ \A c \in bucket : b <= c
                              /\ lock' = [lock EXCEPT ![b] = "scrub"]
                              /\ todo' = InBucket(b)
      BY <2>1 DEF ScrubLock
    <3>2. b \in Buckets /\ lock'[b] = "scrub"
      BY <1>1, <3>1 DEF TypeOK
    <3>3. bucket' = bucket /\ InBucket(b)' = InBucket(b)
      BY <2>1 DEF ScrubLock, objects, InBucket, Home
    <3> QED
      BY <3>1, <3>2, <3>3 DEF Lowest
  <2>2. CASE ScrubFlow
    <3>1. PICK b \in Buckets : Lowest(b) /\ lock[b] = "scrub" /\ todo \subseteq InBucket(b)
      BY <2>2 DEF ScrubFlow, Locking
    <3>2. PICK f \in todo : todo' = todo \ {f} /\ (table' = table \ {f} \/ table' = table)
      BY <2>2 DEF ScrubFlow
    <3>3. bucket' = bucket /\ lock' = lock
      BY <2>2 DEF ScrubFlow
    <3>4. \A g \in table : rec'[g].socket = rec[g].socket
      <4>1. ~ PktNew
        BY <2>2 DEF ScrubFlow, PktNew, worker
      <4> QED
        BY <4>1, TableShrinks
    <3>5. todo' \subseteq InBucket(b)'
      BY <3>1, <3>2, <3>4 DEF InBucket, Home
    <3> QED
      BY <3>1, <3>3, <3>5 DEF Lowest
  <2>3. CASE UNCHANGED <<scrub_pc, timeout, bucket, todo>>
    <3>1. PICK b \in Buckets : Lowest(b) /\ lock[b] = "scrub" /\ todo \subseteq InBucket(b)
      BY <1>3, <2>3 DEF Locking
    <3>2. lock'[b] = "scrub"
      <4>1. CASE PktLock
        <5>1. lock[Home(cur)] = None /\ lock' = [lock EXCEPT ![Home(cur)] = "packet"]
          BY <4>1 DEF PktLock
        <5> QED
          BY <1>1, <3>1, <5>1
      <4>2. CASE PktUnlock
        <5>1. lock[Home(cur)] = "packet" /\ lock' = [lock EXCEPT ![Home(cur)] = None]
          BY <4>2 DEF PktUnlock, Locking
        <5> QED
          BY <1>1, <3>1, <5>1
      <4>3. lock' = lock \/ PktLock \/ PktUnlock
        BY <1>3, <2>3, Frames DEF ScrubLock, ScrubUnlock
      <4> QED
        BY <3>1, <4>1, <4>2, <4>3
    <3>3. Lowest(b)'
      BY <2>3, <3>1 DEF Lowest
    <3>4. ASSUME NEW f \in todo PROVE f \in table' /\ Hash[rec'[f].socket] = b
      <4>1. f \in table /\ Home(f) = b /\ f \in live
        BY <3>1, Places DEF InBucket
      <4>2. CASE PktAdd
        <5>1. lock[Home(cur)] = "packet"
          BY <4>2 DEF PktAdd, Locking
        <5>2. f # cur
          BY <3>1, <4>1, <5>1
        <5>3. f \in table'
          BY <4>1, <4>2, <5>2 DEF PktAdd
        <5>4. ~ PktNew
          BY <4>2 DEF PktNew, PktAdd
        <5> QED
          BY <4>1, <5>3, <5>4, TableShrinks DEF Home
      <4>3. CASE PktNew
        BY <4>1, <4>3, NewInTable DEF Home
      <4>4. CASE ScrubFlow
        <5>1. todo' # todo
          BY <4>4 DEF ScrubFlow
        <5> QED
          BY <2>3, <5>1
      <4>5. CASE table' = table /\ ~ PktNew
        BY <4>1, <4>5, TableShrinks DEF Home
      <4> QED
        BY <4>2, <4>3, <4>4, <4>5, Frames
    <3>5. todo' \subseteq InBucket(b)'
      BY <2>3, <3>4 DEF InBucket, Home
    <3> QED
      BY <3>2, <3>3, <3>5
  <2>4. ScrubLock \/ ScrubFlow \/ UNCHANGED <<scrub_pc, timeout, bucket, todo>>
    BY <1>3, Frames DEF ScrubWake, ScrubUnlock, ScrubPassEnds
  <2> QED
    BY <2>1, <2>2, <2>3, <2>4
<1> QED
  BY <1>2, <1>3 DEF Locking

\* The packets done with only grow in number.
LEMMA DoneGrows ==
  ASSUME IInv, Next
  PROVE  /\ Done \in Int /\ Done' \in Int /\ Done <= Done'
         /\ pkt # None /\ pkt' = None => Done' = Done + 1
<1> USE DEF IInv
<1>1. /\ Taken \in Nat /\ Taken' \in Nat
      /\ Taken' = Taken \/ (PktDeq /\ pkt = None /\ pkt' # None /\ Taken' = Taken + 1)
  BY ArrivalNext
<1>2. pkt = None /\ pkt' # None => Taken' = Taken + 1
  <2>1. CASE PktDeq /\ pktq # <<>>
    <3>1. pktq' = Tail(pktq) /\ captured' = captured
      BY <2>1 DEF PktDeq
    <3>2. Len(pktq') = Len(pktq) - 1 /\ Len(pktq) \in Nat /\ captured \in Nat
      BY <2>1, <3>1, HeadTailProperties, LenProperties, TracePackets DEF TypeOK
    <3>3. Taken = captured - Len(pktq) /\ Taken' = captured' - Len(pktq')
      BY DEF Taken
    <3> QED
      BY <3>1, <3>2, <3>3
  <2>2. pkt' = pkt \/ pkt' = None \/ (PktDeq /\ pktq # <<>>)
    BY Frames DEF PktDeq, PktCheck, PktFindReverse, PktFind, PktNew, PktLock, PktAdd,
         PktUnlock
  <2> QED
    BY <2>1, <2>2
<1>3. /\ Done = IF pkt = None THEN Taken ELSE Taken - 1
      /\ Done' = IF pkt' = None THEN Taken' ELSE Taken' - 1
  BY DEF Done
<1>4. CASE pkt = None /\ pkt' # None
  BY <1>1, <1>2, <1>3, <1>4
<1>5. CASE pkt = None /\ pkt' = None
  <2>1. Taken' = Taken \/ Taken' = Taken + 1
    BY <1>1
  <2>2. Done = Taken /\ Done' = Taken'
    BY <1>3, <1>5
  <2> QED
    BY <1>1, <1>5, <2>1, <2>2
<1>6. CASE pkt # None
  <2>1. Taken' = Taken /\ Done = Taken - 1
    BY <1>1, <1>3, <1>6
  <2>2. Done' = IF pkt' = None THEN Taken ELSE Taken - 1
    BY <1>3, <2>1
  <2> QED
    BY <1>1, <2>1, <2>2
<1> QED
  BY <1>4, <1>5, <1>6

\* Chains stay apart from each other and from the packets that are freed.
LEMMA ChainsNext ==
  ASSUME IInv, Next
  PROVE  Chains'
<1> USE DEF IInv
<1>1. /\ Done \in Int /\ Done' \in Int /\ Done <= Done'
      /\ pkt # None /\ pkt' = None => Done' = Done + 1
  BY DoneGrows
<1>2. rec \in [Flows -> FlowRecords] /\ freed \subseteq Packets
  BY DEF TypeOK
<1>3. \A f \in Flows : Chained(rec[f]) \subseteq Packets
  BY <1>2, ChainedPackets
<1>4. \A p \in Packets : p.id \in Nat
  BY TracePackets
<1>5. \A p \in Packets : p.id <= Done => p.id <= Done'
  BY <1>1, <1>4
<1>6. CASE UNCHANGED <<rec, freed>>
  BY <1>2, <1>3, <1>5, <1>6 DEF Chains
<1>7. CASE PktNew
  <2>1. PICK f \in Flows : rec' = [rec EXCEPT ![f] = NewFlow(pkt.socket)]
    BY <1>7 DEF PktNew
  <2>2. pkt.socket \in Sockets /\ freed' = freed
    BY <1>7, NewInTable DEF PktNew
  <2>3. Chained(rec'[f]) = {} /\ InOrder(rec'[f])
    BY <1>2, <2>1, <2>2, NewRecord
  <2>4. \A g \in Flows \ {f} : rec'[g] = rec[g]
    BY <1>2, <2>1
  <2> QED
    BY <1>2, <1>3, <1>5, <2>2, <2>3, <2>4 DEF Chains
<1>8. CASE FlowFree
  <2>1. flow \in Flows
    BY <1>8 DEF FlowFree, Holding, TypeOK
  <2>2. /\ rec' = [rec EXCEPT ![flow] = Emptied(rec[flow])]
        /\ freed' = freed \cup Chained(rec[flow])
    BY <1>8 DEF FlowFree
  <2>3. Chained(rec'[flow]) = {} /\ InOrder(rec'[flow])
    BY <1>2, <2>1, <2>2, EmptiedRecord
  <2>4. \A g \in Flows \ {flow} : rec'[g] = rec[g]
    BY <1>2, <2>2
  <2> QED
    BY <1>2, <1>3, <1>5, <2>1, <2>2, <2>3, <2>4 DEF Chains
<1>9. CASE ScrubFlow
  <2>1. PICK f \in todo : rec' = [rec EXCEPT ![f].close = "forced"] \/ rec' = rec
    BY <1>9 DEF ScrubFlow
  <2>2. \A g \in Flows : /\ rec'[g].socket = rec[g].socket
                         /\ rec'[g].pkt_src = rec[g].pkt_src
                         /\ rec'[g].pkt_dst = rec[g].pkt_dst
    <3> TAKE g \in Flows
    <3>1. rec[g] \in FlowRecords
      BY <1>2
    <3>2. rec'[g] = rec[g] \/ rec'[g] = [rec[g] EXCEPT !.close = "forced"]
      BY <1>2, <2>1
    <3> QED
      BY <3>1, <3>2, ForcedRecord
  <2>3. \A g \in Flows : Chained(rec'[g]) = Chained(rec[g]) /\ (InOrder(rec[g]) => InOrder(rec'[g]))
    BY <2>2 DEF Chained, InOrder
  <2>4. freed' = freed
    BY <1>9 DEF ScrubFlow
  <2> QED
    BY <1>2, <1>3, <1>5, <2>3, <2>4 DEF Chains
<1>10. CASE PktFind
  <2>1. /\ rec' = rec
        /\ freed' = freed \/ (freed' = freed \cup {pkt} /\ pkt' = None)
    BY <1>10 DEF PktFind, objects
  <2>2. /\ pkt \in Packets /\ pkt # None /\ pkt.id = Done + 1
        /\ \A f \in Flows : \A q \in Chained(rec[f]) : q.id < pkt.id
    BY <1>1, <1>10, NewestPacket DEF PktFind, Holding
  <2>3. \A f \in Flows : pkt \notin Chained(rec[f])
    BY <1>4, <2>2
  <2> QED
    BY <1>1, <1>2, <1>3, <1>5, <2>1, <2>2, <2>3 DEF Chains
<1>11. CASE PktAdd
  <2> DEFINE a == rec'[cur]
  <2> DEFINE r == rec[cur]
  <2>1. cur \in Flows /\ pkt # None /\ pkt \in Packets
    BY <1>11, AddedPacket DEF PktAdd
  <2>2. pkt' = None
    BY <1>11 DEF PktAdd
  <2>3. /\ rec' = [rec EXCEPT ![cur] = a] /\ InOrder(a)
        /\ \/ Chained(a) = Chained(r) \cup {pkt} /\ freed' = freed
           \/ Chained(a) = Chained(r) /\ freed' = freed \cup {pkt}
           \/ Chained(a) = {} /\ freed' = freed \cup {pkt} \cup Chained(r)
    BY <1>11, AddEffect
  <2>4. /\ pkt.id <= Done' /\ pkt \notin freed
        /\ \A f \in Flows : \A q \in Chained(rec[f]) : q.id < pkt.id
    BY <1>1, <2>1, <2>2, NewestPacket
  <2>5. \A f \in Flows : pkt \notin Chained(rec[f])
    BY <1>4, <2>1, <2>4
  <2>6. \A g \in Flows \ {cur} : rec'[g] = rec[g]
    BY <1>2, <2>3
  <2> HIDE DEF a
  <2>7. \A f \in Flows : InOrder(rec'[f])
    BY <2>3, <2>6 DEF Chains, a
  <2>8. \A p \in freed' : p.id <= Done'
    BY <1>2, <1>3, <1>5, <2>1, <2>3, <2>4 DEF Chains
  <2>9. \A p \in Chained(a) : p.id <= Done' /\ p \notin freed'
    BY <1>3, <1>5, <2>1, <2>3, <2>4, <2>5 DEF Chains
  <2>10. ASSUME NEW g \in Flows \ {cur}
         PROVE  /\ \A p \in Chained(rec'[g]) : p.id <= Done' /\ p \notin freed'
                /\ Chained(a) \cap Chained(rec'[g]) = {}
    <3>1. rec'[g] = rec[g] /\ pkt \notin Chained(rec[g])
      BY <2>5, <2>6
    <3>2. Chained(r) \cap Chained(rec[g]) = {}
      BY <2>1 DEF Chains
    <3>3. \A p \in Chained(rec[g]) : p.id <= Done' /\ p \notin freed
      BY <1>3, <1>5 DEF Chains
    <3> QED
      BY <2>3, <3>1, <3>2, <3>3
  <2>11. \A f, g \in Flows : f # g => Chained(rec'[f]) \cap Chained(rec'[g]) = {}
    BY <2>6, <2>10 DEF Chains, a
  <2> QED
    BY <2>7, <2>8, <2>9, <2>10, <2>11 DEF Chains, a
<1> QED
  BY <1>6, <1>7, <1>8, <1>9, <1>10, <1>11, Frames

-----------------------------------------------------------------------------
\* At the start nothing is captured, made or held.
LEMMA InitIInv ==
  ASSUME Init
  PROVE  IInv
<1> USE DEF Init
<1>1. <<>> \in Seq(Packets) /\ <<>> \in Seq(Flows) /\ DOMAIN <<>> = {} /\ Len(<<>>) = 0
  BY EmptySeq
<1>2. trace \in Seq(PacketRecords)
  BY SnifferAssumption
<1>3. Len(trace) \in Nat
  BY <1>2, LenProperties
<1>4. \A f \in Flows : /\ rec[f] = NewFlow(None) /\ rec[f] \in FlowRecords
                       /\ Chained(rec[f]) = {} /\ InOrder(rec[f])
  <2>1. NewFlow(None) \in FlowRecords /\ Chained(NewFlow(None)) = {}
    BY NewRecord
  <2>2. InOrder(NewFlow(None))
    BY <1>1 DEF NewFlow, InOrder
  <2> QED
    BY <2>1, <2>2
<1>5. TypeOK
  <2>1. rec \in [Flows -> FlowRecords]
    BY <1>4
  <2>2. captured \in 0 .. Len(trace) /\ idle \in [Flows -> 0 .. Timeout + 1]
    BY <1>3, SnifferAssumption
  <2> QED
    BY <1>1, <2>1, <2>2 DEF TypeOK
<1>6. OnePlace /\ UniqueConnection /\ StaleOnlyIfForced
  BY <1>1, SnifferAssumption DEF OnePlace, UniqueConnection, StaleOnlyIfForced
<1>7. Arrival /\ Holding /\ Lookup /\ Locking
  BY <1>1 DEF Arrival, Holding, Lookup, Locking
<1>8. Chains
  BY <1>4 DEF Chains
<1> QED
  BY <1>5, <1>6, <1>7, <1>8 DEF IInv

\* Every step of every thread keeps the invariant.
LEMMA NextIInv ==
  ASSUME IInv, [Next]_vars
  PROVE  IInv'
<1>1. CASE Next
  BY <1>1, TypeNext, OnePlaceNext, UniqueNext, StaleNext, ArrivalNext, HoldingNext,
     LookupNext, LockingNext, ChainsNext DEF IInv
<1>2. CASE UNCHANGED vars
  <2>1. Packets' = Packets /\ FlowRecords' = FlowRecords /\ Taken' = Taken /\ Done' = Done
    BY <1>2 DEF vars, queues, objects, worker, Packets, FlowRecords, Taken, Done
  <2>2. \A f : Home(f)' = Home(f) /\ InBucket(f)' = InBucket(f) /\ NotFound(f)' = NotFound(f)
    BY <1>2 DEF vars, objects, Home, InBucket, NotFound
  <2> QED
    BY <1>2, <2>1, <2>2 DEF vars, queues, objects, worker, scrub, saver, IInv, TypeOK,
         OnePlace, UniqueConnection, StaleOnlyIfForced, Arrival, Holding, Lookup,
         Locking, Lowest, Chains
<1> QED
  BY <1>1, <1>2

\* IInv holds in every reachable state, whatever the threads' interleaving: the
\* locks of main.c and hash_table.c protect what each thread goes on with.
THEOREM Invariance == Spec => []IInv
<1>1. Init => IInv
  BY InitIInv
<1>2. IInv /\ [Next]_vars => IInv'
  BY NextIInv
<1> QED
  BY <1>1, <1>2, PTL DEF Spec

\* A flow that is allocated is in the table, in the flow queue or with the flow
\* worker, and in one of them only, for every capture.
THEOREM FlowsHaveOneOwner == Spec => []OnePlace
<1>1. IInv => OnePlace
  BY DEF IInv
<1> QED
  BY <1>1, Invariance, PTL

\* flow_hash_add_packet never splits a connection over two flows of the table.
THEOREM ConnectionsAreUnique == Spec => []UniqueConnection
<1>1. IInv => UniqueConnection
  BY DEF IInv
<1> QED
  BY <1>1, Invariance, PTL

\* A flow the packet worker found leaves the table under its hands only when the
\* scrubber forces it closed.
THEOREM StaleIsForced == Spec => []StaleOnlyIfForced
<1>1. IInv => StaleOnlyIfForced
  BY DEF IInv
<1> QED
  BY <1>1, Invariance, PTL

\* No packet is freed while a queue, the packet worker or a flow holds it.
THEOREM PacketsHaveOneOwner == Spec => []PacketOnePlace
<1>1. IInv => PacketOnePlace
  <2> SUFFICES ASSUME IInv PROVE PacketOnePlace
    OBVIOUS
  <2> USE DEF IInv
  <2> DEFINE Waiting == {pktq[i] : i \in DOMAIN pktq}
  <2> DEFINE Hooks == UNION {Chained(rec[f]) : f \in live}
  <2>1. live \subseteq Flows /\ freed \subseteq Packets
    BY DEF TypeOK
  <2>2. ASSUME NEW p \in Waiting
        PROVE  p \in Packets /\ p.id > Taken
    <3>1. /\ captured \in 0 .. Len(trace) /\ Len(trace) \in Nat
          /\ pktq \in Seq(Packets) /\ Len(pktq) \in Nat /\ DOMAIN pktq = 1 .. Len(pktq)
          /\ Len(pktq) <= captured
      BY TracePackets, LenProperties DEF TypeOK, Arrival
    <3>2. PICK i \in 1 .. Len(pktq) : p = pktq[i]
      BY <2>2, <3>1
    <3>3. p = trace[Taken + i]
      BY <3>1, <3>2 DEF Arrival
    <3>4. Taken + i \in 1 .. Len(trace) /\ Taken + i > Taken /\ Taken \in Int
      BY <3>1, <3>2 DEF Taken
    <3>5. p.id = Taken + i /\ p \in Packets
      BY <3>3, <3>4, TracePackets
    <3> QED
      BY <3>4, <3>5
  <2>3. Taken \in Nat /\ Done <= Taken /\ Done \in Int
    <3>1. captured \in Nat /\ Len(pktq) \in Nat /\ Len(pktq) <= captured
      BY TracePackets, LenProperties DEF TypeOK, Arrival
    <3> QED
      BY <3>1 DEF Taken, Done
  <2>4. ASSUME NEW p \in freed \cup Hooks
        PROVE  p \in Packets /\ p.id <= Done /\ p.id \in Nat
    <3>1. p \in Packets /\ p.id <= Done
      BY <2>1, <2>4, ChainedPackets DEF Chains, TypeOK
    <3> QED
      BY <3>1, TracePackets
  <2>5. pkt # None => pkt \in Packets /\ pkt.id = Taken /\ Done = Taken - 1
    BY NewestPacket
  <2>6. None \notin Packets
    BY TracePackets
  <2>7. Waiting \cap ({pkt} \cup freed \cup Hooks) = {}
    <3>1. ASSUME NEW p \in Waiting, p \in freed \cup Hooks PROVE FALSE
      BY <2>2, <2>3, <2>4, <3>1
    <3>2. ASSUME NEW p \in Waiting, p = pkt PROVE FALSE
      BY <2>2, <2>3, <2>5, <2>6, <3>2
    <3> QED
      BY <3>1, <3>2
  <2>8. pkt \notin freed \cup Hooks
    BY <2>3, <2>4, <2>5, <2>6
  <2>9. freed \cap Hooks = {}
    BY <2>1 DEF Chains
  <2>10. \A f, g \in live : f # g => Chained(rec[f]) \cap Chained(rec[g]) = {}
    BY <2>1 DEF Chains
  <2> QED
    BY <2>7, <2>8, <2>9, <2>10 DEF PacketOnePlace
<1> QED
  BY <1>1, Invariance, PTL

\* What flow_extract_http walks is the connection's packets in capture order.
THEOREM ChainsStayInOrder == Spec => []ChainsInOrder
<1>1. IInv => ChainsInOrder
  BY DEF IInv, Chains, ChainsInOrder, TypeOK
<1> QED
  BY <1>1, Invariance, PTL

\* What the packet worker closed is saved as it was closed.
THEOREM ClosedStays == Spec => ClosedIsFinal
<1>1. IInv /\ [Next]_vars =>
        [\A f \in live \ table : rec'[f] # rec[f] =>
           f \notin live' \/ rec[f].close = "forced"]_vars
  <2> SUFFICES ASSUME IInv, Next, NEW f \in live \ table, rec'[f] # rec[f], f \in live'
               PROVE  rec[f].close = "forced"
    BY DEF vars
  <2> USE DEF IInv
  <2>1. rec \in [Flows -> FlowRecords] /\ f \in Flows
    BY DEF TypeOK
  <2>2. CASE PktNew
    BY <2>1, <2>2 DEF PktNew
  <2>3. CASE PktAdd
    <3>1. f = cur
      BY <2>1, <2>3, AddEffect, AddedPacket DEF PktAdd
    <3> QED
      BY <2>3, <3>1 DEF PktAdd, StaleOnlyIfForced
  <2>4. CASE ScrubFlow
    <3>1. PICK g \in todo : rec' = [rec EXCEPT ![g].close = "forced"] \/ rec' = rec
      BY <2>4 DEF ScrubFlow
    <3>2. g # f
      BY <2>4, <3>1, ScrubbedFlow
    <3> QED
      BY <2>1, <3>1, <3>2
  <2>5. CASE FlowFree
    <3>1. rec' = [rec EXCEPT ![flow] = Emptied(rec[flow])] /\ live' = live \ {flow}
      BY <2>5 DEF FlowFree
    <3> QED
      BY <2>1, <3>1
  <2> QED
    BY <2>2, <2>3, <2>4, <2>5, Frames
<1> QED
  BY <1>1, Invariance, PTL DEF Spec, ClosedIsFinal

=============================================================================
