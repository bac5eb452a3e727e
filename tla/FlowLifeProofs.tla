---------------------------- MODULE FlowLifeProofs -----------------------------
(***************************************************************************)
(* For flows of any length, with packets captured again or not: no packet  *)
(* of a flow is freed twice or left behind, whatever mixture of SYN, FIN,  *)
(* RST and data the flow is made of; and every packet that is hooked on a  *)
(* flow is in an order list, unless the sequence numbers wrap.             *)
(***************************************************************************)
EXTENDS FlowLife, TcpOrderProofs, FiniteSetTheorems

-----------------------------------------------------------------------------
\* The data of a segment is short.
LEMMA DataLength == \A d \in Data : d[1] \in 0 .. 2
<1> SUFFICES ASSUME NEW d \in Data PROVE d[1] \in 0 .. 2
  OBVIOUS
<1>1. d = <<0, FALSE>> \/ d = <<2, FALSE>> \/ d = <<2, TRUE>>
  BY DEF Data
<1>2. CASE d = <<0, FALSE>>
  BY <1>2
<1>3. CASE d = <<2, FALSE>>
  BY <1>3
<1>4. CASE d = <<2, TRUE>>
  BY <1>4
<1> QED
  BY <1>1, <1>2, <1>3, <1>4

\* The packet that comes next: its id is new.
LEMMA NextPacket ==
  ASSUME TypeOK, Numbered, NEW shape \in Shapes, NEW src \in BOOLEAN,
         NEW seq \in 0 .. SeqWord - 1
  PROVE  LET p == Packet(Cardinality(given) + 1, shape, src, seq) IN
         /\ p \in PacketRecords /\ p.id = Cardinality(given) + 1 /\ p.id \in Nat
         /\ p \notin given /\ p.id \notin Ids(given)
<1> DEFINE p == Packet(Cardinality(given) + 1, shape, src, seq)
<1>1. Cardinality(given) \in Nat
  BY FS_CardinalityType DEF Numbered
<1>2. shape[1] \in Flags /\ shape[2][1] \in 0 .. 2
  <2>1. \A d \in Data : d[1] \in 0 .. 2
    BY DataLength
  <2> QED
    BY <2>1 DEF Shapes
<1>4. p = [id |-> Cardinality(given) + 1, flags |-> shape[1], dl |-> shape[2][1],
           seq |-> seq,
           http |-> IF ~ shape[2][2] THEN "none" ELSE IF src THEN "req" ELSE "rsp"]
  BY DEF Packet
<1>5. Cardinality(given) + 1 \notin 1 .. Cardinality(given) /\ Cardinality(given) + 1 \in Nat
  BY <1>1
<1>6. p \in PacketRecords
  BY <1>2, <1>4, <1>5 DEF PacketRecords
<1>7. p.id \notin Ids(given)
  BY <1>4, <1>5 DEF Numbered
<1>8. p \notin given
  BY <1>7 DEF Ids
<1> QED
  BY <1>4, <1>5, <1>6, <1>7, <1>8

\* The packets remain numbered when one is added.
LEMMA OneMore ==
  ASSUME TypeOK, Numbered, NEW p \in PacketRecords, p.id = Cardinality(given) + 1,
         p \notin given, given' = given \cup {p}
  PROVE  /\ Numbered' /\ Cardinality(given') = Cardinality(given) + 1
         /\ Ids(given') = Ids(given) \cup {p.id} /\ given' \subseteq PacketRecords
<1>1. Cardinality(given) \in Nat
  BY FS_CardinalityType DEF Numbered
<1>2. IsFiniteSet(given') /\ Cardinality(given') = Cardinality(given) + 1
  BY FS_AddElement DEF Numbered
<1>3. Ids(given') = Ids(given) \cup {p.id}
  BY DEF Ids
<1>4. Ids(given') = 1 .. Cardinality(given')
  <2>1. 1 .. Cardinality(given) + 1 = 1 .. Cardinality(given) \cup {Cardinality(given) + 1}
    BY <1>1
  <2> QED
    BY <1>2, <1>3, <2>1 DEF Numbered
<1>5. ASSUME NEW a \in given', NEW b \in given', a.id = b.id PROVE a = b
  <2>1. \A x \in given : x.id # p.id
    <3>1. \A x \in given : x.id \in 1 .. Cardinality(given)
      BY DEF Numbered, Ids
    <3>2. p.id \notin 1 .. Cardinality(given)
      BY <1>1
    <3> QED
      BY <3>1, <3>2
  <2> QED
    BY <1>5, <2>1 DEF Numbered
<1>6. Numbered'
  BY <1>2, <1>4, <1>5 DEF Numbered
<1>7. given' \subseteq PacketRecords
  BY DEF TypeOK
<1> QED
  BY <1>2, <1>3, <1>6, <1>7

\* Lists of given packets are lists of more of them.
LEMMA ListsGrow ==
  ASSUME NEW P, NEW Q, P \subseteq Q, NEW F
  PROVE  Orders(P, F) \subseteq Orders(Q, F)
<1>1. NodesOf(P, F) \subseteq NodesOf(Q, F)
  BY DEF NodesOf
<1>2. Seq(NodesOf(P, F)) \subseteq Seq(NodesOf(Q, F))
  BY <1>1, SeqMonotonic
<1> QED
  BY <1>2 DEF Orders

\* The packets of a chain.
Elements(c) == {c[i] : i \in DOMAIN c}

\* A chain with a packet appended is longer by one.
LEMMA ChainGrows ==
  ASSUME NEW T, NEW c \in Seq(T), NEW p \in T
  PROVE  /\ Len(c) \in Nat
         /\ Append(c, p) \in Seq(T) /\ Len(Append(c, p)) = Len(c) + 1
BY LenProperties, AppendProperties

\* A packet appended to a chain is one more packet in it.
LEMMA ChainElements ==
  ASSUME NEW T, NEW c \in Seq(T), NEW p \in T
  PROVE  Elements(Append(c, p)) = Elements(c) \cup {p}
<1> DEFINE a == Append(c, p)
<1>1. Len(c) \in Nat /\ DOMAIN c = 1 .. Len(c)
  BY LenProperties
<1>2. /\ \A i \in 1 .. Len(c) : a[i] = c[i]
      /\ a[Len(c) + 1] = p
      /\ DOMAIN a = 1 .. Len(c) + 1
  BY <1>1, AppendProperties, LenProperties
<1>3. 1 .. Len(c) + 1 = 1 .. Len(c) \cup {Len(c) + 1}
  BY <1>1
<1> HIDE DEF a
<1>4. Elements(a) = Elements(c) \cup {p}
  BY <1>1, <1>2, <1>3 DEF Elements
<1> QED
  BY <1>4 DEF a

\* What flow_add_packet orders: the lists stay lists of the packets given, and
\* refer to no packet but those they did, the new one if it has HTTP, and none.
LEMMA OrderedStep ==
  ASSUME TypeOK, Numbered, NEW k, NEW src \in BOOLEAN, NEW p \in PacketRecords,
         NEW ids, Ids(given) \subseteq ids, p.id \in ids
  PROVE  LET q == Ordered(k, p, src)
             T == Orders(ids \cup {NoPacket}, Flags)
             N == Nodes(q.src) \cup Nodes(q.dst)
         IN /\ q \in [src : T, dst : T]
            /\ \A n \in N : \/ k # "syn_again" /\ \E m \in AllNodes : m.pkt = n.pkt
                            \/ k \notin Dropping /\ p.http # "none" /\ n.pkt = p.id
                            \/ n.pkt = NoPacket
<1> DEFINE P == ids \cup {NoPacket}
<1> DEFINE T == Orders(P, Flags)
<1> DEFINE new == seq_pkt(p)
<1>1. Lists \subseteq T
  <2>1. Ids(given) \cup {NoPacket} \subseteq P
    OBVIOUS
  <2> HIDE DEF P
  <2> QED
    BY <2>1, ListsGrow DEF Lists
<1>2. new \in NodesOf(P, Flags) /\ new.pkt = IF p.http = "none" THEN NoPacket ELSE p.id
  <2>1. p.flags \in Flags /\ p.seq \in 0 .. SeqWord - 1 /\ p.dl \in 0 .. 2
    BY DEF PacketRecords
  <2>2. p.dl \in 0 .. LenWord - 1
    BY <2>1, FlowLifeAssumption, WordAssumption
  <2>3. NoPacket \in P /\ p.id \in P
    OBVIOUS
  <2> HIDE DEF P
  <2> QED
    BY <2>1, <2>2, <2>3, SeqPktNode
<1>3. NewOrder \in T /\ Nodes(NewOrder) = {}
  <2>1. <<>> \in Seq(NodesOf(P, Flags))
    OBVIOUS
  <2> QED
    BY <2>1 DEF NewOrder, Orders, Nodes
<1>4. ASSUME NEW o \in T
      PROVE  /\ tcp_order(o, new) \in T
             /\ \A n \in Nodes(tcp_order(o, new)) :
                  (\E m \in Nodes(o) : m.pkt = n.pkt) \/ n.pkt = new.pkt
  <2> DEFINE r == tcp_order(o, new)
  <2>1. /\ r \in T
        /\ \/ r.list = o.list
           \/ \E k0 \in 0 .. Len(o.list), m \in NodesOf(P, Flags) :
                InsertedAt(o.list, r.list, k0, m) /\ m.pkt = new.pkt
    <3> HIDE DEF P, new
    <3> QED
      BY <1>2, <1>4, Insertion
  <2> HIDE DEF r, new
  <2>2. CASE r.list = o.list
    BY <2>1, <2>2 DEF Nodes, r
  <2>3. ASSUME NEW k0 \in 0 .. Len(o.list), NEW m \in NodesOf(P, Flags),
               InsertedAt(o.list, r.list, k0, m), m.pkt = new.pkt,
               NEW n \in Nodes(r)
        PROVE  (\E x \in Nodes(o) : x.pkt = n.pkt) \/ n.pkt = new.pkt
    <3>1. PICK i \in DOMAIN r.list : n = r.list[i]
      BY DEF Nodes
    <3>2. /\ o.list \in Seq(NodesOf(P, Flags)) /\ r.list \in Seq(NodesOf(P, Flags))
      BY <1>4, <2>1 DEF Orders
    <3>3. /\ Len(o.list) \in Nat /\ DOMAIN o.list = 1 .. Len(o.list)
          /\ DOMAIN r.list = 1 .. Len(r.list) /\ Len(r.list) = Len(o.list) + 1
      BY <2>3, <3>2, LenProperties DEF InsertedAt
    <3>4. n = IF i <= k0 THEN o.list[i] ELSE IF i = k0 + 1 THEN m ELSE o.list[i - 1]
      BY <2>3, <3>1, <3>3 DEF InsertedAt
    <3>5. i \in Nat /\ 1 <= i /\ i <= Len(o.list) + 1 /\ k0 \in Nat /\ k0 <= Len(o.list)
      BY <3>1, <3>3
    <3>6. CASE i <= k0
      <4>1. i \in 1 .. Len(o.list)
        BY <3>3, <3>5, <3>6
      <4> QED
        BY <3>3, <3>4, <3>6, <4>1 DEF Nodes
    <3>7. CASE i = k0 + 1
      <4>1. ~ (i <= k0)
        BY <3>5, <3>7
      <4> QED
        BY <2>3, <3>4, <3>7, <4>1
    <3>8. CASE i > k0 + 1
      <4>1. i - 1 \in 1 .. Len(o.list) /\ ~ (i <= k0) /\ i # k0 + 1
        BY <3>3, <3>5, <3>8
      <4> QED
        BY <3>3, <3>4, <4>1 DEF Nodes
    <3> QED
      BY <3>5, <3>6, <3>7, <3>8
  <2> QED
    BY <2>1, <2>2, <2>3 DEF r
<1>5. /\ order \in [src : T, dst : T]
      /\ order.src \in T /\ order.dst \in T
  BY <1>1 DEF TypeOK
<1> DEFINE base == IF k = "syn_again" THEN Fresh ELSE order
<1>6. /\ base \in [src : T, dst : T] /\ base.src \in T /\ base.dst \in T
      /\ \A n \in Nodes(base.src) \cup Nodes(base.dst) : k # "syn_again" /\ n \in AllNodes
  <2>1. CASE k = "syn_again"
    BY <1>3, <2>1 DEF Fresh
  <2>2. CASE k # "syn_again"
    BY <1>5, <2>2 DEF AllNodes
  <2> QED
    BY <2>1, <2>2
<1> DEFINE q == Ordered(k, p, src)
<1> DEFINE Good(r) ==
      /\ r \in [src : T, dst : T]
      /\ \A n \in Nodes(r.src) \cup Nodes(r.dst) :
           \/ k # "syn_again" /\ \E m \in AllNodes : m.pkt = n.pkt
           \/ k \notin Dropping /\ p.http # "none" /\ n.pkt = p.id
           \/ n.pkt = NoPacket
<1>7. CASE k \in Dropping
  <2>1. q = order /\ k # "syn_again"
    BY <1>7 DEF Ordered, Dropping
  <2> HIDE DEF T
  <2> QED
    BY <1>5, <2>1 DEF AllNodes, T
<1>8. CASE k \notin Dropping /\ src
  <2> DEFINE r == tcp_order(base.src, new)
  <2>1. q = [base EXCEPT !.src = r]
    BY <1>8 DEF Ordered
  <2>2. /\ r \in T
        /\ \A n \in Nodes(r) : (\E m \in Nodes(base.src) : m.pkt = n.pkt) \/ n.pkt = new.pkt
    BY <1>4, <1>6
  <2> HIDE DEF r, T, base, new
  <2>3. q \in [src : T, dst : T] /\ q.src = r /\ q.dst = base.dst
    BY <1>6, <2>1, <2>2
  <2> HIDE DEF q
  <2>4. Good(q)
    BY <1>2, <1>6, <1>8, <2>2, <2>3
  <2> QED
    BY <2>4 DEF q, T
<1>9. CASE k \notin Dropping /\ ~ src
  <2> DEFINE r == tcp_order(base.dst, new)
  <2>1. q = [base EXCEPT !.dst = r]
    BY <1>9 DEF Ordered
  <2>2. /\ r \in T
        /\ \A n \in Nodes(r) : (\E m \in Nodes(base.dst) : m.pkt = n.pkt) \/ n.pkt = new.pkt
    BY <1>4, <1>6
  <2> HIDE DEF r, T, base, new
  <2>3. q \in [src : T, dst : T] /\ q.dst = r /\ q.src = base.src
    BY <1>6, <2>1, <2>2
  <2> HIDE DEF q
  <2>4. Good(q)
    BY <1>2, <1>6, <1>9, <2>2, <2>3
  <2> QED
    BY <2>4 DEF q, T
<1> QED
  BY <1>7, <1>8, <1>9
-----------------------------------------------------------------------------
\* The records of flows whose chains hold packets of S.
RecordsOf(S) ==
  [socket : {Socket}, pkt_src : Seq(S), pkt_dst : Seq(S), pkts_src : Nat,
   pkts_dst : Nat, http : BOOLEAN, close : {"open", "closed", "forced"}]

\* cal_packet counts one packet and leaves the chains alone.
LEMMA Counted ==
  ASSUME NEW S, NEW r \in RecordsOf(S), NEW src \in BOOLEAN
  PROVE  LET g == cal_packet(r, src) IN
         /\ g \in RecordsOf(S)
         /\ g.pkt_src = r.pkt_src /\ g.pkt_dst = r.pkt_dst /\ g.http = r.http
         /\ g.pkts_src >= r.pkts_src /\ (src => g.pkts_src = r.pkts_src + 1)
         /\ g.pkts_src + g.pkts_dst = r.pkts_src + r.pkts_dst + 1
<1> DEFINE g == cal_packet(r, src)
<1>1. r.pkts_dst \in Nat /\ r.pkts_src \in Nat
  BY DEF RecordsOf
<1>2. CASE src
  <2> DEFINE m == r.pkts_src + 1
  <2>1. g = [r EXCEPT !.pkts_src = m] /\ m \in Nat
    BY <1>1, <1>2 DEF cal_packet
  <2>2. m = r.pkts_src + 1
    OBVIOUS
  <2> HIDE DEF m, g
  <2>3. /\ g \in RecordsOf(S)
        /\ g.pkt_src = r.pkt_src /\ g.pkt_dst = r.pkt_dst /\ g.http = r.http
        /\ g.pkts_src = m /\ g.pkts_dst = r.pkts_dst
    BY <2>1 DEF RecordsOf
  <2>4. /\ g.pkts_src >= r.pkts_src /\ (src => g.pkts_src = r.pkts_src + 1)
        /\ g.pkts_src + g.pkts_dst = r.pkts_src + r.pkts_dst + 1
    BY <1>1, <1>2, <2>2, <2>3
  <2> QED
    BY <2>3, <2>4 DEF g
<1>3. CASE ~ src
  <2> DEFINE m == r.pkts_dst + 1
  <2>1. g = [r EXCEPT !.pkts_dst = m] /\ m \in Nat
    BY <1>1, <1>3 DEF cal_packet
  <2>2. m = r.pkts_dst + 1
    OBVIOUS
  <2> HIDE DEF m, g
  <2>3. /\ g \in RecordsOf(S)
        /\ g.pkt_src = r.pkt_src /\ g.pkt_dst = r.pkt_dst /\ g.http = r.http
        /\ g.pkts_dst = m /\ g.pkts_src = r.pkts_src
    BY <2>1 DEF RecordsOf
  <2>4. /\ g.pkts_src >= r.pkts_src /\ (src => g.pkts_src = r.pkts_src + 1)
        /\ g.pkts_src + g.pkts_dst = r.pkts_src + r.pkts_dst + 1
    BY <1>1, <1>3, <2>2, <2>3
  <2> QED
    BY <2>3, <2>4 DEF g
<1> QED
  BY <1>2, <1>3

\* hook_packet puts the packet at the end of one of the chains.
LEMMA HookedPacket ==
  ASSUME NEW T, NEW r \in RecordsOf(T), NEW p \in T, NEW src \in BOOLEAN
  PROVE  LET g == hook_packet(r, p, src) IN
         /\ g \in RecordsOf(T)
         /\ g.pkts_src = r.pkts_src /\ g.pkts_dst = r.pkts_dst
         /\ src => g.pkt_src = Append(r.pkt_src, p) /\ g.pkt_dst = r.pkt_dst
         /\ ~ src => g.pkt_src = r.pkt_src /\ g.pkt_dst = Append(r.pkt_dst, p)
<1>1. r.pkt_src \in Seq(T) /\ r.pkt_dst \in Seq(T)
  BY DEF RecordsOf
<1>2. CASE src
  <2> DEFINE a == Append(r.pkt_src, p)
  <2>1. hook_packet(r, p, src) = [r EXCEPT !.pkt_src = a]
    BY <1>2 DEF hook_packet
  <2>2. a \in Seq(T)
    BY <1>1, AppendProperties
  <2> HIDE DEF a
  <2> QED
    BY <1>2, <2>1, <2>2 DEF RecordsOf, a
<1>3. CASE ~ src
  <2> DEFINE a == Append(r.pkt_dst, p)
  <2>1. hook_packet(r, p, src) = [r EXCEPT !.pkt_dst = a]
    BY <1>3 DEF hook_packet
  <2>2. a \in Seq(T)
    BY <1>1, AppendProperties
  <2> HIDE DEF a
  <2> QED
    BY <1>3, <2>1, <2>2 DEF RecordsOf, a
<1> QED
  BY <1>2, <1>3

\* So it adds one packet to those the flow holds.
LEMMA HookedSet ==
  ASSUME NEW T, NEW r \in RecordsOf(T), NEW p \in T, NEW src \in BOOLEAN
  PROVE  Chained(hook_packet(r, p, src)) = Chained(r) \cup {p}
<1> DEFINE g == hook_packet(r, p, src)
<1>1. r.pkt_src \in Seq(T) /\ r.pkt_dst \in Seq(T)
  BY DEF RecordsOf
<1>2. /\ Chained(g) = Elements(g.pkt_src) \cup Elements(g.pkt_dst)
      /\ Chained(r) = Elements(r.pkt_src) \cup Elements(r.pkt_dst)
  BY DEF Chained, Elements
<1>3. /\ Elements(Append(r.pkt_src, p)) = Elements(r.pkt_src) \cup {p}
      /\ Elements(Append(r.pkt_dst, p)) = Elements(r.pkt_dst) \cup {p}
  BY <1>1, ChainElements
<1>4. /\ src => g.pkt_src = Append(r.pkt_src, p) /\ g.pkt_dst = r.pkt_dst
      /\ ~ src => g.pkt_src = r.pkt_src /\ g.pkt_dst = Append(r.pkt_dst, p)
  BY HookedPacket
<1> HIDE DEF g
<1>5. Chained(g) = Chained(r) \cup {p}
  BY <1>2, <1>3, <1>4
<1> QED
  BY <1>5 DEF g

\* And one to the lengths of its chains.
LEMMA HookedLength ==
  ASSUME NEW T, NEW r \in RecordsOf(T), NEW p \in T, NEW src \in BOOLEAN
  PROVE  LET g == hook_packet(r, p, src) IN
         Len(g.pkt_src) + Len(g.pkt_dst) = Len(r.pkt_src) + Len(r.pkt_dst) + 1
<1> DEFINE g == hook_packet(r, p, src)
<1> DEFINE c == r.pkt_src
<1> DEFINE d == r.pkt_dst
<1>1. c \in Seq(T) /\ d \in Seq(T)
  BY DEF RecordsOf
<1>2. /\ src => g.pkt_src = Append(c, p) /\ g.pkt_dst = d
      /\ ~ src => g.pkt_src = c /\ g.pkt_dst = Append(d, p)
  BY HookedPacket
<1> HIDE DEF g, c, d
<1>3. /\ Len(c) \in Nat /\ Len(d) \in Nat
      /\ Len(Append(c, p)) = Len(c) + 1 /\ Len(Append(d, p)) = Len(d) + 1
  BY <1>1, ChainGrows
<1>4. CASE src
  <2>1. Len(g.pkt_src) = Len(c) + 1 /\ Len(g.pkt_dst) = Len(d)
    BY <1>2, <1>3, <1>4
  <2>2. Len(g.pkt_src) + Len(g.pkt_dst) = Len(c) + Len(d) + 1
    BY <1>3, <2>1
  <2> QED
    BY <2>2 DEF c, d, g
<1>5. CASE ~ src
  <2>1. Len(g.pkt_src) = Len(c) /\ Len(g.pkt_dst) = Len(d) + 1
    BY <1>2, <1>3, <1>5
  <2>2. Len(g.pkt_src) + Len(g.pkt_dst) = Len(c) + Len(d) + 1
    BY <1>3, <2>1
  <2> QED
    BY <2>2 DEF c, d, g
<1> QED
  BY <1>4, <1>5

\* What the branches of flow_add_packet say of the packet.
LEMMA Kinds ==
  ASSUME NEW p, NEW src \in BOOLEAN
  PROVE  LET k == Kind(f, p, src) IN
         /\ k \in Dropping \cup Closing \cup {"handshake", "syn", "plain", "syn_again", "http"}
         /\ k = "syn" => f.pkts_src = 0
         /\ k = "syn_again" => p.flags = {SYN} /\ src
         /\ k = "http" => p.http # "none"
         /\ k = "plain" => p.http = "none"
BY DEF Kind, Dropping, Closing

\* The record after flow_add_packet, for each of its branches.
LEMMA RecordStep ==
  ASSUME NEW S, NEW T, S \subseteq T, f \in RecordsOf(S), f.pkts_src > 0, NEW p \in T,
         NEW src \in BOOLEAN
  PROVE  LET k == Kind(f, p, src)
             g == AddTo(f, p, src)
         IN /\ k \notin Dropping =>
                 /\ g \in RecordsOf(T) /\ g.pkts_src > 0
                 /\ g.pkts_src + g.pkts_dst <= f.pkts_src + f.pkts_dst + 1
            /\ k \in Closing \cup {"handshake", "plain"} =>
                 g.pkt_src = f.pkt_src /\ g.pkt_dst = f.pkt_dst /\ g.http = f.http
            /\ k = "http" =>
                 /\ g.http /\ Chained(g) = Chained(f) \cup {p}
                 /\ Len(g.pkt_src) + Len(g.pkt_dst) = Len(f.pkt_src) + Len(f.pkt_dst) + 1
            /\ k = "syn_again" => g.pkt_src = <<>> /\ g.pkt_dst = <<>> /\ ~ g.http
<1> DEFINE k == Kind(f, p, src)
<1> DEFINE g == AddTo(f, p, src)
<1> DEFINE Counts == k \notin Dropping =>
      /\ g \in RecordsOf(T) /\ g.pkts_src > 0
      /\ g.pkts_src + g.pkts_dst <= f.pkts_src + f.pkts_dst + 1
<1> DEFINE Keeps == k \in Closing \cup {"handshake", "plain"} =>
      g.pkt_src = f.pkt_src /\ g.pkt_dst = f.pkt_dst /\ g.http = f.http
<1> DEFINE Grows == k = "http" =>
      /\ g.http /\ Chained(g) = Chained(f) \cup {p}
      /\ Len(g.pkt_src) + Len(g.pkt_dst) = Len(f.pkt_src) + Len(f.pkt_dst) + 1
<1> DEFINE Empties == k = "syn_again" =>
      g.pkt_src = <<>> /\ g.pkt_dst = <<>> /\ ~ g.http
<1>1. f \in RecordsOf(T)
  BY SeqMonotonic DEF RecordsOf
<1>2. f.pkts_src \in Nat /\ f.pkts_dst \in Nat
  BY DEF RecordsOf
<1>3. CASE k \in Closing
  <2> DEFINE c == cal_packet(f, src)
  <2>1. g = [c EXCEPT !.close = "closed"] /\ k \notin Dropping
    BY <1>3 DEF AddTo, Closing, Dropping
  <2>2. /\ c \in RecordsOf(T) /\ c.pkt_src = f.pkt_src /\ c.pkt_dst = f.pkt_dst
        /\ c.http = f.http /\ c.pkts_src >= f.pkts_src
        /\ c.pkts_src + c.pkts_dst = f.pkts_src + f.pkts_dst + 1
    BY <1>1, Counted
  <2> HIDE DEF c
  <2>3. /\ g \in RecordsOf(T) /\ g.pkt_src = f.pkt_src /\ g.pkt_dst = f.pkt_dst
        /\ g.http = f.http /\ g.pkts_src = c.pkts_src /\ g.pkts_dst = c.pkts_dst
    BY <2>1, <2>2 DEF RecordsOf
  <2>4. g.pkts_src \in Nat /\ g.pkts_dst \in Nat
    BY <2>3 DEF RecordsOf
  <2>5. k # "http" /\ k # "syn_again"
    BY <1>3 DEF Closing
  <2> HIDE DEF g, k
  <2>6. Counts
    BY <1>2, <2>2, <2>3, <2>4
  <2>7. Keeps
    BY <2>3
  <2> QED
    BY <2>5, <2>6, <2>7 DEF g, k
<1>4. CASE k \in {"handshake", "syn", "plain"}
  <2>1. g = cal_packet(f, src) /\ k \notin Dropping /\ k # "http" /\ k # "syn_again"
    BY <1>4 DEF AddTo, Closing, Dropping
  <2>2. /\ g \in RecordsOf(T) /\ g.pkt_src = f.pkt_src /\ g.pkt_dst = f.pkt_dst
        /\ g.http = f.http /\ g.pkts_src >= f.pkts_src
        /\ g.pkts_src + g.pkts_dst = f.pkts_src + f.pkts_dst + 1
    BY <1>1, <2>1, Counted
  <2>3. g.pkts_src \in Nat /\ g.pkts_dst \in Nat
    BY <2>2 DEF RecordsOf
  <2> HIDE DEF g, k
  <2>4. Counts
    BY <1>2, <2>2, <2>3
  <2>5. Keeps
    BY <2>2
  <2> QED
    BY <2>1, <2>4, <2>5 DEF g, k
<1>5. CASE k = "http"
  <2> DEFINE h == hook_packet(f, p, src)
  <2> DEFINE c == cal_packet(h, src)
  <2>1. g = [c EXCEPT !.http = TRUE] /\ k \notin Dropping \cup Closing
    BY <1>5 DEF AddTo, Closing, Dropping
  <2>2. /\ h \in RecordsOf(T) /\ h.pkts_src = f.pkts_src /\ h.pkts_dst = f.pkts_dst
        /\ Chained(h) = Chained(f) \cup {p}
        /\ Len(h.pkt_src) + Len(h.pkt_dst) = Len(f.pkt_src) + Len(f.pkt_dst) + 1
    <3>1. /\ h \in RecordsOf(T) /\ h.pkts_src = f.pkts_src /\ h.pkts_dst = f.pkts_dst
      BY <1>1, HookedPacket
    <3>2. Chained(h) = Chained(f) \cup {p}
      BY <1>1, HookedSet
    <3>3. Len(h.pkt_src) + Len(h.pkt_dst) = Len(f.pkt_src) + Len(f.pkt_dst) + 1
      BY <1>1, HookedLength
    <3> QED
      BY <3>1, <3>2, <3>3
  <2> HIDE DEF h
  <2>3. /\ c \in RecordsOf(T) /\ c.pkt_src = h.pkt_src /\ c.pkt_dst = h.pkt_dst
        /\ c.pkts_src >= h.pkts_src
        /\ c.pkts_src + c.pkts_dst = h.pkts_src + h.pkts_dst + 1
    BY <2>2, Counted
  <2> HIDE DEF c
  <2>4. /\ g \in RecordsOf(T) /\ g.pkt_src = h.pkt_src /\ g.pkt_dst = h.pkt_dst
        /\ g.http /\ g.pkts_src = c.pkts_src /\ g.pkts_dst = c.pkts_dst
    BY <2>1, <2>3 DEF RecordsOf
  <2>5. g.pkts_src \in Nat /\ g.pkts_dst \in Nat
    BY <2>4 DEF RecordsOf
  <2> HIDE DEF g, k
  <2>6. Chained(g) = Chained(f) \cup {p}
    BY <2>2, <2>4 DEF Chained
  <2>7. g.pkts_src > 0 /\ g.pkts_src + g.pkts_dst <= f.pkts_src + f.pkts_dst + 1
    BY <1>2, <2>2, <2>3, <2>4, <2>5
  <2>8. Len(g.pkt_src) + Len(g.pkt_dst) = Len(f.pkt_src) + Len(f.pkt_dst) + 1
    BY <2>2, <2>4
  <2> QED
    BY <1>5, <2>1, <2>4, <2>6, <2>7, <2>8 DEF g, k
<1>6. CASE k = "syn_again"
  <2> DEFINE n == NewFlow(f.socket)
  <2>1. g = cal_packet(n, src) /\ k \notin Dropping \cup Closing
    BY <1>6 DEF AddTo, Closing, Dropping
  <2>2. /\ n \in RecordsOf(T) /\ n.pkt_src = <<>> /\ n.pkt_dst = <<>> /\ ~ n.http
        /\ n.pkts_src = 0 /\ n.pkts_dst = 0
    <3>1. <<>> \in Seq(T) /\ f.socket \in {Socket}
      BY DEF RecordsOf
    <3> QED
      BY <3>1 DEF NewFlow, RecordsOf
  <2> HIDE DEF n
  <2>3. src
    BY <1>6, Kinds
  <2>4. /\ g \in RecordsOf(T) /\ g.pkt_src = n.pkt_src /\ g.pkt_dst = n.pkt_dst
        /\ g.http = n.http /\ g.pkts_src = n.pkts_src + 1
        /\ g.pkts_src + g.pkts_dst = n.pkts_src + n.pkts_dst + 1
    BY <2>1, <2>2, <2>3, Counted
  <2>5. g.pkts_src \in Nat /\ g.pkts_dst \in Nat
    BY <2>4 DEF RecordsOf
  <2> HIDE DEF g, k
  <2>6. g.pkts_src > 0 /\ g.pkts_src + g.pkts_dst <= f.pkts_src + f.pkts_dst + 1
    BY <1>2, <2>2, <2>4, <2>5
  <2> QED
    BY <1>6, <2>1, <2>2, <2>4, <2>6 DEF g, k
<1>7. CASE k \in Dropping
  <2>1. k \notin Closing \cup {"handshake", "plain", "http", "syn_again"}
    BY <1>7 DEF Closing, Dropping
  <2> HIDE DEF k
  <2> QED
    BY <1>7, <2>1 DEF k
<1>8. k \in Dropping \cup Closing \cup {"handshake", "syn", "plain", "syn_again", "http"}
  BY Kinds
<1> HIDE DEF k, g
<1> QED
  BY <1>3, <1>4, <1>5, <1>6, <1>7, <1>8 DEF k, g
-----------------------------------------------------------------------------
\* The numbers that a direction goes on with are numbers of the word.
LEMMA NumbersInWord ==
  ASSUME NEW o \in Lists
  PROVE  Numbers(o.list) \subseteq 0 .. SeqWord - 1
<1> DEFINE l == o.list
<1> DEFINE P == Ids(given) \cup {NoPacket}
<1>1. l \in Seq(NodesOf(P, Flags)) /\ Len(l) \in Nat /\ DOMAIN l = 1 .. Len(l)
  <2>1. l \in Seq(NodesOf(P, Flags))
    BY DEF Lists, Orders
  <2> HIDE DEF l, P
  <2> QED
    BY <2>1, LenProperties
<1> HIDE DEF P
<1>2. \A i \in 1 .. Len(l) : l[i].seq \in 0 .. SeqWord - 1 /\ l[i].nxt \in 0 .. SeqWord - 1
  <2>1. \A i \in 1 .. Len(l) : l[i] \in NodesOf(P, Flags)
    BY <1>1, ElementOfSeq
  <2> QED
    BY <2>1 DEF NodesOf
<1> DEFINE end == IF l = <<>> THEN ISN ELSE l[Len(l)].nxt
<1>3. end \in 0 .. SeqWord - 1
  <2>1. l # <<>> => Len(l) \in 1 .. Len(l)
    BY <1>1, EmptySeq
  <2> QED
    BY <1>2, <2>1, FlowLifeAssumption
<1> HIDE DEF end
<1>4. (end + Body) % SeqWord \in 0 .. SeqWord - 1
  <2>1. end + Body \in Int
    BY <1>3, WordAssumption DEF Body
  <2> QED
    BY <2>1, Words
<1>5. Numbers(l) \subseteq {end} \cup {(end + Body) % SeqWord} \cup {l[i].seq : i \in DOMAIN l}
  BY DEF Numbers, end
<1> HIDE DEF l
<1>6. {l[i].seq : i \in DOMAIN l} \subseteq 0 .. SeqWord - 1
  BY <1>1, <1>2
<1> QED
  BY <1>3, <1>4, <1>5, <1>6 DEF l

\* flow_add_packet keeps the invariant.
LEMMA AddKeeps ==
  ASSUME IInv, place = "table", NEW shape \in Shapes, NEW src \in BOOLEAN,
         NEW seq \in 0 .. SeqWord - 1, Add(Packet(Cardinality(given) + 1, shape, src, seq), src)
  PROVE  IInv'
<1> DEFINE p == Packet(Cardinality(given) + 1, shape, src, seq)
<1> DEFINE k == Kind(f, p, src)
<1> DEFINE g == AddTo(f, p, src)
<1>1. /\ p \in PacketRecords /\ p.id = Cardinality(given) + 1
      /\ p \notin given /\ p.id \notin Ids(given)
  BY NextPacket DEF IInv
<1>2. /\ f' = IF k \in Dropping THEN f ELSE g
      /\ order' = Ordered(k, p, src)
      /\ place' = IF k \in Dropping THEN "freed"
                  ELSE IF k \in Closing THEN "queue" ELSE place
      /\ given' = given \cup {p}
      /\ freed' = freed \cup Freed(f, p, src)
      /\ unhooked' = unhooked \cup Unhooked(k, p)
      /\ repeats' = repeats
  BY DEF Add
<1> HIDE DEF p
<1>3. /\ Numbered' /\ Cardinality(given') = Cardinality(given) + 1
      /\ Ids(given') = Ids(given) \cup {p.id} /\ given' \subseteq PacketRecords
  <2> HIDE DEF k, g
  <2> QED
    BY <1>1, <1>2, OneMore DEF IInv
<1>4. /\ k \in Dropping \cup Closing \cup {"handshake", "syn", "plain", "syn_again", "http"}
      /\ k # "syn"
      /\ k = "http" => p.http # "none"
      /\ k = "plain" => p.http = "none"
  <2>1. f.pkts_src # 0
    BY DEF IInv, TypeOK, FlowRecords
  <2> QED
    BY <1>1, <2>1, Kinds
<1>5. /\ f \in RecordsOf(given) /\ given \subseteq given' /\ p \in given'
      /\ f.pkts_src > 0 /\ f.pkts_src \in Nat /\ f.pkts_dst \in Nat
      /\ f.pkts_src + f.pkts_dst <= Cardinality(given)
  <2>1. f \in RecordsOf(given)
    BY DEF IInv, TypeOK, FlowRecords, RecordsOf
  <2>2. f.pkts_src \in Nat /\ f.pkts_dst \in Nat
    BY <2>1 DEF RecordsOf
  <2> QED
    BY <1>2, <2>1, <2>2 DEF IInv, TypeOK
<1>6. f \in RecordsOf(given')
  BY <1>5, SeqMonotonic DEF RecordsOf
<1>7. Cardinality(given) \in Nat
  BY FS_CardinalityType DEF IInv, Numbered
<1>8. k \notin Dropping =>
        /\ g \in RecordsOf(given') /\ g.pkts_src > 0
        /\ g.pkts_src + g.pkts_dst <= f.pkts_src + f.pkts_dst + 1
  BY <1>5, RecordStep
<1>9. /\ k \in Closing \cup {"handshake", "plain"} =>
           g.pkt_src = f.pkt_src /\ g.pkt_dst = f.pkt_dst /\ g.http = f.http
      /\ k = "syn_again" => g.pkt_src = <<>> /\ g.pkt_dst = <<>> /\ ~ g.http
  BY <1>5, RecordStep
<1>10. k = "http" => g.http /\ Chained(g) = Chained(f) \cup {p}
  BY <1>5, RecordStep
<1>11. k = "http" =>
         Len(g.pkt_src) + Len(g.pkt_dst) = Len(f.pkt_src) + Len(f.pkt_dst) + 1
  BY <1>5, RecordStep
<1>12. /\ k \in Closing \cup {"handshake", "plain"} => Chained(g) = Chained(f)
       /\ k = "syn_again" => Chained(g) = {}
  <2>1. k \in Closing \cup {"handshake", "plain"} => Chained(g) = Chained(f)
    <3> HIDE DEF g, k
    <3> QED
      BY <1>9 DEF Chained
  <2>2. k = "syn_again" => Chained(g) = {}
    <3> HIDE DEF g, k
    <3> QED
      BY <1>9 DEF Chained
  <2> QED
    BY <2>1, <2>2
<1>13. /\ Ids(given) \subseteq Ids(given') /\ p.id \in Ids(given')
  BY <1>3
<1>14. /\ order' \in [src : Lists', dst : Lists']
       /\ \A n \in AllNodes' : \/ k # "syn_again" /\ \E m \in AllNodes : m.pkt = n.pkt
                               \/ k \notin Dropping /\ p.http # "none" /\ n.pkt = p.id
                               \/ n.pkt = NoPacket
  <2> DEFINE q == Ordered(k, p, src)
  <2> DEFINE ids == Ids(given')
  <2> DEFINE T == Orders(ids \cup {NoPacket}, Flags)
  <2>1. q \in [src : T, dst : T]
    <3> HIDE DEF k
    <3>1. Ids(given) \subseteq ids /\ p.id \in ids
      BY <1>13
    <3> HIDE DEF ids
    <3> QED
      BY <1>1, <3>1, OrderedStep DEF IInv
  <2>2. \A n \in Nodes(q.src) \cup Nodes(q.dst) :
          \/ k # "syn_again" /\ \E m \in AllNodes : m.pkt = n.pkt
          \/ k \notin Dropping /\ p.http # "none" /\ n.pkt = p.id
          \/ n.pkt = NoPacket
    <3> HIDE DEF k
    <3>1. Ids(given) \subseteq ids /\ p.id \in ids
      BY <1>13
    <3> HIDE DEF ids
    <3> QED
      BY <1>1, <3>1, OrderedStep DEF IInv
  <2>3. Lists' = T
    BY DEF Lists, Ids, Flags
  <2>4. AllNodes' = Nodes(q.src) \cup Nodes(q.dst)
    <3> HIDE DEF q
    <3>1. order' = q
      BY <1>2 DEF q
    <3> QED
      BY <3>1 DEF AllNodes, Nodes
  <2>5. order' = q
    BY <1>2
  <2> HIDE DEF q, T, k
  <2> QED
    BY <2>1, <2>2, <2>3, <2>4, <2>5
<1>15. Freed(f, p, src) = (IF k = "http" THEN {} ELSE {p})
         \cup (IF k \in Dropping \cup {"syn_again"} THEN Chained(f) ELSE {})
  BY DEF Freed
<1>16. Chained(f) \subseteq given /\ freed \subseteq given
  <2>1. freed \subseteq given
    BY DEF IInv, TypeOK
  <2>2. Chained(f) = given \ freed
    BY DEF IInv, FreedOnce
  <2> QED
    BY <2>1, <2>2
<1> HIDE DEF k, g
<1>17. k \in Dropping => k \notin Closing \cup {"handshake", "plain", "syn_again", "http"}
  BY DEF Dropping, Closing
<1>18. TypeOK'
  <2>1. f' \in RecordsOf(given')
    BY <1>2, <1>6, <1>8
  <2>2. f' \in FlowRecords'
    BY <2>1 DEF RecordsOf, FlowRecords, Socket
  <2>3. f'.pkts_src + f'.pkts_dst <= Cardinality(given')
    <3>1. CASE k \in Dropping
      BY <1>2, <1>3, <1>5, <1>7, <3>1
    <3>2. CASE k \notin Dropping
      <4>1. f' = g
        BY <1>2, <3>2
      <4>2. g.pkts_src \in Nat /\ g.pkts_dst \in Nat
        BY <1>8, <3>2 DEF RecordsOf
      <4>3. g.pkts_src + g.pkts_dst <= Cardinality(given) + 1
        BY <1>5, <1>7, <1>8, <3>2, <4>2
      <4> QED
        BY <1>3, <4>1, <4>3
    <3> QED
      BY <3>1, <3>2
  <2>4. unhooked' \subseteq Ids(given)'
    <3>1. Unhooked(k, p) \subseteq {p.id} /\ unhooked \subseteq Ids(given)
      BY DEF Unhooked, IInv, TypeOK
    <3> QED
      BY <1>2, <1>3, <3>1 DEF Ids
  <2>5. freed' \subseteq given'
    BY <1>2, <1>15, <1>16
  <2>6. place' \in {"table", "queue", "freed"} /\ repeats' \in BOOLEAN
    BY <1>2 DEF IInv, TypeOK
  <2> QED
    BY <1>3, <1>14, <2>2, <2>3, <2>4, <2>5, <2>6 DEF TypeOK
<1>19. f'.pkts_src > 0
  BY <1>2, <1>5, <1>8
<1>20. /\ place' # "freed" <=> k \notin Dropping
       /\ k \notin Dropping => f' = g
  BY <1>2
<1>21. f.http <=> Chained(f) # {}
  BY DEF IInv, HttpIffHooked
<1>22. HttpIffHooked'
  <2> SUFFICES ASSUME place' # "freed" PROVE f'.http <=> Chained(f') # {}
    BY DEF HttpIffHooked, Chained
  <2>1. k \notin Dropping /\ f' = g
    BY <1>20
  <2> QED
    BY <1>4, <1>9, <1>10, <1>12, <1>21, <2>1
<1>23. FreedOnce'
  <2>1. ASSUME place' = "freed" PROVE freed' = given'
    <3>1. k \in Dropping /\ Chained(f) = given \ freed
      BY <1>20, <2>1 DEF IInv, FreedOnce
    <3> QED
      BY <1>2, <1>15, <1>16, <1>17, <3>1
  <2>2. ASSUME place' # "freed" PROVE Chained(f') = given' \ freed'
    <3>1. k \notin Dropping /\ f' = g /\ Chained(f) = given \ freed
      BY <1>20, <2>2 DEF IInv, FreedOnce
    <3>2. CASE k = "http"
      BY <1>1, <1>2, <1>10, <1>15, <1>16, <3>1, <3>2
    <3>3. CASE k = "syn_again"
      BY <1>1, <1>2, <1>12, <1>15, <1>16, <3>1, <3>3
    <3>4. CASE k \in Closing \cup {"handshake", "plain"}
      <4>1. k # "http" /\ k # "syn_again"
        BY <3>4 DEF Closing
      <4> QED
        BY <1>1, <1>2, <1>12, <1>15, <1>16, <3>1, <3>4, <4>1
    <3> QED
      BY <1>4, <3>1, <3>2, <3>3, <3>4
  <2>3. ASSUME place' # "freed"
        PROVE  Len(f'.pkt_src) + Len(f'.pkt_dst) = Cardinality(Chained(f'))
    <3>1. k \notin Dropping /\ f' = g
      BY <1>20, <2>3
    <3>2. Len(f.pkt_src) + Len(f.pkt_dst) = Cardinality(Chained(f))
      BY DEF IInv, FreedOnce
    <3>3. IsFiniteSet(Chained(f))
      BY <1>16, FS_Subset DEF IInv, Numbered
    <3>4. CASE k = "http"
      <4>1. Cardinality(Chained(f) \cup {p}) = Cardinality(Chained(f)) + 1
        BY <1>1, <1>16, <3>3, FS_AddElement
      <4> QED
        BY <1>10, <1>11, <3>1, <3>2, <3>4, <4>1
    <3>5. CASE k = "syn_again"
      <4>1. Len(g.pkt_src) = 0 /\ Len(g.pkt_dst) = 0
        BY <1>9, <3>5
      <4>2. Cardinality(Chained(g)) = 0
        BY <1>12, <3>5, FS_EmptySet
      <4> QED
        BY <3>1, <4>1, <4>2
    <3>6. CASE k \in Closing \cup {"handshake", "plain"}
      BY <1>9, <1>12, <3>1, <3>2, <3>6
    <3> QED
      BY <1>4, <3>1, <3>4, <3>5, <3>6
  <2> QED
    BY <2>1, <2>2, <2>3 DEF FreedOnce, Chained
<1>24. Referred'
  <2> SUFFICES ASSUME place' # "freed", NEW n \in AllNodes'
               PROVE  n.pkt \in {NoPacket} \cup unhooked' \cup Ids(Chained(f'))
    BY DEF Referred, Ids, Chained
  <2>1. k \notin Dropping /\ f' = g
    BY <1>20
  <2>2. CASE k # "syn_again" /\ \E m \in AllNodes : m.pkt = n.pkt
    <3>1. n.pkt \in {NoPacket} \cup unhooked \cup Ids(Chained(f))
      BY <2>2 DEF IInv, Referred
    <3>2. unhooked \subseteq unhooked'
      BY <1>2
    <3>3. Chained(f) \subseteq Chained(g)
      BY <1>4, <1>10, <1>12, <2>1, <2>2
    <3> QED
      BY <2>1, <3>1, <3>2, <3>3 DEF Ids
  <2>3. CASE p.http # "none" /\ n.pkt = p.id
    <3>1. CASE k = "http"
      BY <1>10, <2>1, <2>3, <3>1 DEF Ids
    <3>2. CASE k # "http"
      <4>1. Unhooked(k, p) = {p.id}
        BY <2>1, <2>3, <3>2 DEF Unhooked
      <4> QED
        BY <1>2, <2>3, <4>1
    <3> QED
      BY <3>1, <3>2
  <2> QED
    BY <1>14, <2>2, <2>3
<1> QED
  BY <1>3, <1>18, <1>19, <1>22, <1>23, <1>24 DEF IInv
\* The flow with the SYN it was made for.
LEMMA Initially == Init => IInv
<1> SUFFICES ASSUME Init PROVE IInv
  OBVIOUS
<1>a. PICK data \in Data :
        /\ f = AddTo(NewFlow(Socket), SynPacket(data), TRUE)
        /\ order = [Fresh EXCEPT !.src = tcp_order(@, seq_pkt(SynPacket(data)))]
        /\ given = {SynPacket(data)} /\ freed = {SynPacket(data)}
        /\ unhooked = Unhooked("syn", SynPacket(data))
  BY DEF Init
<1> DEFINE p == SynPacket(data)
<1> DEFINE new == seq_pkt(p)
<1> DEFINE P == Ids({p}) \cup {NoPacket}
<1> DEFINE T == Orders(P, Flags)
<1>1. /\ p.id = 1 /\ p.flags = {SYN} /\ p.dl \in 0 .. 2 /\ p.seq = ISN
      /\ p.flags \in Flags /\ p \in PacketRecords
  <2>1. {SYN} \in Flags
    BY DEF Flags
  <2>2. data[1] \in 0 .. 2
    BY DataLength
  <2>3. p = [id |-> 1, flags |-> {SYN}, dl |-> data[1], seq |-> ISN,
             http |-> IF ~ data[2] THEN "none" ELSE "req"]
    BY DEF SynPacket, Packet
  <2> QED
    BY <2>1, <2>2, <2>3, FlowLifeAssumption DEF PacketRecords
<1>2. given = {p} /\ freed = {p} /\ place = "table" /\ repeats \in BOOLEAN
  BY <1>a DEF Init
<1>c. unhooked = IF p.http = "none" THEN {} ELSE {1}
  BY <1>a, <1>1 DEF Unhooked, Dropping
<1>b. /\ f = AddTo(NewFlow(Socket), p, TRUE)
      /\ order = [Fresh EXCEPT !.src = tcp_order(@, new)]
  BY <1>a
<1> HIDE DEF p
<1>3. IsFiniteSet(given) /\ Cardinality(given) = 1
  BY <1>2, FS_Singleton
<1>4. Ids(given) = {1} /\ Ids({p}) = {1}
  BY <1>1, <1>2 DEF Ids
<1>5. Numbered
  <2>1. 1 .. 1 = {1}
    OBVIOUS
  <2> QED
    BY <1>2, <1>3, <1>4, <2>1 DEF Numbered
<1>6. new \in NodesOf(P, Flags) /\ new.pkt \in {NoPacket} \cup unhooked
  <2>1. /\ NoPacket \in P /\ p.id \in P
        /\ p.dl \in 0 .. LenWord - 1 /\ p.seq \in 0 .. SeqWord - 1
    <3>1. p.id \in Ids({p})
      BY DEF Ids
    <3> QED
      BY <1>1, <3>1, FlowLifeAssumption, WordAssumption
  <2> HIDE DEF P
  <2>2. new \in NodesOf(P, Flags)
    BY <1>1, <2>1, SeqPktNode
  <2>3. new.pkt = IF p.http = "none" THEN NoPacket ELSE 1
    BY <1>1 DEF seq_pkt
  <2> QED
    BY <1>c, <2>2, <2>3
<1>7. order = [src |-> [list |-> <<new>>, last |-> 1, num |-> 1], dst |-> NewOrder]
  <2>1. tcp_order(NewOrder, new) = [list |-> <<new>>, last |-> 1, num |-> 1]
    BY DEF tcp_order, NewOrder
  <2> HIDE DEF new
  <2> QED
    BY <1>b, <2>1 DEF Fresh
<1> HIDE DEF new
<1>8. order.src \in T /\ order.dst \in T /\ order \in [src : T, dst : T]
  <2> HIDE DEF P
  <2>1. <<new>> \in Seq(NodesOf(P, Flags)) /\ <<>> \in Seq(NodesOf(P, Flags))
        /\ Len(<<new>>) = 1
    BY <1>6
  <2>2. [list |-> <<new>>, last |-> 1, num |-> 1] \in T
    BY <2>1 DEF Orders
  <2>3. NewOrder \in T
    BY <2>1 DEF Orders, NewOrder
  <2> HIDE DEF T
  <2> QED
    BY <1>7, <2>2, <2>3
<1>9. \A n \in AllNodes : n.pkt \in {NoPacket} \cup unhooked
  <2>1. Nodes(order.src) = {new} /\ Nodes(order.dst) = {}
    BY <1>7 DEF Nodes, NewOrder
  <2> QED
    BY <1>6, <2>1 DEF AllNodes
<1> DEFINE n == NewFlow(Socket)
<1>10. /\ f.pkt_src = <<>> /\ f.pkt_dst = <<>> /\ ~ f.http
       /\ f.pkts_src = 1 /\ f.pkts_dst = 0 /\ f \in FlowRecords
  <2>1. Kind(n, p, TRUE) = "syn"
    BY <1>1 DEF Kind, NewFlow, SYN, ACK, FIN, RST
  <2>2. f = cal_packet(n, TRUE)
    BY <1>b, <2>1 DEF AddTo, Dropping, Closing
  <2>3. f = [n EXCEPT !.pkts_src = 1]
    BY <2>2 DEF cal_packet, NewFlow
  <2>4. <<>> \in Seq(given)
    OBVIOUS
  <2> QED
    BY <2>3, <2>4 DEF NewFlow, FlowRecords, Socket
<1>11. Chained(f) = {}
  BY <1>10 DEF Chained
<1>12. TypeOK
  <2>1. Lists = T
    BY <1>2 DEF Lists
  <2>2. /\ given \subseteq PacketRecords /\ freed \subseteq given /\ unhooked \subseteq Ids(given)
        /\ f.pkts_src + f.pkts_dst <= Cardinality(given)
    <3>1. given \subseteq PacketRecords /\ freed \subseteq given
      BY <1>1, <1>2
    <3>2. unhooked \subseteq Ids(given)
      BY <1>c, <1>4
    <3>3. 1 + 0 <= Cardinality(given)
      BY <1>3
    <3> HIDE DEF n
    <3> QED
      BY <1>10, <3>1, <3>2, <3>3
  <2> HIDE DEF T
  <2> QED
    BY <1>1, <1>2, <1>3, <1>4, <1>8, <1>10, <2>1, <2>2 DEF TypeOK
<1>13. HttpIffHooked
  BY <1>10, <1>11 DEF HttpIffHooked
<1>14. FreedOnce
  <2>1. Len(f.pkt_src) = 0 /\ Len(f.pkt_dst) = 0 /\ Cardinality(Chained(f)) = 0
    BY <1>10, <1>11, FS_EmptySet
  <2> QED
    BY <1>2, <1>11, <2>1 DEF FreedOnce
<1>15. Referred
  BY <1>2, <1>9 DEF Referred
<1> QED
  BY <1>5, <1>10, <1>12, <1>13, <1>14, <1>15 DEF IInv

\* The scrubber changes nothing but the mark and the place.
LEMMA ForceCloseKeeps ==
  ASSUME IInv, ForceClose
  PROVE  IInv'
<1>1. /\ place = "table" /\ place' = "queue" /\ f' = [f EXCEPT !.close = "forced"]
      /\ UNCHANGED <<repeats, order, given, freed, unhooked>>
  BY DEF ForceClose
<1>2. f \in FlowRecords
  BY DEF IInv, TypeOK
<1>3. /\ f' \in FlowRecords /\ f'.pkt_src = f.pkt_src /\ f'.pkt_dst = f.pkt_dst
      /\ f'.pkts_src = f.pkts_src /\ f'.pkts_dst = f.pkts_dst /\ f'.http = f.http
  BY <1>1, <1>2 DEF FlowRecords
<1>4. Chained(f') = Chained(f)
  BY <1>3 DEF Chained
<1>5. Ids(given)' = Ids(given) /\ Lists' = Lists /\ FlowRecords' = FlowRecords
      /\ AllNodes' = AllNodes
  BY <1>1 DEF Ids, Lists, Flags, FlowRecords, Socket, AllNodes, Nodes
<1>6. TypeOK'
  BY <1>1, <1>3, <1>5 DEF IInv, TypeOK
<1>7. Numbered'
  BY <1>1, <1>5 DEF IInv, Numbered
<1>8. HttpIffHooked'
  BY <1>1, <1>3, <1>4 DEF IInv, HttpIffHooked, Chained
<1>9. FreedOnce'
  BY <1>1, <1>3, <1>4 DEF IInv, FreedOnce, Chained
<1>10. Referred'
  BY <1>1, <1>4, <1>5 DEF IInv, Referred, Ids, Chained
<1> QED
  BY <1>3, <1>6, <1>7, <1>8, <1>9, <1>10 DEF IInv

\* With the flow go the packets that are still hooked.
LEMMA SaveKeeps ==
  ASSUME IInv, Save
  PROVE  IInv'
<1>1. /\ place = "queue" /\ place' = "freed" /\ freed' = freed \cup Chained(f)
      /\ f' = [f EXCEPT !.pkt_src = <<>>, !.pkt_dst = <<>>]
      /\ UNCHANGED <<repeats, order, given, unhooked>>
  BY DEF Save
<1>2. f \in FlowRecords /\ freed \subseteq given
  BY DEF IInv, TypeOK
<1>3. f' \in FlowRecords /\ f'.pkts_src = f.pkts_src /\ f'.pkts_dst = f.pkts_dst
  <2>1. <<>> \in Seq(given)
    OBVIOUS
  <2> QED
    BY <1>1, <1>2, <2>1 DEF FlowRecords
<1>4. Ids(given)' = Ids(given) /\ Lists' = Lists /\ FlowRecords' = FlowRecords
  BY <1>1 DEF Ids, Lists, Flags, FlowRecords, Socket
<1>5. freed' = given
  <2>1. Chained(f) = given \ freed
    BY <1>1 DEF IInv, FreedOnce
  <2> QED
    BY <1>1, <1>2, <2>1
<1>6. TypeOK'
  BY <1>1, <1>3, <1>4, <1>5 DEF IInv, TypeOK
<1>7. Numbered'
  BY <1>1, <1>4 DEF IInv, Numbered
<1>8. HttpIffHooked' /\ FreedOnce' /\ Referred'
  BY <1>1, <1>5 DEF HttpIffHooked, FreedOnce, Referred
<1> QED
  BY <1>3, <1>6, <1>7, <1>8 DEF IInv

-----------------------------------------------------------------------------
\* The inductive invariant holds for flows of any number of packets, for any
\* first sequence number and any word sizes.
THEOREM Invariance == Spec => []IInv
<1>1. Init => IInv
  BY Initially
<1>2. IInv /\ [Next]_vars => IInv'
  <2> SUFFICES ASSUME IInv, [Next]_vars PROVE IInv'
    OBVIOUS
  <2>1. ASSUME NEW src \in BOOLEAN, AddPacket(src) PROVE IInv'
    <3>1. PICK shape \in Shapes,
               seq \in Numbers(IF src THEN order.src.list ELSE order.dst.list) :
            place = "table" /\ Add(Packet(Cardinality(given) + 1, shape, src, seq), src)
      BY <2>1 DEF AddPacket
    <3>2. seq \in 0 .. SeqWord - 1
      <4>1. order.src \in Lists /\ order.dst \in Lists
        BY DEF IInv, TypeOK
      <4>2. /\ Numbers(order.src.list) \subseteq 0 .. SeqWord - 1
            /\ Numbers(order.dst.list) \subseteq 0 .. SeqWord - 1
        BY <4>1, NumbersInWord
      <4> QED
        BY <3>1, <4>2
    <3> QED
      BY <3>1, <3>2, AddKeeps
  <2>2. CASE ForceClose
    BY <2>2, ForceCloseKeeps
  <2>3. CASE Save
    BY <2>3, SaveKeeps
  <2>4. CASE UNCHANGED vars
    <3>1. /\ repeats' = repeats /\ f' = f /\ order' = order /\ place' = place
          /\ given' = given /\ freed' = freed /\ unhooked' = unhooked
      BY <2>4 DEF vars
    <3>2. /\ Ids(given)' = Ids(given) /\ Lists' = Lists /\ FlowRecords' = FlowRecords
          /\ AllNodes' = AllNodes /\ Chained(f)' = Chained(f)
      BY <3>1 DEF Ids, Lists, Flags, FlowRecords, Socket, AllNodes, Nodes, Chained
    <3>3. TypeOK'
      BY <3>1, <3>2 DEF IInv, TypeOK
    <3>4. Numbered'
      BY <3>1, <3>2 DEF IInv, Numbered
    <3>5. HttpIffHooked' /\ FreedOnce'
      BY <3>1, <3>2 DEF IInv, HttpIffHooked, FreedOnce
    <3>6. Referred'
      BY <3>1, <3>2 DEF IInv, Referred, Ids
    <3> QED
      BY <3>1, <3>3, <3>4, <3>5, <3>6 DEF IInv
  <2> QED
    BY <2>1, <2>2, <2>3, <2>4 DEF Next
<1> QED
  BY <1>1, <1>2, PTL DEF Spec

\* A flow has the http flag exactly while packets are hooked on it.
THEOREM HttpMarksHooked == Spec => []HttpIffHooked
<1>1. IInv => HttpIffHooked
  BY DEF IInv
<1> QED
  BY <1>1, Invariance, PTL

\* No packet of a flow is freed twice and none is left behind, whatever the mixture
\* of SYN, FIN, RST and data, and wherever the flow ends.
THEOREM PacketsFreedOnce == Spec => []FreedOnce
<1>1. IInv => FreedOnce
  BY DEF IInv
<1> QED
  BY <1>1, Invariance, PTL

\* While the flow lives, the only freed packets its order lists refer to are those that
\* the call that ordered them freed: a SYN, the client's second packet, a FIN or a RST
\* with an HTTP message.  No packet that was hooked is referred to once it is freed.
THEOREM DanglingBounded == Spec => []DanglingOnlyUnhooked
<1>1. IInv => DanglingOnlyUnhooked
  <2> SUFFICES ASSUME IInv, place # "freed", NEW n \in AllNodes, n.pkt \in Ids(freed)
               PROVE  n.pkt \in unhooked
    BY DEF DanglingOnlyUnhooked
  <2>1. PICK p \in freed : p.id = n.pkt
    BY DEF Ids
  <2>2. p \in given /\ p.id \in Nat
    BY <2>1 DEF IInv, TypeOK, PacketRecords
  <2>3. n.pkt # NoPacket
    BY <2>1, <2>2, FlowLifeAssumption
  <2>4. n.pkt \notin Ids(Chained(f))
    <3> SUFFICES ASSUME NEW c \in Chained(f), c.id = n.pkt PROVE FALSE
      BY DEF Ids
    <3>1. c \in given /\ c \notin freed
      BY DEF IInv, FreedOnce
    <3>2. c = p
      BY <2>1, <2>2, <3>1 DEF IInv, Numbered
    <3> QED
      BY <2>1, <3>1, <3>2
  <2> QED
    BY <2>3, <2>4 DEF IInv, Referred
<1> QED
  BY <1>1, Invariance, PTL

-----------------------------------------------------------------------------
(* The order lists of a flow whose packets are captured once. *)

\* The list of a direction with num packets: in order, and not beyond number B.
Direction(l, num, B) ==
  /\ Len(l) = num /\ Monotone(l)
  /\ \A i \in 1 .. Len(l) : 0 < l[i].nxt /\ l[i].nxt <= B

\* Every packet of the chain is in the list.
Hooks(chain, l) == \A i \in DOMAIN chain : \E j \in 1 .. Len(l) : l[j].pkt = chain[i].id

\* No packet takes more than six numbers: the body of the one before it, two for its
\* header and one for a FIN.
Highest == ISN + 6 * Cardinality(given)

InOrder ==
  ~ repeats /\ place # "freed" =>
    /\ Direction(order.src.list, f.pkts_src, Highest)
    /\ Direction(order.dst.list, f.pkts_dst, Highest)
    /\ Hooks(f.pkt_src, order.src.list)
    /\ Hooks(f.pkt_dst, order.dst.list)

\* The number that a direction goes on with does not lie before its end, and the end of
\* the packet is not wrapped.
LEMMA GoesOn ==
  ASSUME ~ repeats, ISN > 0, NEW P, NEW F, NEW l \in Seq(NodesOf(P, F)), NEW num,
         NEW B \in Nat, ISN <= B, B + 6 < SeqWord, Direction(l, num, B),
         NEW seq \in Numbers(l), NEW d \in 0 .. 3
  PROVE  /\ seq \in Nat /\ 0 < seq /\ seq + d <= B + 6
         /\ l # <<>> => l[Len(l)].nxt <= seq
         /\ (seq + d) % SeqWord = seq + d
<1>1. SeqWord \in Nat /\ ISN \in Nat
  BY WordAssumption, FlowLifeAssumption
<1> DEFINE end == IF l = <<>> THEN ISN ELSE l[Len(l)].nxt
<1>2. end \in Nat /\ 0 < end /\ end <= B
  <2>1. CASE l = <<>>
    BY <1>1, <2>1
  <2>2. CASE l # <<>>
    <3>1. Len(l) \in 1 .. Len(l)
      BY <2>2, LenProperties, EmptySeq
    <3>2. l[Len(l)].nxt \in Nat
      BY <3>1, NodeNumbers
    <3> QED
      BY <2>2, <3>1, <3>2 DEF Direction
  <2> QED
    BY <2>1, <2>2
<1>3. seq = end \/ seq = (end + 3) % SeqWord
  <2>1. Numbers(l) \subseteq {end} \cup {(end + Body) % SeqWord}
    BY DEF Numbers
  <2> HIDE DEF end
  <2> QED
    BY <2>1 DEF Body
<1>4. l # <<>> => l[Len(l)].nxt = end
  OBVIOUS
<1> HIDE DEF end
<1>5. end + 3 \in 0 .. SeqWord - 1 /\ end + 3 \in Int
  BY <1>1, <1>2
<1>6. (end + 3) % SeqWord = end + 3
  BY <1>5, Words
<1>7. seq \in Nat /\ end <= seq /\ seq <= end + 3
  BY <1>2, <1>3, <1>6
<1>8. seq + d \in 0 .. SeqWord - 1 /\ seq + d \in Int /\ seq + d <= B + 6
  BY <1>1, <1>2, <1>7
<1>9. (seq + d) % SeqWord = seq + d
  BY <1>8, Words
<1> QED
  BY <1>2, <1>4, <1>7, <1>8, <1>9

\* What n does to the list l of a direction with num packets up to number B.
Grown(l, s, n, num, B) ==
  /\ Direction(s, num + 1, B + 6)
  /\ \A j \in 1 .. Len(l) : \E i \in 1 .. Len(s) : s[i] = l[j]
  /\ \E i \in 1 .. Len(s) : s[i].pkt = n.pkt

\* A packet that goes on is the last node of its direction.
LEMMA DirectionGrows ==
  ASSUME ~ repeats, ISN > 0, NEW P, NEW F, NEW o \in Orders(P, F), NEW num \in Nat,
         NEW B \in Nat, ISN <= B, B + 6 < SeqWord, Direction(o.list, num, B),
         NEW seq \in Numbers(o.list), NEW d \in 0 .. 3,
         NEW n \in NodesOf(P, F), n.seq = seq, n.nxt = (seq + d) % SeqWord
  PROVE  Grown(o.list, tcp_order(o, n).list, n, num, B)
<1> DEFINE l == o.list
           s == tcp_order(o, n).list
<1>1. l \in Seq(NodesOf(P, F))
  BY DEF Orders
<1>2. /\ seq \in Nat /\ 0 < seq /\ seq + d <= B + 6
      /\ l # <<>> => l[Len(l)].nxt <= seq
      /\ (seq + d) % SeqWord = seq + d
  <2> HIDE DEF l
  <2>1. Direction(l, num, B) /\ seq \in Numbers(l)
    BY DEF l
  <2>2. ~ repeats /\ ISN > 0 /\ B \in Nat /\ ISN <= B /\ B + 6 < SeqWord /\ d \in 0 .. 3
    OBVIOUS
  <2> QED
    BY ONLY <1>1, <2>1, <2>2, GoesOn, Zenon
<1>3. n.nxt = seq + d /\ n.nxt \in Nat /\ 0 < n.nxt /\ n.seq <= n.nxt /\ n.nxt <= B + 6
  BY <1>2
<1>4. CASE l = <<>>
  <2>1. s = <<n>>
    BY <1>4 DEF tcp_order
  <2>2. Len(s) = 1 /\ s[1] = n /\ Len(l) = 0
    BY <1>4, <2>1
  <2>3. num = 0
    BY <2>2 DEF Direction
  <2> HIDE DEF l, s
  <2>4. \A i \in 1 .. Len(s) : i = 1
    BY <2>2
  <2>5. Monotone(s)
    BY <1>3, <2>2, <2>4 DEF Monotone
  <2>6. Direction(s, num + 1, B + 6)
    BY <1>3, <2>2, <2>3, <2>4, <2>5 DEF Direction
  <2>7. 1 \in 1 .. Len(s) /\ \A j \in 1 .. Len(l) : FALSE
    BY <2>2
  <2> QED
    BY <2>2, <2>6, <2>7 DEF Grown, l, s
<1>5. CASE l # <<>>
  <2>1. /\ Monotone(l) /\ Len(l) = num
        /\ \A i \in 1 .. Len(l) : l[i].nxt > 0 /\ l[i].nxt <= B
    BY <1>1, NodeNumbers DEF Direction
  <2>2. l[Len(l)].nxt <= n.seq
    BY <1>2, <1>5
  <2>3. /\ Len(s) = Len(l) + 1 /\ Monotone(s)
        /\ \A i \in 1 .. Len(s) : s[i].nxt = n.nxt \/ \E j \in 1 .. Len(l) : s[i] = l[j]
        /\ \A j \in 1 .. Len(l) : \E i \in 1 .. Len(s) : s[i] = l[j]
        /\ \E i \in 1 .. Len(s) : s[i].pkt = n.pkt
    BY <1>3, <1>5, <2>1, <2>2, GoesLast
  <2>4. \A i \in 1 .. Len(l) : l[i].nxt \in Nat
    BY <1>1, NodeNumbers
  <2> HIDE DEF l, s
  <2>5. ASSUME NEW i \in 1 .. Len(s) PROVE 0 < s[i].nxt /\ s[i].nxt <= B + 6
    <3>1. CASE s[i].nxt = n.nxt
      BY <1>3, <3>1
    <3>2. ASSUME NEW j \in 1 .. Len(l), s[i] = l[j]
          PROVE  0 < s[i].nxt /\ s[i].nxt <= B + 6
      <4> DEFINE a == l[j].nxt
      <4>1. a \in Nat /\ a > 0 /\ a <= B
        BY <2>1, <2>4
      <4>2. s[i].nxt = a
        BY <3>2
      <4> HIDE DEF a
      <4>3. 0 < a /\ a <= B + 6
        BY <4>1
      <4> QED
        BY <4>2, <4>3
    <3> QED
      BY <2>3, <3>1, <3>2
  <2>6. Direction(s, num + 1, B + 6)
    BY <2>1, <2>3, <2>5 DEF Direction
  <2> QED
    BY <2>3, <2>6 DEF Grown, l, s
<1> QED
  BY <1>4, <1>5

\* What a list holds of a chain it still holds when it has grown, and the new packet.
LEMMA HooksKept ==
  ASSUME NEW T, NEW chain \in Seq(T), NEW l, NEW s, Hooks(chain, l),
         \A j \in 1 .. Len(l) : \E i \in 1 .. Len(s) : s[i] = l[j]
  PROVE  /\ Hooks(chain, s)
         /\ \A p \in T : (\E i \in 1 .. Len(s) : s[i].pkt = p.id) => Hooks(Append(chain, p), s)
<1>1. \A i \in DOMAIN chain : \E j \in 1 .. Len(s) : s[j].pkt = chain[i].id
  BY DEF Hooks
<1>2. ASSUME NEW p \in T, \E i \in 1 .. Len(s) : s[i].pkt = p.id
      PROVE  Hooks(Append(chain, p), s)
  <2> DEFINE a == Append(chain, p)
  <2>1. Len(chain) \in Nat /\ DOMAIN chain = 1 .. Len(chain)
    BY LenProperties
  <2>2. /\ \A i \in 1 .. Len(chain) : a[i] = chain[i]
        /\ a[Len(chain) + 1] = p
        /\ DOMAIN a = 1 .. Len(chain) + 1
    BY <2>1, AppendProperties, LenProperties
  <2> HIDE DEF a
  <2>3. \A i \in DOMAIN a : i \in DOMAIN chain \/ i = Len(chain) + 1
    BY <2>1, <2>2
  <2>4. Hooks(a, s)
    BY <1>1, <1>2, <2>1, <2>2, <2>3 DEF Hooks
  <2> QED
    BY <2>4 DEF a
<1> QED
  BY <1>1, <1>2 DEF Hooks

\* cal_packet counts the packet in its direction only.
LEMMA CountedHere ==
  ASSUME NEW S, NEW r \in RecordsOf(S), NEW src \in BOOLEAN
  PROVE  LET g == cal_packet(r, src) IN
         /\ src => g.pkts_src = r.pkts_src + 1 /\ g.pkts_dst = r.pkts_dst
         /\ ~ src => g.pkts_src = r.pkts_src /\ g.pkts_dst = r.pkts_dst + 1
<1> DEFINE a == r.pkts_src + 1
           b == r.pkts_dst + 1
<1>1. CASE src
  <2>1. cal_packet(r, src) = [r EXCEPT !.pkts_src = a]
    BY <1>1 DEF cal_packet, RecordsOf
  <2> HIDE DEF a
  <2>2. [r EXCEPT !.pkts_src = a].pkts_src = a /\ [r EXCEPT !.pkts_src = a].pkts_dst = r.pkts_dst
    BY DEF RecordsOf
  <2> QED
    BY <1>1, <2>1, <2>2 DEF a
<1>2. CASE ~ src
  <2>1. cal_packet(r, src) = [r EXCEPT !.pkts_dst = b]
    BY <1>2 DEF cal_packet, RecordsOf
  <2> HIDE DEF b
  <2>2. [r EXCEPT !.pkts_dst = b].pkts_dst = b /\ [r EXCEPT !.pkts_dst = b].pkts_src = r.pkts_src
    BY DEF RecordsOf
  <2> QED
    BY <1>2, <2>1, <2>2 DEF b
<1> QED
  BY <1>1, <1>2

\* flow_add_packet counts and hooks a packet in its direction, unless it frees or resets
\* the flow.
LEMMA DirectionStep ==
  ASSUME NEW S, NEW T, S \subseteq T, f \in RecordsOf(S), NEW p \in T, NEW src \in BOOLEAN
  PROVE  LET k == Kind(f, p, src)
             g == AddTo(f, p, src)
         IN /\ k \notin Dropping \cup {"syn_again"} =>
                 /\ src => /\ g.pkts_src = f.pkts_src + 1 /\ g.pkts_dst = f.pkts_dst
                           /\ g.pkt_dst = f.pkt_dst
                           /\ \/ g.pkt_src = f.pkt_src
                              \/ p.http # "none" /\ g.pkt_src = Append(f.pkt_src, p)
                 /\ ~ src => /\ g.pkts_src = f.pkts_src /\ g.pkts_dst = f.pkts_dst + 1
                             /\ g.pkt_src = f.pkt_src
                             /\ \/ g.pkt_dst = f.pkt_dst
                                \/ p.http # "none" /\ g.pkt_dst = Append(f.pkt_dst, p)
            /\ k = "syn_again" => /\ src /\ g.pkts_src = 1 /\ g.pkts_dst = 0
                                  /\ g.pkt_src = <<>> /\ g.pkt_dst = <<>>
<1> DEFINE k == Kind(f, p, src)
           g == AddTo(f, p, src)
           Moves(h, j) ==
             /\ src => h.pkts_src = j.pkts_src + 1 /\ h.pkts_dst = j.pkts_dst
             /\ ~ src => h.pkts_src = j.pkts_src /\ h.pkts_dst = j.pkts_dst + 1
           Same(h) == h.pkt_src = f.pkt_src /\ h.pkt_dst = f.pkt_dst
<1>1. f \in RecordsOf(T)
  BY SeqMonotonic DEF RecordsOf
<1>2. /\ k \in Dropping \cup Closing \cup {"handshake", "syn", "plain", "syn_again", "http"}
      /\ k = "http" => p.http # "none"
      /\ k = "syn_again" => src
  BY Kinds
<1>3. CASE k \in Closing
  <2> DEFINE c == cal_packet(f, src)
  <2>1. g = [c EXCEPT !.close = "closed"] /\ k \notin Dropping /\ k # "syn_again"
    BY <1>3 DEF AddTo, Closing, Dropping
  <2>2. c \in RecordsOf(T) /\ c.pkt_src = f.pkt_src /\ c.pkt_dst = f.pkt_dst
    BY <1>1, Counted
  <2>3. Moves(c, f)
    BY <1>1, CountedHere
  <2> HIDE DEF c, g, k
  <2>4. /\ g.pkt_src = c.pkt_src /\ g.pkt_dst = c.pkt_dst
        /\ g.pkts_src = c.pkts_src /\ g.pkts_dst = c.pkts_dst
    BY <2>1, <2>2 DEF RecordsOf
  <2> QED
    BY <2>1, <2>2, <2>3, <2>4 DEF g, k
<1>4. CASE k \in {"handshake", "syn", "plain"}
  <2>1. g = cal_packet(f, src) /\ k \notin Dropping /\ k # "syn_again"
    BY <1>4 DEF AddTo, Closing, Dropping
  <2>2. g.pkt_src = f.pkt_src /\ g.pkt_dst = f.pkt_dst
    BY <1>1, <2>1, Counted
  <2>3. Moves(g, f)
    BY <1>1, <2>1, CountedHere
  <2> HIDE DEF g, k
  <2> QED
    BY <2>1, <2>2, <2>3 DEF g, k
<1>5. CASE k = "http"
  <2> DEFINE h == hook_packet(f, p, src)
             c == cal_packet(h, src)
  <2>1. g = [c EXCEPT !.http = TRUE] /\ k \notin Dropping
    BY <1>5 DEF AddTo, Closing, Dropping
  <2>2. /\ h \in RecordsOf(T)
        /\ h.pkts_src = f.pkts_src /\ h.pkts_dst = f.pkts_dst
        /\ src => h.pkt_src = Append(f.pkt_src, p) /\ h.pkt_dst = f.pkt_dst
        /\ ~ src => h.pkt_src = f.pkt_src /\ h.pkt_dst = Append(f.pkt_dst, p)
    BY <1>1, HookedPacket
  <2> HIDE DEF h
  <2>3. c \in RecordsOf(T) /\ c.pkt_src = h.pkt_src /\ c.pkt_dst = h.pkt_dst
    BY <2>2, Counted
  <2>4. Moves(c, h)
    BY <2>2, CountedHere
  <2> HIDE DEF c, g, k
  <2>5. /\ g.pkt_src = c.pkt_src /\ g.pkt_dst = c.pkt_dst
        /\ g.pkts_src = c.pkts_src /\ g.pkts_dst = c.pkts_dst
    BY <2>1, <2>3 DEF RecordsOf
  <2>6. p.http # "none"
    BY <1>2, <1>5 DEF k
  <2> QED
    BY <1>5, <2>1, <2>2, <2>3, <2>4, <2>5, <2>6 DEF g, k
<1>6. CASE k = "syn_again"
  <2> DEFINE n == NewFlow(f.socket)
  <2>1. g = cal_packet(n, src) /\ k \notin Dropping
    BY <1>6 DEF AddTo, Closing, Dropping
  <2>2. /\ n \in RecordsOf(T) /\ n.pkt_src = <<>> /\ n.pkt_dst = <<>>
        /\ n.pkts_src = 0 /\ n.pkts_dst = 0
    <3>1. <<>> \in Seq(T) /\ f.socket \in {Socket}
      BY DEF RecordsOf
    <3> QED
      BY <3>1 DEF NewFlow, RecordsOf
  <2> HIDE DEF n
  <2>3. g.pkt_src = n.pkt_src /\ g.pkt_dst = n.pkt_dst
    BY <2>1, <2>2, Counted
  <2>4. Moves(g, n) /\ src
    BY <1>2, <1>6, <2>1, <2>2, CountedHere
  <2> HIDE DEF g, k
  <2>5. g.pkts_src = 1 /\ g.pkts_dst = 0
    BY <2>2, <2>4
  <2> QED
    BY <1>6, <2>2, <2>3, <2>4, <2>5 DEF g, k
<1>7. CASE k \in Dropping
  <2>1. k # "syn_again"
    BY <1>7 DEF Dropping
  <2> HIDE DEF k
  <2> QED
    BY <1>7, <2>1 DEF k
<1> HIDE DEF k, g
<1> QED
  BY <1>2, <1>3, <1>4, <1>5, <1>6, <1>7 DEF k, g

\* The first node of a direction.
LEMMA FirstNode ==
  ASSUME NEW n, NEW B, n.seq <= n.nxt, 0 < n.nxt, n.nxt <= B
  PROVE  Direction(tcp_order(NewOrder, n).list, 1, B)
<1> DEFINE s == tcp_order(NewOrder, n).list
<1>1. s = <<n>>
  BY DEF tcp_order, NewOrder
<1>2. Len(s) = 1 /\ s[1] = n
  BY <1>1
<1> HIDE DEF s
<1>3. \A i \in 1 .. Len(s) : i = 1
  BY <1>2
<1>4. Monotone(s)
  BY <1>2, <1>3 DEF Monotone
<1>5. Direction(s, 1, B)
  BY <1>2, <1>3, <1>4 DEF Direction
<1> QED
  BY <1>5 DEF s

\* A direction stays below a higher number.
LEMMA DirectionBelow ==
  ASSUME NEW P, NEW F, NEW l \in Seq(NodesOf(P, F)), NEW num, NEW B \in Nat, Direction(l, num, B)
  PROVE  Direction(l, num, B + 6)
<1>1. \A i \in 1 .. Len(l) : l[i].nxt \in Nat
  BY NodeNumbers
<1>2. \A i \in 1 .. Len(l) : 0 < l[i].nxt /\ l[i].nxt <= B
  BY DEF Direction
<1>3. \A i \in 1 .. Len(l) : l[i].nxt <= B + 6
  BY <1>1, <1>2
<1> QED
  BY <1>2, <1>3 DEF Direction

\* The node of a packet: it takes three numbers at most.
LEMMA PacketNode ==
  ASSUME NEW ids, NEW p \in PacketRecords, p.id \in ids
  PROVE  LET n == seq_pkt(p) IN
         /\ n \in NodesOf(ids \cup {NoPacket}, Flags)
         /\ n.seq = p.seq /\ \E d \in 0 .. 3 : n.nxt = (p.seq + d) % SeqWord
         /\ p.http # "none" => n.pkt = p.id
<1> DEFINE P == ids \cup {NoPacket}
           b == IF p.flags \cap {"SYN", "FIN"} = {} THEN 0 ELSE 1
<1>1. p.flags \in Flags /\ p.seq \in 0 .. SeqWord - 1 /\ p.dl \in 0 .. 2
  BY DEF PacketRecords
<1>2. p.dl \in 0 .. LenWord - 1
  BY <1>1, FlowLifeAssumption, WordAssumption
<1>3. NoPacket \in P /\ p.id \in P
  OBVIOUS
<1>4. seq_pkt(p) \in NodesOf(P, Flags) /\ (p.http # "none" => seq_pkt(p).pkt = p.id)
  <2> HIDE DEF P
  <2> QED
    BY <1>1, <1>2, <1>3, SeqPktNode
<1>5. seq_pkt(p).seq = p.seq /\ seq_pkt(p).nxt = (p.seq + p.dl + b) % SeqWord
  BY DEF seq_pkt
<1>6. b \in 0 .. 1
  OBVIOUS
<1> HIDE DEF b
<1>7. p.dl + b \in 0 .. 3 /\ p.seq + p.dl + b = p.seq + (p.dl + b)
  BY <1>1, <1>6, WordAssumption
<1> QED
  BY <1>4, <1>5, <1>7

\* flow_add_packet keeps the lists in order.
LEMMA AddInOrder ==
  ASSUME IInv, InOrder, ~ repeats, ISN > 0, ISN + 6 * MaxPackets < SeqWord, place = "table",
         Cardinality(given) < MaxPackets, NEW shape \in Shapes, NEW src \in BOOLEAN,
         NEW seq \in Numbers(IF src THEN order.src.list ELSE order.dst.list),
         Add(Packet(Cardinality(given) + 1, shape, src, seq), src)
  PROVE  InOrder'
<1> DEFINE p == Packet(Cardinality(given) + 1, shape, src, seq)
           k == Kind(f, p, src)
           g == AddTo(f, p, src)
           n == seq_pkt(p)
           B == Highest
           ids == Ids(given')
           P == ids \cup {NoPacket}
           T == Orders(P, Flags)
<1>1. order.src \in Lists /\ order.dst \in Lists
  BY DEF IInv, TypeOK
<1>2. seq \in 0 .. SeqWord - 1
  BY <1>1, NumbersInWord
<1>3. /\ p \in PacketRecords /\ p.id = Cardinality(given) + 1
      /\ p \notin given /\ p.id \notin Ids(given)
  BY <1>2, NextPacket DEF IInv
<1>4. p.seq = seq
  BY DEF Packet
<1>5. /\ f' = IF k \in Dropping THEN f ELSE g
      /\ order' = Ordered(k, p, src)
      /\ place' = IF k \in Dropping THEN "freed"
                  ELSE IF k \in Closing THEN "queue" ELSE place
      /\ given' = given \cup {p}
      /\ repeats' = repeats
  BY DEF Add
<1> HIDE DEF p
<1>6. Cardinality(given') = Cardinality(given) + 1 /\ ids = Ids(given) \cup {p.id}
  <2> HIDE DEF k, g
  <2> QED
    BY <1>3, <1>5, OneMore DEF IInv
<1>7. Cardinality(given) \in Nat
  BY FS_CardinalityType DEF IInv, Numbered
<1>8. B \in Nat /\ ISN <= B /\ B + 6 < SeqWord /\ ISN \in Nat
  BY <1>7, FlowLifeAssumption, WordAssumption DEF Highest
<1>9. Highest' = B + 6
  <2>1. Highest' = ISN + 6 * Cardinality(given')
    BY DEF Highest
  <2> QED
    BY <1>6, <1>7, <1>8, <2>1 DEF Highest
<1> HIDE DEF B, ids
<1>10. /\ n \in NodesOf(P, Flags) /\ n.seq = seq
       /\ \E d \in 0 .. 3 : n.nxt = (seq + d) % SeqWord
       /\ p.http # "none" => n.pkt = p.id
  <2>1. p.id \in ids
    BY <1>6
  <2> HIDE DEF n
  <2> QED
    BY <1>3, <1>4, <2>1, PacketNode DEF n
<1>11. PICK d \in 0 .. 3 : n.nxt = (seq + d) % SeqWord
  BY <1>10
<1>12. order.src \in T /\ order.dst \in T
  <2>1. Ids(given) \cup {NoPacket} \subseteq P
    BY <1>6
  <2> HIDE DEF P
  <2> QED
    BY <1>1, <2>1, ListsGrow DEF Lists
<1> HIDE DEF n, P
<1>13. order.src.list \in Seq(NodesOf(P, Flags)) /\ order.dst.list \in Seq(NodesOf(P, Flags))
  BY <1>12 DEF Orders
<1>14. /\ Direction(order.src.list, f.pkts_src, B) /\ Direction(order.dst.list, f.pkts_dst, B)
       /\ Hooks(f.pkt_src, order.src.list) /\ Hooks(f.pkt_dst, order.dst.list)
  BY DEF InOrder, B
<1>15. /\ f \in RecordsOf(given) /\ given \subseteq given' /\ p \in given'
       /\ f.pkts_src \in Nat /\ f.pkts_dst \in Nat
       /\ f.pkt_src \in Seq(given') /\ f.pkt_dst \in Seq(given')
  <2>1. f \in RecordsOf(given)
    BY DEF IInv, TypeOK, FlowRecords, RecordsOf
  <2>2. given \subseteq given' /\ p \in given'
    BY <1>5
  <2>3. Seq(given) \subseteq Seq(given')
    BY <2>2, SeqMonotonic
  <2> QED
    BY <2>1, <2>2, <2>3 DEF RecordsOf
<1>16. /\ k \notin Dropping \cup {"syn_again"} =>
            /\ src => /\ g.pkts_src = f.pkts_src + 1 /\ g.pkts_dst = f.pkts_dst
                      /\ g.pkt_dst = f.pkt_dst
                      /\ \/ g.pkt_src = f.pkt_src
                         \/ p.http # "none" /\ g.pkt_src = Append(f.pkt_src, p)
            /\ ~ src => /\ g.pkts_src = f.pkts_src /\ g.pkts_dst = f.pkts_dst + 1
                        /\ g.pkt_src = f.pkt_src
                        /\ \/ g.pkt_dst = f.pkt_dst
                           \/ p.http # "none" /\ g.pkt_dst = Append(f.pkt_dst, p)
       /\ k = "syn_again" => /\ src /\ g.pkts_src = 1 /\ g.pkts_dst = 0
                             /\ g.pkt_src = <<>> /\ g.pkt_dst = <<>>
  BY <1>15, DirectionStep
<1> HIDE DEF g, k
<1>17. ASSUME k \notin Dropping,
              Direction(order'.src.list, g.pkts_src, B + 6),
              Direction(order'.dst.list, g.pkts_dst, B + 6),
              Hooks(g.pkt_src, order'.src.list), Hooks(g.pkt_dst, order'.dst.list)
       PROVE  InOrder'
  <2>1. f' = g
    BY <1>5, <1>17
  <2> QED
    BY <1>9, <1>17, <2>1 DEF InOrder
<1>18. CASE k \in Dropping
  BY <1>5, <1>18 DEF InOrder
<1>19. CASE k = "syn_again"
  <2> DEFINE l == order.src.list
             q == tcp_order(NewOrder, n)
  <2>1. k \notin Dropping
    BY <1>19 DEF Dropping
  <2>2. order' = [Fresh EXCEPT !.src = q]
    BY <1>5, <1>16, <1>19, <2>1 DEF Ordered, Fresh, n
  <2>3. order'.src = q /\ order'.dst = NewOrder
    <3> HIDE DEF q
    <3> QED
      BY <2>2 DEF Fresh
  <2>4. seq \in Numbers(l)
    BY <1>16, <1>19
  <2> HIDE DEF l
  <2>5. seq \in Nat /\ 0 < seq /\ seq + d <= B + 6 /\ (seq + d) % SeqWord = seq + d
    <3>1. l \in Seq(NodesOf(P, Flags)) /\ Direction(l, f.pkts_src, B)
      BY <1>13, <1>14 DEF l
    <3>2. ~ repeats /\ ISN > 0
      OBVIOUS
    <3> QED
      BY ONLY <1>8, <1>11, <2>4, <3>1, <3>2, GoesOn, Zenon
  <2>6. n.seq <= n.nxt /\ 0 < n.nxt /\ n.nxt <= B + 6
    BY <1>10, <1>11, <2>5
  <2>7. Direction(q.list, 1, B + 6)
    BY <2>6, FirstNode
  <2>8. Direction(NewOrder.list, 0, B + 6)
    BY DEF Direction, NewOrder, Monotone
  <2>9. Hooks(<<>>, q.list) /\ Hooks(<<>>, NewOrder.list)
    BY DEF Hooks
  <2> HIDE DEF q
  <2> QED
    BY <1>16, <1>17, <1>19, <2>1, <2>3, <2>7, <2>8, <2>9
<1>20. CASE k \notin Dropping \cup {"syn_again"} /\ src
  <2> DEFINE o == order.src
             q == tcp_order(o, n)
  <2>1. order' = [order EXCEPT !.src = q]
    BY <1>5, <1>20 DEF Ordered, n
  <2>2. order \in [src : Lists, dst : Lists]
    BY DEF IInv, TypeOK
  <2>3. order'.src = q /\ order'.dst = order.dst
    <3> HIDE DEF q
    <3> QED
      BY <2>1, <2>2
  <2>4. seq \in Numbers(o.list)
    BY <1>20
  <2>5. o \in Orders(P, Flags) /\ Direction(o.list, f.pkts_src, B)
    BY <1>12, <1>14
  <2> HIDE DEF o, q
  <2>6. /\ Direction(q.list, f.pkts_src + 1, B + 6)
        /\ \A j \in 1 .. Len(o.list) : \E i \in 1 .. Len(q.list) : q.list[i] = o.list[j]
        /\ \E i \in 1 .. Len(q.list) : q.list[i].pkt = n.pkt
    <3> DEFINE num == f.pkts_src
    <3>1. ~ repeats /\ ISN > 0 /\ B \in Nat /\ ISN <= B /\ B + 6 < SeqWord
      BY <1>8
    <3>2. /\ n \in NodesOf(P, Flags) /\ n.seq = seq /\ n.nxt = (seq + d) % SeqWord
      BY <1>10, <1>11
    <3>3. num \in Nat /\ Direction(o.list, num, B) /\ o \in Orders(P, Flags)
      BY <1>15, <2>5
    <3> HIDE DEF num
    <3>4. Grown(o.list, tcp_order(o, n).list, n, num, B)
      BY ONLY <1>11, <2>4, <3>1, <3>2, <3>3, DirectionGrows, Zenon
    <3> QED
      BY <3>4 DEF num, q, Grown
  <2>7. Direction(order.dst.list, f.pkts_dst, B + 6)
    BY <1>8, <1>13, <1>14, DirectionBelow
  <2>8. Hooks(f.pkt_src, q.list) /\ (p.http # "none" => Hooks(Append(f.pkt_src, p), q.list))
    <3>1. Hooks(f.pkt_src, o.list)
      BY <1>14 DEF o
    <3>2. p.http # "none" => \E i \in 1 .. Len(q.list) : q.list[i].pkt = p.id
      BY <1>10, <2>6
    <3> QED
      BY <1>15, <2>6, <3>1, <3>2, HooksKept
  <2>9. Hooks(g.pkt_src, q.list) /\ g.pkts_src = f.pkts_src + 1
        /\ g.pkts_dst = f.pkts_dst /\ g.pkt_dst = f.pkt_dst
    BY <1>16, <1>20, <2>8
  <2> QED
    BY <1>14, <1>17, <1>20, <2>3, <2>6, <2>7, <2>9
<1>21. CASE k \notin Dropping \cup {"syn_again"} /\ ~ src
  <2> DEFINE o == order.dst
             q == tcp_order(o, n)
  <2>1. order' = [order EXCEPT !.dst = q]
    BY <1>5, <1>21 DEF Ordered, n
  <2>2. order \in [src : Lists, dst : Lists]
    BY DEF IInv, TypeOK
  <2>3. order'.dst = q /\ order'.src = order.src
    <3> HIDE DEF q
    <3> QED
      BY <2>1, <2>2
  <2>4. seq \in Numbers(o.list)
    BY <1>21
  <2>5. o \in Orders(P, Flags) /\ Direction(o.list, f.pkts_dst, B)
    BY <1>12, <1>14
  <2> HIDE DEF o, q
  <2>6. /\ Direction(q.list, f.pkts_dst + 1, B + 6)
        /\ \A j \in 1 .. Len(o.list) : \E i \in 1 .. Len(q.list) : q.list[i] = o.list[j]
        /\ \E i \in 1 .. Len(q.list) : q.list[i].pkt = n.pkt
    <3> DEFINE num == f.pkts_dst
    <3>1. ~ repeats /\ ISN > 0 /\ B \in Nat /\ ISN <= B /\ B + 6 < SeqWord
      BY <1>8
    <3>2. /\ n \in NodesOf(P, Flags) /\ n.seq = seq /\ n.nxt = (seq + d) % SeqWord
      BY <1>10, <1>11
    <3>3. num \in Nat /\ Direction(o.list, num, B) /\ o \in Orders(P, Flags)
      BY <1>15, <2>5
    <3> HIDE DEF num
    <3>4. Grown(o.list, tcp_order(o, n).list, n, num, B)
      BY ONLY <1>11, <2>4, <3>1, <3>2, <3>3, DirectionGrows, Zenon
    <3> QED
      BY <3>4 DEF num, q, Grown
  <2>7. Direction(order.src.list, f.pkts_src, B + 6)
    BY <1>8, <1>13, <1>14, DirectionBelow
  <2>8. Hooks(f.pkt_dst, q.list) /\ (p.http # "none" => Hooks(Append(f.pkt_dst, p), q.list))
    <3>1. Hooks(f.pkt_dst, o.list)
      BY <1>14 DEF o
    <3>2. p.http # "none" => \E i \in 1 .. Len(q.list) : q.list[i].pkt = p.id
      BY <1>10, <2>6
    <3> QED
      BY <1>15, <2>6, <3>1, <3>2, HooksKept
  <2>9. Hooks(g.pkt_dst, q.list) /\ g.pkts_dst = f.pkts_dst + 1
        /\ g.pkts_src = f.pkts_src /\ g.pkt_src = f.pkt_src
    BY <1>16, <1>21, <2>8
  <2> QED
    BY <1>14, <1>17, <1>21, <2>3, <2>6, <2>7, <2>9
<1> QED
  BY <1>18, <1>19, <1>20, <1>21

\* Every hooked packet is in the order list of its direction, one node a packet, if the
\* numbers of the flow do not wrap and do not begin with 0.  Otherwise tcp_order may take
\* a new packet for a retransmission and drop it from the list though it is hooked.
THEOREM HookedInOrder ==
  ASSUME ISN > 0, ISN + 6 * MaxPackets < SeqWord
  PROVE  Spec => []HookedIsOrdered
<1>1. Init => InOrder
  <2> SUFFICES ASSUME Init PROVE InOrder
    OBVIOUS
  <2>a. PICK data \in Data :
          /\ f = AddTo(NewFlow(Socket), SynPacket(data), TRUE)
          /\ order = [Fresh EXCEPT !.src = tcp_order(@, seq_pkt(SynPacket(data)))]
          /\ given = {SynPacket(data)}
    BY DEF Init
  <2> DEFINE p == SynPacket(data)
             n == seq_pkt(p)
             q == tcp_order(NewOrder, n)
             r == NewFlow(Socket)
  <2>1. p.flags = {SYN} /\ p.dl \in 0 .. 2 /\ p.seq = ISN
    <3>1. data[1] \in 0 .. 2
      BY DataLength
    <3> QED
      BY <3>1 DEF SynPacket, Packet
  <2>b. f = AddTo(r, p, TRUE) /\ order = [Fresh EXCEPT !.src = q] /\ given = {p}
    BY <2>a DEF Fresh
  <2>2. f = [r EXCEPT !.pkts_src = 1]
    <3> HIDE DEF p
    <3>1. Kind(r, p, TRUE) = "syn"
      BY <2>1 DEF Kind, NewFlow, SYN, ACK, FIN, RST
    <3>2. f = cal_packet(r, TRUE)
      BY <2>b, <3>1 DEF AddTo, Dropping, Closing
    <3> QED
      BY <3>2 DEF cal_packet, NewFlow
  <2>3. f.pkts_src = 1 /\ f.pkts_dst = 0 /\ f.pkt_src = <<>> /\ f.pkt_dst = <<>>
    BY <2>2 DEF NewFlow
  <2>4. order.src = q /\ order.dst = NewOrder
    <3> HIDE DEF q
    <3> QED
      BY <2>b DEF Fresh
  <2> HIDE DEF p
  <2>5. Cardinality(given) = 1
    BY <2>b, FS_Singleton
  <2>6. Highest = ISN + 6 /\ ISN \in Nat /\ SeqWord \in Nat /\ ISN < SeqWord
    BY <2>5, FlowLifeAssumption, WordAssumption DEF Highest
  <2>7. n.seq = ISN /\ n.nxt = (ISN + p.dl + 1) % SeqWord
    <3>1. p.flags \cap {"SYN", "FIN"} # {}
      BY <2>1 DEF SYN
    <3> QED
      BY <2>1, <3>1 DEF seq_pkt
  <2> HIDE DEF n
  <2>8. n.seq <= n.nxt /\ 0 < n.nxt /\ n.nxt <= Highest
    <3> DEFINE e == ISN + p.dl + 1
    <3>1. e \in 0 .. SeqWord - 1 /\ e \in Int /\ ISN <= e /\ 0 < e /\ e <= Highest
      BY <2>1, <2>6, FlowLifeAssumption
    <3> HIDE DEF e
    <3>2. e % SeqWord = e
      BY <3>1, Words
    <3> QED
      BY <2>7, <3>1, <3>2 DEF e
  <2>9. Direction(q.list, 1, Highest)
    BY <2>8, FirstNode
  <2>10. Direction(NewOrder.list, 0, Highest)
    BY DEF Direction, NewOrder, Monotone
  <2>11. Hooks(<<>>, q.list) /\ Hooks(<<>>, NewOrder.list)
    BY DEF Hooks
  <2> HIDE DEF q
  <2> QED
    BY <2>3, <2>4, <2>9, <2>10, <2>11 DEF InOrder
<1>2. IInv /\ InOrder /\ [Next]_vars => InOrder'
  <2> SUFFICES ASSUME IInv, InOrder, [Next]_vars PROVE InOrder'
    OBVIOUS
  <2>1. ASSUME NEW src \in BOOLEAN, AddPacket(src) PROVE InOrder'
    <3>1. PICK shape \in Shapes,
               seq \in Numbers(IF src THEN order.src.list ELSE order.dst.list) :
            Add(Packet(Cardinality(given) + 1, shape, src, seq), src)
      BY <2>1 DEF AddPacket
    <3>2. CASE repeats
      BY <3>1, <3>2 DEF Add, InOrder
    <3>3. CASE ~ repeats
      <4>1. place = "table" /\ Cardinality(given) < MaxPackets
        BY <2>1, <3>3 DEF AddPacket
      <4> QED
        BY <3>1, <3>3, <4>1, AddInOrder
    <3> QED
      BY <3>2, <3>3
  <2>2. CASE ForceClose
    <3>1. /\ place = "table" /\ place' = "queue" /\ f' = [f EXCEPT !.close = "forced"]
          /\ repeats' = repeats /\ order' = order /\ given' = given
      BY <2>2 DEF ForceClose
    <3>2. /\ f'.pkts_src = f.pkts_src /\ f'.pkts_dst = f.pkts_dst
          /\ f'.pkt_src = f.pkt_src /\ f'.pkt_dst = f.pkt_dst
      BY <3>1 DEF IInv, TypeOK, FlowRecords
    <3>3. Highest' = Highest
      BY <3>1 DEF Highest
    <3> QED
      BY <3>1, <3>2, <3>3 DEF InOrder
  <2>3. CASE Save
    BY <2>3 DEF Save, InOrder
  <2>4. CASE UNCHANGED vars
    <3>1. /\ repeats' = repeats /\ f' = f /\ order' = order /\ place' = place
          /\ given' = given
      BY <2>4 DEF vars
    <3>2. Highest' = Highest
      BY <3>1 DEF Highest
    <3> QED
      BY <3>1, <3>2 DEF InOrder
  <2> QED
    BY <2>1, <2>2, <2>3, <2>4 DEF Next
<1>3. IInv /\ InOrder => HookedIsOrdered
  <2> SUFFICES ASSUME IInv, InOrder, ~ repeats, place # "freed"
               PROVE  /\ \A i \in DOMAIN f.pkt_src :
                           \E n \in Nodes(order.src) : n.pkt = f.pkt_src[i].id
                      /\ \A i \in DOMAIN f.pkt_dst :
                           \E n \in Nodes(order.dst) : n.pkt = f.pkt_dst[i].id
                      /\ Len(order.src.list) = f.pkts_src /\ Len(order.dst.list) = f.pkts_dst
    BY DEF HookedIsOrdered
  <2>1. /\ Len(order.src.list) = f.pkts_src /\ Len(order.dst.list) = f.pkts_dst
        /\ Hooks(f.pkt_src, order.src.list) /\ Hooks(f.pkt_dst, order.dst.list)
    BY DEF InOrder, Direction
  <2>2. /\ DOMAIN order.src.list = 1 .. Len(order.src.list)
        /\ DOMAIN order.dst.list = 1 .. Len(order.dst.list)
    BY LenProperties DEF IInv, TypeOK, Lists, Orders
  <2> QED
    BY <2>1, <2>2 DEF Hooks, Nodes
<1> QED
  BY <1>1, <1>2, <1>3, Invariance, PTL DEF Spec

=============================================================================
