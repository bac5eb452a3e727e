------------------------------ MODULE FlowLife -------------------------------
(***************************************************************************)
(* One flow from flow_hash_new to flow_free: the record of module Flow and *)
(* the two ordered lists of module TcpOrder, which flow_add_packet keeps   *)
(* side by side, and which packets are freed on the way.                   *)
(***************************************************************************)
EXTENDS Flow, TcpOrder, FiniteSets

CONSTANTS
  ISN,         \* the first sequence number of either side
  MaxPackets,  \* bound on the packets of the flow
  MaxRepeated  \* the same where packets may be captured again

ASSUME FlowLifeAssumption ==
  /\ ISN \in 0 .. SeqWord - 1 /\ MaxPackets \in Nat \ {0} /\ MaxRepeated \in Nat
  /\ LenWord > 2 /\ NoPacket \notin Nat

VARIABLES
  repeats, \* may packets be captured again
  f,       \* the flow_t
  order,   \* f->order: one list for each direction
  place,   \* "table", "queue" (the flow queue or the flow worker) or "freed"
  given,   \* history: the packets passed to flow_add_packet
  freed,   \* history: the packets freed
  unhooked \* history: ids of the HTTP packets freed by the call that has ordered them

vars == <<repeats, f, order, place, given, freed, unhooked>>

Socket == "socket"
Fresh  == [src |-> NewOrder, dst |-> NewOrder]

\* What a segment can be: its flags, and the length of its data with whether they
\* begin an HTTP message.  packet_preprocess looks for HTTP whatever the flags are.
Flags  == {{SYN}, {SYN, ACK}, {ACK}, {FIN, ACK}, {RST}}
Data   == {<<0, FALSE>>, <<2, FALSE>>, <<2, TRUE>>}
Shapes == Flags \X Data

Packet(n, shape, src, seq) ==
  [id |-> n, flags |-> shape[1], dl |-> shape[2][1], seq |-> seq,
   http |-> IF ~ shape[2][2] THEN "none" ELSE IF src THEN "req" ELSE "rsp"]

\* Mutant: flow_reset keeps the order lists.
OrderedKeeps(k, p, src) ==
  IF k \in Dropping THEN order
  ELSE IF src THEN [order EXCEPT !.src = tcp_order(@, seq_pkt(p))]
  ELSE [order EXCEPT !.dst = tcp_order(@, seq_pkt(p))]

\* cal_packet orders the packet right after it has counted it.
Ordered(k, p, src) ==
  LET base == IF k = "syn_again" THEN Fresh ELSE order
  IN IF k \in Dropping THEN order
     ELSE IF src THEN [base EXCEPT !.src = tcp_order(@, seq_pkt(p))]
     ELSE [base EXCEPT !.dst = tcp_order(@, seq_pkt(p))]

\* Has an HTTP packet gone into the order list and been freed in the same call: a SYN,
\* the client's second packet, a FIN or a RST that begins a message.
Unhooked(k, p) ==
  IF k \in Dropping \cup {"http"} \/ p.http = "none" THEN {} ELSE {p.id}

\* flow_add_packet, on a flow in the table.
Add(p, src) ==
  LET k == Kind(f, p, src) IN
  /\ f' = IF k \in Dropping THEN f ELSE AddTo(f, p, src)
  /\ order' = Ordered(k, p, src)
  /\ place' = IF k \in Dropping THEN "freed"
              ELSE IF k \in Closing THEN "queue" ELSE place
  /\ given' = given \cup {p}
  /\ freed' = freed \cup Freed(f, p, src)
  /\ unhooked' = unhooked \cup Unhooked(k, p)
  /\ UNCHANGED repeats

\* flow_hash_new is followed by the SYN it was made for.
SynPacket(data) == Packet(1, <<{SYN}, data>>, TRUE, ISN)

Init ==
  /\ repeats \in BOOLEAN
  /\ \E data \in Data :
       LET p == SynPacket(data) IN
       /\ f = AddTo(NewFlow(Socket), p, TRUE)
       /\ order = [Fresh EXCEPT !.src = tcp_order(@, seq_pkt(p))]
       /\ given = {p}
       /\ freed = {p}
       /\ unhooked = Unhooked("syn", p)
  /\ place = "table"

\* The number a direction goes on with, or one it has used before.  The tcp_dl of
\* an HTTP packet ends with its header: a body may follow in the same segment.
Body == 3
Numbers(list) ==
  LET end == IF list = <<>> THEN ISN ELSE list[Len(list)].nxt IN
  {end}
    \cup (IF list # <<>> /\ list[Len(list)].pkt # NoPacket
            THEN {(end + Body) % SeqWord} ELSE {})
    \cup (IF repeats THEN {list[i].seq : i \in DOMAIN list} ELSE {})

AddPacket(src) ==
  /\ place = "table"
  /\ Cardinality(given) < (IF repeats THEN MaxRepeated ELSE MaxPackets)
  /\ \E shape \in Shapes :
       \E seq \in Numbers(IF src THEN order.src.list ELSE order.dst.list) :
         Add(Packet(Cardinality(given) + 1, shape, src, seq), src)

\* flow_scrubber.
ForceClose ==
  /\ place = "table"
  /\ f' = [f EXCEPT !.close = "forced"]
  /\ place' = "queue"
  /\ UNCHANGED <<repeats, order, given, freed, unhooked>>

\* process_flow_queue: save the flow and free it.
Save ==
  /\ place = "queue"
  /\ freed' = freed \cup Chained(f)
  /\ f' = [f EXCEPT !.pkt_src = <<>>, !.pkt_dst = <<>>]
  /\ place' = "freed"
  /\ UNCHANGED <<repeats, order, given, unhooked>>

Next == AddPacket(TRUE) \/ AddPacket(FALSE) \/ ForceClose \/ Save

Spec == Init /\ [][Next]_vars

-----------------------------------------------------------------------------
Ids(ps)  == {p.id : p \in ps}
Nodes(o) == {o.list[i] : i \in DOMAIN o.list}
AllNodes == Nodes(order.src) \cup Nodes(order.dst)

PacketRecords ==
  [id : Nat, flags : Flags, dl : 0 .. 2, seq : 0 .. SeqWord - 1,
   http : {"none", "req", "rsp"}]
FlowRecords ==
  [socket : {Socket}, pkt_src : Seq(given), pkt_dst : Seq(given), pkts_src : Nat,
   pkts_dst : Nat, http : BOOLEAN, close : {"open", "closed", "forced"}]
Lists == Orders(Ids(given) \cup {NoPacket}, Flags)

\* Types, and no packet is counted twice.
TypeOK ==
  /\ repeats \in BOOLEAN
  /\ given \subseteq PacketRecords /\ freed \subseteq given /\ unhooked \subseteq Ids(given)
  /\ f \in FlowRecords /\ f.pkts_src + f.pkts_dst <= Cardinality(given)
  /\ order \in [src : Lists, dst : Lists]
  /\ place \in {"table", "queue", "freed"}

\* f->http says that packets are hooked, and none are without it: a repeated SYN
\* takes back both.  So the branch for a flow that is no HTTP flow, which asks
\* for hooked packets of a flow without http, is never taken.
HttpIffHooked == place # "freed" => (f.http <=> Chained(f) # {})

\* No packet is freed twice, by whichever of the ways out of flow_add_packet,
\* flow_reset and flow_free: what is hooked is not freed yet, and hooked once.
\* When the flow is gone no packet of it is left behind.
FreedOnce ==
  /\ place # "freed" =>
       /\ Chained(f) = given \ freed
       /\ Len(f.pkt_src) + Len(f.pkt_dst) = Cardinality(Chained(f))
  /\ place = "freed" => freed = given

\* The hooked packets of a direction are in the order list of that direction,
\* unless tcp_order took them for a retransmission: what flow_extract_http walks
\* and what flow_free frees do not drift apart.
HookedIsOrdered ==
  ~ repeats /\ place # "freed" =>
    /\ \A i \in DOMAIN f.pkt_src : \E n \in Nodes(order.src) : n.pkt = f.pkt_src[i].id
    /\ \A i \in DOMAIN f.pkt_dst : \E n \in Nodes(order.dst) : n.pkt = f.pkt_dst[i].id
    /\ Len(order.src.list) = f.pkts_src /\ Len(order.dst.list) = f.pkts_dst

\* A packet that was hooked is in no order list any more once it is freed: while the
\* flow lives, the only freed packets the lists refer to are HTTP packets that were
\* freed by the very call that ordered them, a SYN, the client's second packet, a FIN
\* or a RST.
DanglingOnlyUnhooked ==
  place # "freed" =>
    \A n \in AllNodes : n.pkt \in Ids(freed) => n.pkt \in unhooked

\* The packets are numbered as they come.
Numbered ==
  /\ IsFiniteSet(given)
  /\ Ids(given) = 1 .. Cardinality(given)
  /\ \A p, q \in given : p.id = q.id => p = q

\* The order lists refer to what is hooked or was freed as soon as it was ordered.
Referred ==
  place # "freed" =>
    \A n \in AllNodes : n.pkt \in {NoPacket} \cup unhooked \cup Ids(Chained(f))

\* The inductive invariant: with a SYN counted, the branch of flow_add_packet for
\* the first SYN is behind us.
IInv ==
  TypeOK /\ Numbered /\ HttpIffHooked /\ FreedOnce /\ Referred /\ f.pkts_src > 0
=============================================================================
