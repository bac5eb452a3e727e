------------------------------ MODULE TcpStream ------------------------------
(***************************************************************************)
(* One direction of a connection as the capture sees it, and the list that *)
(* tcp_order makes of it.  A sender numbers its bytes from isn; segments   *)
(* are cut from them and may reach the capture late or more than once.     *)
(***************************************************************************)
EXTENDS TcpOrder, FiniteSets

CONSTANTS
  Cases  \* what is sent and what becomes of it, see StreamAssumption

\* A case: the first sequence number, the segments the sender may send as
\* <<first, end>> offsets from it, what the network does, a bound on arrivals.
ASSUME StreamAssumption == \A c \in Cases :
  /\ c.isn \in 0 .. SeqWord - 1
  /\ \A cut \in c.cuts :
       cut[1] \in Nat /\ cut[2] \in Nat /\ cut[1] <= cut[2] /\ cut[2] - cut[1] < LenWord
  /\ c.delivery \in {"in_order", "reordered", "repeated", "both"}
  /\ c.bound \in Nat

VARIABLES
  case,      \* the case this behaviour is of
  order,     \* one direction of f->order
  arrived,   \* history: the segments that have arrived
  arrivals   \* history: how many arrivals there were

vars == <<case, order, arrived, arrivals>>

Init == case \in Cases /\ order = NewOrder /\ arrived = {} /\ arrivals = 0

\* The end of what has arrived.
High == IF arrived = {} THEN 0
        ELSE CHOOSE h \in {c[2] : c \in arrived} : \A c \in arrived : c[2] <= h

\* The first byte that has not arrived; High if there is no gap.
Missing == CHOOSE x \in 0 .. High :
  /\ x < High => \A c \in arrived : ~ (c[1] <= x /\ x < c[2])
  /\ \A y \in 0 .. x - 1 : \E c \in arrived : c[1] <= y /\ y < c[2]

\* What was lost is sent again, up to what has arrived behind it, perhaps cut
\* anew and with what arrived before it; the stream goes on at its end.
Resent(c) ==
  \/ c[1] <= Missing /\ (Missing < High => c[2] <= High)
  \/ c[1] = High

\* The lowest segment is always the first: a flow begins with its SYN.
Expected(c) ==
  /\ arrived = {} => c[1] = 0 /\ c[2] > 0
  /\ case.delivery = "in_order" => c[1] = High
  /\ case.delivery = "reordered" => c \notin arrived
  /\ case.delivery = "repeated" => Resent(c) \/ Missing = High

Segment(c) ==
  [id |-> c, flags |-> {"ACK"}, http |-> "req", seq |-> (case.isn + c[1]) % SeqWord,
   dl |-> c[2] - c[1]]

Arrive(c) ==
  /\ arrivals < case.bound
  /\ Expected(c)
  /\ order' = tcp_order(order, seq_pkt(Segment(c)))
  /\ arrived' = arrived \cup {c}
  /\ arrivals' = arrivals + 1
  /\ UNCHANGED case

Next == \E c \in case.cuts : Arrive(c)

Spec == Init /\ [][Next]_vars

-----------------------------------------------------------------------------
\* Types of the list, and last_src within it.
TypeOK ==
  /\ case \in Cases
  /\ order \in Orders(case.cuts, {{"ACK"}})
  /\ arrived \subseteq case.cuts

\* The offset from isn that a node stands for; SeqWord is far larger than any.
Offset(s) == (s - case.isn) % SeqWord
Bytes(n) == Offset(n.seq) .. Offset(n.nxt) - 1

\* The list is in the order of the stream and no byte is in it twice, in
\* whatever order the segments came.
Sorted ==
  \A i \in 1 .. Len(order.list) - 1 :
    Offset(order.list[i].nxt) <= Offset(order.list[i + 1].seq)

\* Nothing that arrived is lost and nothing is invented.
Complete ==
  UNION {Bytes(order.list[i]) : i \in DOMAIN order.list} =
    UNION {c[1] .. c[2] - 1 : c \in arrived}

\* tcp_dl of each stored packet is what is left to it of the stream, though
\* tcp_order computes it by subtracting 16-bit numbers.
LengthsFit == \A i \in DOMAIN order.list :
  order.list[i].dl = Cardinality(Bytes(order.list[i]))

\* Once the stream has no gap, tcp_order_check says so.
CheckAgrees ==
  (\A x \in 0 .. High - 1 : \E c \in arrived : c[1] <= x /\ x < c[2])
    <=> tcp_order_check(order.list)

\* As long as the stream does not wrap, a segment from before the first gap that
\* arrives again changes nothing.
RetransmissionDropped ==
  [][case.delivery = "repeated" /\ case.isn + High < SeqWord /\ arrived' = arrived
       => order' = order]_vars
-----------------------------------------------------------------------------
\* What a comment of the code says, and the code does not do.
\* tcp.c:76: "retransmission".  What has arrived before is not inserted again.
RetransmissionFreed == [][arrived' = arrived => order' = order]_vars

=============================================================================
