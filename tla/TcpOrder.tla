------------------------------ MODULE TcpOrder ------------------------------
(***************************************************************************)
(* The ordered list of one direction of a TCP connection: seq_pkt of       *)
(* src/order.c, and tcp_order and tcp_order_check of src/tcp.c.  The list  *)
(* is a sequence of nodes; a pointer into it is an index.                  *)
(*                                                                         *)
(* A packet p is a record with at least p.id, p.flags, p.http ("none" when *)
(* it is no HTTP packet), p.seq and p.dl, the tcp_dl of packet_preprocess. *)
(***************************************************************************)
EXTENDS Integers, Sequences

CONSTANTS
  SeqWord,   \* the number of values of a u_int32_t sequence number
  LenWord,   \* the number of values of the u_int16_t tcp_dl
  NoPacket   \* seq->pkt = NULL

ASSUME WordAssumption == SeqWord \in Nat \ {0} /\ LenWord \in Nat \ {0}

\* Mutant: keeps the pointer to a packet that is not stored.
seq_pkt_keeps(p) ==
  [pkt   |-> p.id,
   seq   |-> p.seq,
   nxt   |-> (p.seq + p.dl + (IF p.flags \cap {"SYN", "FIN"} = {} THEN 0 ELSE 1))
                % SeqWord,
   dl    |-> p.dl,
   flags |-> p.flags]

\* seq_pkt: a SYN or a FIN takes one number.  cal_packet clears pkt of a packet
\* without HTTP.
seq_pkt(p) ==
  [pkt   |-> IF p.http = "none" THEN NoPacket ELSE p.id,
   seq   |-> p.seq,
   nxt   |-> (p.seq + p.dl + (IF p.flags \cap {"SYN", "FIN"} = {} THEN 0 ELSE 1))
                % SeqWord,
   dl    |-> p.dl,        \* pkt->tcp_dl, of no meaning without pkt
   flags |-> p.flags]

\* order_new, one direction of it.
NewOrder == [list |-> <<>>, last |-> 0, num |-> 0]

\* The types of seq_t and of one direction of order_t: nodes for the packets P
\* with flags of F, and the last node of a list that is not empty within it.
NodesOf(P, F) ==
  [pkt : P, seq : 0 .. SeqWord - 1, nxt : 0 .. SeqWord - 1, dl : 0 .. LenWord - 1,
   flags : F]
Orders(P, F) ==
  {o \in [list : Seq(NodesOf(P, F)), last : Nat, num : Nat] :
     o.list # <<>> => o.last \in 1 .. Len(o.list)}

Joined(list, i) == list[i].nxt = list[i + 1].seq

\* tcp_cont_seq: from node i as far as each node ends where the next begins.
tcp_cont_seq(list, i) ==
  CHOOSE j \in i .. Len(list) :
    /\ \A k \in i .. j - 1 : Joined(list, k)
    /\ j < Len(list) => ~ Joined(list, j)

\* Mutant: new_seq->next is not set, and what followed is lost.
BehindCuts(list, c, n) == Append(SubSeq(list, 1, c), n)

\* new_seq becomes the node behind index c.
Behind(list, c, n) == SubSeq(list, 1, c) \o <<n>> \o SubSeq(list, c + 1, Len(list))

\* Mutant: an overlap with the follower stays.
ClipNot(n, aft) == n

\* Mutant: tcp_dl stays as it was.
ClipNumbersOnly(n, aft) == IF n.nxt <= aft.seq THEN n ELSE [n EXCEPT !.nxt = aft.seq]

\* What reaches into the follower is cut off.
Clip(n, aft) ==
  IF n.nxt <= aft.seq THEN n
  ELSE [n EXCEPT !.dl = (@ - (n.nxt - aft.seq)) % LenWord, !.nxt = aft.seq]

\* With a follower the new node is counted and remembered as the last one.
Linked(o, c, n) ==
  [list |-> Behind(o.list, c, Clip(n, o.list[c + 1])),
   last |-> c + 1,
   num  |-> o.num + 1]

\* Mutant: never takes a segment for a retransmission.
PlaceAlways(o, n, fr, c) ==
  IF c < Len(o.list) THEN Linked(o, c, n) ELSE [o EXCEPT !.list = Behind(@, c, n)]

\* Mutant: remembers the node it has freed as the last one.
PlaceRemembersFreed(o, n, fr, c) ==
  LET bk == (o.list[c].nxt - 1) % SeqWord
  IN IF fr <= n.seq /\ n.seq <= bk THEN [o EXCEPT !.last = c + 1]
     ELSE IF c < Len(o.list) THEN Linked(o, c, n)
     ELSE [o EXCEPT !.list = Behind(@, c, n)]

\* "add new seq to the right position": behind node c, which ends a continuous
\* segment that starts at number fr.
Place(o, n, fr, c) ==
  LET bk      == (o.list[c].nxt - 1) % SeqWord
      end     == (n.nxt - 1) % SeqWord
      follows == c < Len(o.list)
      rest    == [n EXCEPT !.seq = (bk + 1) % SeqWord, !.dl = (end - bk) % LenWord]
  IN IF fr <= n.seq /\ n.seq <= bk
       THEN IF end <= bk THEN o
            ELSE IF follows THEN Linked(o, c, rest)
            ELSE [list |-> Behind(o.list, c, rest), last |-> c + 1, num |-> o.num]
       ELSE IF follows THEN Linked(o, c, n)
            ELSE [o EXCEPT !.list = Behind(@, c, n)]

tcp_order(o, n) ==
  LET list  == o.list
      later == {i \in 1 .. Len(list) : list[i].nxt > n.seq}
      stop  == CHOOSE i \in later : \A j \in later : i <= j
      pre   == IF stop = 1 THEN 1 ELSE stop - 1
  IN IF list = <<>> THEN [list |-> <<n>>, last |-> 1, num |-> o.num + 1]
     ELSE IF list[o.last].nxt = n.seq
       THEN Place(o, n, list[o.last].seq, tcp_cont_seq(list, o.last))
     ELSE IF later = {}
       THEN [list |-> Append(list, n), last |-> Len(list) + 1, num |-> o.num + 1]
     ELSE Place(o, n, list[pre].seq, tcp_cont_seq(list, pre))

\* Mutant: leaves out the last pair.
tcp_order_check_short(list) == \A i \in 1 .. Len(list) - 2 : Joined(list, i)

\* tcp_order_check, one direction.
tcp_order_check(list) == \A i \in 1 .. Len(list) - 1 : Joined(list, i)
=============================================================================
