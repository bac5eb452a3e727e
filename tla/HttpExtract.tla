----------------------------- MODULE HttpExtract -----------------------------
(***************************************************************************)
(* flow_extract_http of src/flow.c: what it makes of the two ordered lists *)
(* of a flow, in two passes that differ in whether the flow has a FIN.     *)
(*                                                                         *)
(* A node n of a list is a record with                                     *)
(*   n.http        the http of n->pkt, "none" when n->pkt is NULL          *)
(*   n.fin, n.time whether th_flags has TH_FIN; cap_sec and cap_usec       *)
(*   n.seq, n.nxt  seq and nxt_seq                                         *)
(*   n.dl          the tcp_dl of n->pkt, which tcp_order may have lowered  *)
(*   n.hdlen       the length of the HTTP header in n->pkt                 *)
(***************************************************************************)
EXTENDS TcpOrder, FiniteSets

Least(S)    == CHOOSE x \in S : \A y \in S : x <= y
Greatest(S) == CHOOSE x \in S : \A y \in S : y <= x

Never == -1  \* fin_seq = NULL

\* The first FIN of a list; the earlier one of two lists.
Fins(list) == {i \in DOMAIN list : list[i].fin}
FirstFin(list) == IF Fins(list) = {} THEN Never ELSE list[Least(Fins(list))].time
FinTime(src, dst) ==
  LET found == {FirstFin(src), FirstFin(dst)} \ {Never}
  IN IF found = {} THEN Never ELSE Least(found)

\* Mutant: goes on to the FIN itself.
ThroughFin(n, fin) == fin # Never /\ n.time > fin

\* compare_sequence_time(n, fin_seq) >= 0
FromFin(n, fin) == fin # Never /\ n.time >= fin

\* How far the loop over a list gets.
Visited(list, fin) ==
  LET stops == {i \in DOMAIN list : FromFin(list[i], fin)}
  IN IF stops = {} THEN Len(list) ELSE Least(stops) - 1

\* The k-th of a set of numbers is the one that has k of them up to it.
InOrder(S) ==
  [k \in 1 .. Cardinality(S) |-> CHOOSE i \in S : Cardinality({j \in S : j <= i}) = k]

\* Where the messages of one kind begin, among the first n nodes.
Starts(list, kind, n) == InOrder({i \in 1 .. n : list[i].http = kind})

\* Mutant: does not end a message where the FIN begins.
LastBeforeNext(list, i, fin) == i = Len(list) \/ list[i + 1].http # "none"

\* Mutant: a message ends only where the next one begins.
LastBeforeMessage(list, i, fin) ==
  \/ i < Len(list) /\ list[i + 1].http # "none"
  \/ i < Len(list) /\ FromFin(list[i + 1], fin)

\* Node i is the last of a message.
Last(list, i, fin) ==
  \/ i = Len(list)
  \/ list[i + 1].http # "none"
  \/ FromFin(list[i + 1], fin)

\* The nodes of the k-th message, and its length: the last one assigned to it,
\* taken from no node that ends at number 0.
Message(list, kind, fin, k) ==
  LET n      == Visited(list, fin)
      starts == Starts(list, kind, n)
  IN starts[k] .. (IF k < Len(starts) THEN starts[k + 1] - 1 ELSE n)

TotalLen(list, kind, fin, k) ==
  LET nodes == Message(list, kind, fin, k)
      ends  == {i \in nodes : Last(list, i, fin) /\ list[i].nxt # 0}
  IN IF ends = {} THEN 0
     ELSE (list[Greatest(ends)].nxt - list[Least(nodes)].seq) % SeqWord

\* Mutant: a response goes to the last pair without one.
PairsFromEnd(src, dst) ==
  LET fin  == FinTime(src, dst)
      reqs == Starts(src, "req", Visited(src, fin))
      rsps == Starts(dst, "rsp", Visited(dst, fin))
  IN [k \in 1 .. Len(reqs) |->
       LET n        == Len(reqs) + 1 - k
           answered == n <= Len(rsps)
       IN [req     |-> reqs[k],
           req_len |-> TotalLen(src, "req", fin, k),
           rsp     |-> IF answered THEN rsps[n] ELSE 0,
           rsp_len |-> IF answered THEN TotalLen(dst, "rsp", fin, n) ELSE 0,
           body    |-> 0]]

\* Where tcp_order has left the header no end, the parser takes what is left of an
\* address for its length.
Undetermined == -1
BodyLen(n, len) ==
  IF len = 0 THEN 0
  ELSE IF n.dl + 1 < n.hdlen THEN Undetermined
  ELSE (len - n.hdlen) % SeqWord

\* The pairs.  A response goes to the first pair without one; when there is none
\* the function returns.  rsp = 0 says that response_header is NULL.
Pairs(src, dst) ==
  LET fin  == FinTime(src, dst)
      reqs == Starts(src, "req", Visited(src, fin))
      rsps == Starts(dst, "rsp", Visited(dst, fin))
  IN [k \in 1 .. Len(reqs) |->
       LET answered == k <= Len(rsps)
           len      == IF answered THEN TotalLen(dst, "rsp", fin, k) ELSE 0
       IN [req     |-> reqs[k],
           req_len |-> TotalLen(src, "req", fin, k),
           rsp     |-> IF answered THEN rsps[k] ELSE 0,
           rsp_len |-> len,
           body    |-> IF answered THEN BodyLen(dst[rsps[k]], len) ELSE 0]]

\* 1: nothing is extracted, or a response has no request.
Result(src, dst) ==
  LET fin  == FinTime(src, dst)
      reqs == Starts(src, "req", Visited(src, fin))
      rsps == Starts(dst, "rsp", Visited(dst, fin))
  IN IF reqs = <<>> \/ Len(rsps) > Len(reqs) THEN 1 ELSE 0

\* lb_sec and lb_usec of the flow: the latest of the last nodes of the messages.
LastByte(src, dst) ==
  LET fin == FinTime(src, dst)
      Count(list, kind) == Len(Starts(list, kind, Visited(list, fin)))
      Times(list, kind, k) ==
        {list[i].time : i \in {j \in Message(list, kind, fin, k) : Last(list, j, fin)}}
      reqs  == Count(src, "req")
      times == (UNION {Times(src, "req", k) : k \in 1 .. reqs}) \cup
               (UNION {Times(dst, "rsp", k) : k \in {i \in 1 .. Count(dst, "rsp") : i <= reqs}})
  IN IF times = {} THEN 0 ELSE Greatest(times)
==============================================================================
