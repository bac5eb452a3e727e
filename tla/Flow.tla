-------------------------------- MODULE Flow --------------------------------
(***************************************************************************)
(* The flow record of src/flow.c and what flow_add_packet does to it.  The *)
(* module has no state: Sniffer keeps the records and decides when a       *)
(* thread runs these functions; FlowLife follows one record.               *)
(*                                                                         *)
(* A packet p is a record with at least                                    *)
(*   p.flags  the TCP flags that are set, a subset of {SYN, ACK, FIN, RST} *)
(*   p.http   "none", "req" or "rsp"                                       *)
(***************************************************************************)
EXTENDS Naturals, Sequences

SYN == "SYN"
ACK == "ACK"
FIN == "FIN"
RST == "RST"

\* flow_new, and what flow_reset makes of a record: it keeps the socket only.
NewFlow(socket) ==
  [socket   |-> socket,
   pkt_src  |-> <<>>,      \* the packets hooked on pkt_src_f .. pkt_src_e
   pkt_dst  |-> <<>>,
   pkts_src |-> 0,         \* all packets of the direction, hooked or not
   pkts_dst |-> 0,
   http     |-> FALSE,
   close    |-> "open"]    \* "closed": TRUE, "forced": FORCED_CLOSE

Chained(f) == {f.pkt_src[i] : i \in DOMAIN f.pkt_src}
                \cup {f.pkt_dst[i] : i \in DOMAIN f.pkt_dst}

-----------------------------------------------------------------------------
\* Mutant: hooks a packet at the head of the chain.
hook_packet_head(f, p, src) ==
  IF src THEN [f EXCEPT !.pkt_src = <<p>> \o @]
         ELSE [f EXCEPT !.pkt_dst = <<p>> \o @]

hook_packet(f, p, src) ==
  IF src THEN [f EXCEPT !.pkt_src = Append(@, p)]
         ELSE [f EXCEPT !.pkt_dst = Append(@, p)]

\* Mutant: counts a packet twice.
cal_packet_twice(f, src) ==
  IF src THEN [f EXCEPT !.pkts_src = @ + 2]
         ELSE [f EXCEPT !.pkts_dst = @ + 2]

cal_packet(f, src) ==
  IF src THEN [f EXCEPT !.pkts_src = @ + 1]
         ELSE [f EXCEPT !.pkts_dst = @ + 1]

\* The early returns of flow_add_packet, in the order it tests them.
Kind(f, p, src) ==
  IF ~ f.http /\ Len(f.pkt_src) >= 5 THEN "not_http"
  ELSE IF RST \in p.flags /\ f.pkts_src < 4 THEN "incomplete"
  ELSE IF RST \in p.flags THEN "reset"
  ELSE IF f.pkts_src = 1 /\ src /\ ACK \in p.flags THEN "handshake"
  ELSE IF FIN \in p.flags THEN "fin"
  ELSE IF src /\ f.pkts_src = 0 THEN "syn"
  ELSE IF src /\ p.flags = {SYN} THEN "syn_again"
  ELSE IF p.http # "none" THEN "http"
  ELSE "plain"

Dropping == {"not_http", "incomplete"}  \* flow_free(flow_hash_delete(f))
Closing  == {"reset", "fin"}            \* flow_queue_enq(flow_hash_delete(f))

\* Mutant: flow_reset keeps the chains it has freed.
AddToKeepsChains(f, p, src) ==
  LET k == Kind(f, p, src) IN
  CASE k \in Dropping  -> f
    [] k \in Closing   -> [cal_packet(f, src) EXCEPT !.close = "closed"]
    [] k = "syn_again" -> cal_packet([f EXCEPT !.pkts_src = 0, !.pkts_dst = 0], src)
    [] k = "http"      -> [cal_packet(hook_packet(f, p, src), src)
                             EXCEPT !.http = TRUE]
    [] k \in {"handshake", "syn", "plain"} -> cal_packet(f, src)

\* Mutant: flow_reset keeps the http flag.
AddToKeepsHttp(f, p, src) ==
  LET k == Kind(f, p, src) IN
  CASE k \in Dropping  -> f
    [] k \in Closing   -> [cal_packet(f, src) EXCEPT !.close = "closed"]
    [] k = "syn_again" -> [cal_packet(NewFlow(f.socket), src) EXCEPT !.http = f.http]
    [] k = "http"      -> [cal_packet(hook_packet(f, p, src), src)
                             EXCEPT !.http = TRUE]
    [] k \in {"handshake", "syn", "plain"} -> cal_packet(f, src)

\* The record after the call; a dropped one is freed as it is.
AddTo(f, p, src) ==
  LET k == Kind(f, p, src) IN
  CASE k \in Dropping  -> f
    [] k \in Closing   -> [cal_packet(f, src) EXCEPT !.close = "closed"]
    [] k = "syn_again" -> cal_packet(NewFlow(f.socket), src)
    [] k = "http"      -> [cal_packet(hook_packet(f, p, src), src)
                             EXCEPT !.http = TRUE]
    [] k \in {"handshake", "syn", "plain"} -> cal_packet(f, src)

\* Mutant: flow_reset forgets to free the chains.
FreedLeaks(f, p, src) ==
  LET k == Kind(f, p, src) IN
  (IF k = "http" THEN {} ELSE {p}) \cup (IF k \in Dropping THEN Chained(f) ELSE {})

\* The packets the call frees: the new one unless it is hooked, and those of a
\* record that is freed or reset.
Freed(f, p, src) ==
  LET k == Kind(f, p, src) IN
  (IF k = "http" THEN {} ELSE {p})
    \cup (IF k \in Dropping \cup {"syn_again"} THEN Chained(f) ELSE {})
=============================================================================
