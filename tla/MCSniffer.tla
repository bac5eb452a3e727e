------------------------------ MODULE MCSniffer ------------------------------
(***************************************************************************)
(* Small instances of Sniffer: two connections and the captures that make  *)
(* the threads meet.                                                       *)
(***************************************************************************)
EXTENDS Sniffer

\* Two connections to one server, and both directions of each.  The hash puts
\* them into two buckets so that each lookup of a packet visits another one, and
\* the two connections share theirs.
A == <<"a", "www">>
B == <<"b", "www">>
MCSockets == {A, B, Reverse(A), Reverse(B)}
MCHash == [s \in MCSockets |-> IF s \in {A, B} THEN 1 ELSE 2]

Segment(s, fs, h) == [socket |-> s, flags |-> fs, http |-> h]
Number(t) == [i \in DOMAIN t |->
  [id |-> i, socket |-> t[i].socket, flags |-> t[i].flags, http |-> t[i].http]]

Opens(s)    == Segment(s, {SYN}, "none")
Accepts(s)  == Segment(Reverse(s), {SYN, ACK}, "none")
Confirms(s) == Segment(s, {ACK}, "none")
Asks(s)     == Segment(s, {ACK}, "req")
Answers(s)  == Segment(Reverse(s), {ACK}, "rsp")
Leaves(s)   == Segment(Reverse(s), {FIN, ACK}, "none")
Resets(s)   == Segment(s, {RST}, "none")

\* One HTTP exchange, closed by the server.
Exchange == <<Opens(A), Confirms(A), Asks(A), Answers(A), Leaves(A)>>
\* Two connections, interleaved; one is refused, the other never closed.
Interleaved == <<Opens(A), Opens(B), Resets(Reverse(A)), Confirms(B), Asks(B)>>
\* A client that repeats its SYN after a request, and gives up.
Restarted == <<Opens(A), Confirms(A), Asks(A), Opens(A), Resets(A)>>
\* A client that resets the connection after two requests.
Aborted == <<Opens(A), Confirms(A), Asks(A), Asks(A), Resets(A)>>
\* The same connection again after it was closed.
Reused == <<Opens(A), Confirms(A), Leaves(A), Opens(A), Accepts(A)>>

OfflineTraces ==
  {Number(t) : t \in {Exchange, Interleaved, Restarted, Aborted, Reused}}
LiveTraces == {Number(t) : t \in {Interleaved, Reused}}
==============================================================================
