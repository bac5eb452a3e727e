-------------------------- MODULE HttpConversation ---------------------------
(***************************************************************************)
(* A persistent HTTP connection as the ordered lists of a flow record it,  *)
(* and what flow_extract_http finds in it.  The client may send requests   *)
(* ahead of the answers; the server answers them in turn; the flow ends    *)
(* with the first FIN, or before it when the scrubber gives it up, so that *)
(* every state is one the flow may be extracted in.  A segment may be      *)
(* captured again, and the capture may give packets equal times, or miss   *)
(* the header of a message.  What tcp_order makes of the packets stands    *)
(* beside a history of them in the order of their capture.                 *)
(***************************************************************************)
EXTENDS HttpExtract

CONSTANTS
  ISNs,         \* where the sequence numbers of either side may begin
  Header,       \* length of the HTTP header of a message
  Sizes,        \* payload lengths of segments, not shorter than Header
  MaxSegments,  \* bound on the packets behind the handshake
  MaxTied,      \* the same where two packets may carry the same time
  MaxLossy      \* the same, with the segments missed, where headers may be missed

ASSUME ConversationAssumption ==
  /\ ISNs \subseteq 0 .. SeqWord - 1
  /\ Header \in Nat \ {0}
  /\ \A len \in Sizes : len \in Nat /\ len >= Header /\ len < LenWord
  /\ MaxSegments \in Nat /\ MaxTied \in Nat /\ MaxLossy \in Nat

VARIABLES
  capture,    \* "exact", "coarse": two packets may carry the same time,
              \*   or "lossy": the header of a message may be missed
  order,      \* f->order: what tcp_order has made of either side
  number,     \* number[side]: the sequence number the side goes on with
  now,        \* the time of the latest packet
  closed,     \* a FIN was captured
  src, dst,   \* history: the packets of either side, each as seq_pkt made it
  sent,       \* history: sent[side]: how many sequence numbers the side has used
  again,      \* history: again[side]: a packet was captured again out of sequence
  asked,      \* history: [at, bytes] of each request before the FIN
  answered,   \* history: the same of each response; at is 0 if it was not captured
  intact,     \* history: how many exchanges came before the first header missed
  ahead       \* history: a request was missed, or a request got two responses

losses == <<intact, ahead>>
vars == <<capture, order, src, dst, number, sent, again, now, closed, asked, answered,
          losses>>

\* The handshake: a SYN of either side and the client's ACK.
Syn(isn) ==
  [http |-> "none", fin |-> FALSE, time |-> 0, seq |-> isn, nxt |-> (isn + 1) % SeqWord,
   dl |-> 0, hdlen |-> 0]
Ack(isn) == [Syn(isn) EXCEPT !.seq = (isn + 1) % SeqWord]

Init ==
  /\ capture \in {"exact", "coarse", "lossy"}
  /\ \E isn \in ISNs :
       /\ src = <<Syn(isn), Ack(isn)>> /\ dst = <<Syn(isn)>>
       /\ order = [src |-> tcp_order(tcp_order(NewOrder, Syn(isn)), Ack(isn)),
                   dst |-> tcp_order(NewOrder, Syn(isn))]
       /\ number = [src |-> (isn + 1) % SeqWord, dst |-> (isn + 1) % SeqWord]
  /\ sent = [src |-> 1, dst |-> 1]
  /\ again = [src |-> FALSE, dst |-> FALSE]
  /\ now = 0
  /\ closed = FALSE
  /\ asked = <<>> /\ answered = <<>>
  /\ intact = MaxLossy /\ ahead = FALSE

\* Mutant: the end of a segment is not cut to 32 bits.
NodeUnbounded(seq, len, http, fin) ==
  [http |-> http, fin |-> fin, time |-> now', seq |-> seq,
   nxt |-> seq + (IF http = "none" THEN len ELSE Header) + (IF fin THEN 1 ELSE 0),
   dl |-> IF http = "none" THEN len ELSE Header,
   hdlen |-> IF http = "none" THEN 0 ELSE Header]

\* seq_pkt of a segment: where an HTTP header begins, packet_preprocess has set
\* tcp_dl to the length of the header, whatever follows it in the segment.
Node(seq, len, http, fin) ==
  [http |-> http, fin |-> fin, time |-> now', seq |-> seq,
   nxt |-> (seq + (IF http = "none" THEN len ELSE Header) + (IF fin THEN 1 ELSE 0))
              % SeqWord,
   dl |-> IF http = "none" THEN len ELSE Header,
   hdlen |-> IF http = "none" THEN 0 ELSE Header]

\* The numbers a packet takes on its side, captured or not.
Used(len, fin) == len + (IF fin THEN 1 ELSE 0)

\* cal_packet of a packet of the client: tcp_order puts its node in the list.
FromClient(len, http, fin) ==
  LET n == Node(number.src, len, http, fin) IN
  /\ src' = Append(src, n)
  /\ order' = [order EXCEPT !.src = tcp_order(@, n)]
  /\ number' = [number EXCEPT !.src = (@ + len) % SeqWord]
  /\ sent' = [sent EXCEPT !.src = @ + Used(len, fin)]
  /\ UNCHANGED <<dst, again>>

FromServer(len, http, fin) ==
  LET n == Node(number.dst, len, http, fin) IN
  /\ dst' = Append(dst, n)
  /\ order' = [order EXCEPT !.dst = tcp_order(@, n)]
  /\ number' = [number EXCEPT !.dst = (@ + len) % SeqWord]
  /\ sent' = [sent EXCEPT !.dst = @ + Used(len, fin)]
  /\ UNCHANGED <<src, again>>

Bound == CASE capture = "exact" -> MaxSegments [] capture = "coarse" -> MaxTied
           [] capture = "lossy" -> MaxLossy

Sent ==
  /\ ~ closed
  /\ Len(src) + Len(dst) < Bound + 3 /\ now < Bound
  /\ now' \in {now + 1} \cup (IF capture = "coarse" /\ now > 0 THEN {now} ELSE {})
  /\ UNCHANGED capture

Captured == Sent /\ UNCHANGED losses

\* The first segment of a message begins it, the later ones lengthen it.
Began(messages, list, len) == Append(messages, [at |-> Len(list) + 1, bytes |-> len])
Unseen(messages, len) == Append(messages, [at |-> 0, bytes |-> len])
Longer(messages, len) == [messages EXCEPT ![Len(messages)].bytes = @ + len]

Request(len) ==
  /\ Captured
  /\ FromClient(len, "req", FALSE)
  /\ asked' = Began(asked, src, len)
  /\ UNCHANGED <<closed, answered>>

Response(len) ==
  /\ Captured
  /\ Len(answered) < Len(asked)
  /\ FromServer(len, "rsp", FALSE)
  /\ answered' = Began(answered, dst, len)
  /\ UNCHANGED <<closed, asked>>

\* More of the message, or with length 0 an acknowledgement.
ClientSegment(len) ==
  /\ Captured
  /\ len > 0 => asked # <<>>
  /\ FromClient(len, "none", FALSE)
  /\ asked' = IF len = 0 THEN asked ELSE Longer(asked, len)
  /\ UNCHANGED <<closed, answered>>

ServerSegment(len) ==
  /\ Captured
  /\ len > 0 => answered # <<>>
  /\ FromServer(len, "none", FALSE)
  /\ answered' = IF len = 0 THEN answered ELSE Longer(answered, len)
  /\ UNCHANGED <<closed, asked>>

\* A FIN may carry the end of a message, or all of one.
ClientFin(len) ==
  /\ Captured
  /\ \E http \in IF len = 0 THEN {"none"} ELSE {"none", "req"} :
       FromClient(len, http, TRUE)
  /\ closed' = TRUE
  /\ UNCHANGED <<asked, answered>>

ServerFin(len) ==
  /\ Captured
  /\ \E http \in IF len = 0 THEN {"none"} ELSE {"none", "rsp"} :
       FromServer(len, http, TRUE)
  /\ closed' = TRUE
  /\ UNCHANGED <<asked, answered>>

\* The nodes of a list join without a gap between them.
Contiguous(list) == \A i \in 1 .. Len(list) - 1 : Joined(list, i)

\* A side that has used b numbers has not come to the end of the sequence space.
Below(list, b) == list[1].seq + b < SeqWord

\* A segment with data is captured again later, by loss of its acknowledgement or a
\* second time on its way.
RepeatedClient(i) ==
  /\ Captured /\ now' = now + 1
  /\ src[i].dl > 0
  /\ order' = [order EXCEPT !.src = tcp_order(@, [src[i] EXCEPT !.time = now'])]
  /\ again' = [again EXCEPT !.src = @ \/ ~ (Contiguous(src) /\ Below(src, sent.src))]
  /\ UNCHANGED <<src, dst, number, sent, closed, asked, answered>>

RepeatedServer(i) ==
  /\ Captured /\ now' = now + 1
  /\ dst[i].dl > 0
  /\ order' = [order EXCEPT !.dst = tcp_order(@, [dst[i] EXCEPT !.time = now'])]
  /\ again' = [again EXCEPT !.dst = @ \/ ~ (Contiguous(dst) /\ Below(dst, sent.dst))]
  /\ UNCHANGED <<src, dst, number, sent, closed, asked, answered>>

\* The header of a message is missed: the capture dropped the segment, or the
\* header goes on in the next segment and packet_preprocess takes neither for HTTP.
MissedRequest(len) ==
  /\ capture = "lossy" /\ Sent
  /\ \/ /\ FromClient(len, "none", FALSE)
        /\ asked' = Began(asked, src, len)
     \/ /\ number' = [number EXCEPT !.src = (@ + len) % SeqWord]
        /\ sent' = [sent EXCEPT !.src = @ + len]
        /\ asked' = Unseen(asked, len)
        /\ UNCHANGED <<src, dst, order, again>>
  /\ intact' = Least({intact, Len(asked)})
  /\ ahead' = TRUE
  /\ UNCHANGED <<closed, answered>>

MissedResponse(len) ==
  /\ capture = "lossy" /\ Sent
  /\ Len(answered) < Len(asked)
  /\ \/ /\ FromServer(len, "none", FALSE)
        /\ answered' = Began(answered, dst, len)
     \/ /\ number' = [number EXCEPT !.dst = (@ + len) % SeqWord]
        /\ sent' = [sent EXCEPT !.dst = @ + len]
        /\ answered' = Unseen(answered, len)
        /\ UNCHANGED <<src, dst, order, again>>
  /\ intact' = Least({intact, Len(answered)})
  /\ UNCHANGED <<closed, asked, ahead>>

\* A response before the response, as 100 Continue is.
Interim(len) ==
  /\ capture = "lossy" /\ Sent
  /\ Len(answered) < Len(asked)
  /\ FromServer(len, "rsp", FALSE)
  /\ intact' = Least({intact, Len(answered)})
  /\ ahead' = TRUE
  /\ UNCHANGED <<closed, asked, answered>>

Next ==
  \/ \E len \in Sizes :
       \/ Request(len) \/ Response(len)
       \/ MissedRequest(len) \/ MissedResponse(len) \/ Interim(len)
  \/ \E len \in Sizes \cup {0} :
       ClientSegment(len) \/ ServerSegment(len) \/ ClientFin(len) \/ ServerFin(len)
  \/ \E i \in DOMAIN src : RepeatedClient(i)
  \/ \E i \in DOMAIN dst : RepeatedServer(i)

Spec == Init /\ [][Next]_vars

-----------------------------------------------------------------------------
pairs == Pairs(order.src.list, order.dst.list)

\* Types and ranges of the lists and of the history.
Nodes == [http : {"none", "req", "rsp"}, fin : BOOLEAN, time : Nat,
          seq : 0 .. SeqWord - 1, nxt : 0 .. SeqWord - 1, dl : Nat, hdlen : {0, Header}]
Messages == [at : Nat, bytes : Nat]

TypeOK ==
  /\ capture \in {"exact", "coarse", "lossy"}
  /\ DOMAIN order = {"src", "dst"}
  /\ \A side \in DOMAIN order : DOMAIN order[side] = DOMAIN NewOrder
  /\ src \in Seq(Nodes) /\ dst \in Seq(Nodes)
  /\ number \in [src : 0 .. SeqWord - 1, dst : 0 .. SeqWord - 1]
  /\ sent \in [src : Nat \ {0}, dst : Nat \ {0}]
  /\ again \in [src : BOOLEAN, dst : BOOLEAN]
  /\ now \in 0 .. Bound
  /\ closed \in BOOLEAN
  /\ asked \in Seq(Messages) /\ answered \in Seq(Messages)
  /\ Len(answered) <= Len(asked)
  /\ intact \in Nat /\ ahead \in BOOLEAN

\* A list is in the order of the times, holds messages of one kind, and ends with
\* the FIN if it has one; the FIN is the latest packet of the flow.
Listed(list, kind, latest, over) ==
  /\ \A i \in DOMAIN list :
       /\ list[i].http \in {"none", kind}
       /\ list[i].time <= latest
       /\ list[i].fin => over /\ i = Len(list) /\ list[i].time = latest
  /\ \A i, j \in DOMAIN list : i <= j => list[i].time <= list[j].time

Lists ==
  /\ Listed(src, "req", now, closed) /\ Listed(dst, "rsp", now, closed)
  /\ Fins(src) = {} \/ Fins(dst) = {}
  /\ closed => Fins(src) # {} \/ Fins(dst) # {}
  /\ capture # "coarse" /\ closed => \A list \in {src, dst} :
       \A i \in DOMAIN list : ~ list[i].fin => list[i].time < now

\* How many nodes come before the FIN, and where messages begin among them.
Before(list) == IF list # <<>> /\ list[Len(list)].fin THEN Len(list) - 1 ELSE Len(list)
requests  == Starts(src, "req", Before(src))
responses == Starts(dst, "rsp", Before(dst))

\* Without losses the k-th message begins where the list says the k-th begins.
Begin(starts, messages) ==
  /\ Len(starts) = Len(messages)
  /\ \A k \in DOMAIN starts : starts[k] = messages[k].at

Found == capture # "lossy" => Begin(requests, asked) /\ Begin(responses, answered)

\* Every node of a message ends within the bytes of the message, its last one
\* with them, and the side goes on with the number after the last message.
End(list, messages, k) == IF k < Len(messages) THEN messages[k + 1].at - 1 ELSE Before(list)

Measured(list, messages, num, over) ==
  /\ \A k \in DOMAIN messages :
       LET m == messages[k]
           n == list[m.at]
       IN /\ m.bytes >= Header
          /\ n.nxt = (n.seq + Header) % SeqWord /\ n.hdlen = Header /\ n.dl = Header
          /\ \A i \in m.at .. End(list, messages, k) :
               \E p \in 0 .. m.bytes : list[i].nxt = (n.seq + p) % SeqWord
          /\ LET e == End(list, messages, k)
             IN e # m.at => list[e].nxt = (n.seq + m.bytes) % SeqWord
  /\ ~ over /\ messages # <<>> =>
       LET m == messages[Len(messages)]
       IN num = (list[m.at].seq + m.bytes) % SeqWord

Lengths == capture # "lossy" => /\ Measured(src, asked, number.src, closed)
                                /\ Measured(dst, answered, number.dst, closed)

\* No response comes before its request.
Answers == capture # "lossy" =>
  \A k \in DOMAIN answered : src[asked[k].at].time <= dst[answered[k].at].time

\* Up to the first loss the list and the history agree; where no request was
\* missed, no response stands in the list later than in the history.
Agree(starts, messages, upTo) ==
  \A k \in 1 .. upTo : /\ k <= Len(starts) <=> k <= Len(messages)
                       /\ k <= Len(starts) => starts[k] = messages[k].at

Shifted(starts, messages) ==
  \A k \in DOMAIN starts : \E i \in k .. Len(messages) : starts[k] = messages[i].at

Losses == capture = "lossy" =>
  /\ Agree(requests, asked, intact) /\ Agree(responses, answered, intact)
  /\ ~ ahead => Shifted(responses, answered)

\* The packets of a side end within the numbers it has used; before the end of the
\* sequence space none begins below the end of an earlier one, and data has a length.
Along(list, num, b, over) ==
  /\ list # <<>> /\ list[1].nxt = (list[1].seq + 1) % SeqWord
  /\ \A i \in DOMAIN list : \E p \in 1 .. b : list[i].nxt = (list[1].seq + p) % SeqWord
  /\ Below(list, b) =>
       /\ \A i \in DOMAIN list :
            list[i].seq <= list[i].nxt /\ (list[i].dl > 0 => list[i].seq < list[i].nxt)
       /\ \A i, j \in DOMAIN list : i < j => list[i].nxt <= list[j].seq
  /\ ~ over => num = (list[1].seq + b) % SeqWord

\* A side is plain if it has used less than all sequence numbers, has left no gap if
\* it has come to the end of the sequence space, and has repeated nothing behind a gap
\* or beyond that end.  (The body of a message whose header came in the same segment
\* leaves a gap.)
Plain(list, b, ag) ==
  b < SeqWord /\ (Below(list, b) \/ Contiguous(list)) /\ ~ ag

\* Then tcp_order has kept the packets in the order of their capture.
Kept(list, o, b, ag) ==
  Plain(list, b, ag) =>
    /\ o.list = list
    /\ o.last \in DOMAIN list
    /\ ~ (list[o.last].seq = 0 /\ list[o.last].nxt = 0)

\* No message has more bytes than its side has used numbers.
Within(messages, b) == \A k \in DOMAIN messages : messages[k].bytes <= b

Ordered ==
  /\ Within(asked, sent.src) /\ Within(answered, sent.dst)
  /\ Along(src, number.src, sent.src, closed) /\ Along(dst, number.dst, sent.dst, closed)
  /\ Kept(src, order.src, sent.src, again.src) /\ Kept(dst, order.dst, sent.dst, again.dst)

InSequence == Plain(src, sent.src, again.src) /\ Plain(dst, sent.dst, again.dst)

\* What every step keeps, and the properties below follow from.
IInv == TypeOK /\ Lists /\ Found /\ Lengths /\ Answers /\ Losses /\ Ordered

\* What the properties below say holds InSequence.  Elsewhere tcp_order may put a
\* packet before earlier ones, or keep a repeated one, and the pairs follow the list.

\* Where the packets are told apart by their times, every request captured
\* before the FIN is extracted, with the response the server gave to it.
AllPaired == capture = "exact" /\ InSequence =>
  /\ Len(pairs) = Len(asked)
  /\ \A k \in DOMAIN pairs :
       /\ pairs[k].req = asked[k].at
       /\ pairs[k].rsp = IF k <= Len(answered) THEN answered[k].at ELSE 0
  /\ Result(order.src.list, order.dst.list) = 0 <=> asked # <<>>

\* The length of the k-th message of a side: all its bytes before the FIN if
\* another packet of that side follows its first, else only its header.  It is a
\* difference of two sequence numbers and holds across the end of the sequence space
\* where no gap came before it, but a message that ends at number 0 gets none.
Length(list, messages, k) ==
  LET start == messages[k].at
      len   == IF End(list, messages, k) = start THEN Header ELSE messages[k].bytes
  IN IF (list[start].seq + len) % SeqWord = 0 THEN 0 ELSE len

\* The lengths the pairs report are those, and a body is what follows the header.
LengthsMatch == capture = "exact" /\ InSequence =>
  \A k \in DOMAIN pairs :
    /\ pairs[k].req_len = Length(src, asked, k)
    /\ pairs[k].rsp # 0 =>
         /\ pairs[k].rsp_len = Length(dst, answered, k)
         /\ pairs[k].rsp_len # 0 => pairs[k].body = pairs[k].rsp_len - Header

\* The last byte time of the flow is the time of the last packet from its first
\* request on and before the FIN, on either side, the repeated ones left out.
LastByteIsLast == capture = "exact" /\ InSequence =>
  LET From(list, start) == {list[i].time : i \in {j \in start .. Len(list) : ~ list[j].fin}}
      times == (IF asked = <<>> THEN {} ELSE From(src, asked[1].at))
                 \cup (IF answered = <<>> THEN {} ELSE From(dst, answered[1].at))
  IN LastByte(order.src.list, order.dst.list) = IF times = {} THEN 0 ELSE Greatest(times)

\* Packets with the time of the FIN are left out.  That may cost messages, and
\* the end of one, but no request is given the response to another, and no
\* response is left without its request.
NeverMismatched == capture # "lossy" /\ InSequence =>
  /\ Len(pairs) <= Len(asked)
  /\ \A k \in DOMAIN pairs :
       /\ pairs[k].req = asked[k].at
       /\ pairs[k].req_len <= asked[k].bytes
       /\ pairs[k].rsp # 0 => /\ k <= Len(answered)
                              /\ pairs[k].rsp = answered[k].at
                              /\ pairs[k].rsp_len <= answered[k].bytes
  /\ Result(order.src.list, order.dst.list) = 0 <=> pairs # <<>>

\* Responses are given to requests by position, so a missed header shifts all that
\* follow.  What came before it is not touched; and where only responses were
\* missed, a request gets its own response or that of a later request, never that
\* of an earlier one.
LossesShiftOnly == capture = "lossy" /\ InSequence =>
  \A k \in DOMAIN pairs :
    /\ k <= intact => /\ pairs[k].req = asked[k].at
                      /\ pairs[k].rsp = IF k <= Len(answered) THEN answered[k].at ELSE 0
    /\ ~ ahead /\ pairs[k].rsp # 0 =>
         \E i \in k .. Len(answered) : pairs[k].rsp = answered[i].at
==============================================================================
