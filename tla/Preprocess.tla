----------------------------- MODULE Preprocess -----------------------------
(***************************************************************************)
(* The way of one segment through http-sniffer: main.c takes the frame     *)
(* apart and keeps the HTTP header it finds at the beginning of the        *)
(* payload, tcp.c may shorten what the packet is said to hold when it puts *)
(* it in order, flow.c has the header parsed when the flow ends, and io.c  *)
(* writes what was found.  A sender puts the payload together piece by     *)
(* piece and may send it at any point.                                     *)
(***************************************************************************)
EXTENDS HttpText

CONSTANTS
  Starts,   \* texts a payload may begin with
  Pieces,   \* texts that may follow
  Frames,   \* the headers of the frames a payload is sent in
  Cuts,     \* by how much tcp_order may shorten tcp_dl
  MaxLen,   \* bound on the length of a payload
  NULL

Atoms == Methods \cup Versions \cup Numbers \cup RequestFields \cup RequestContent
           \cup ResponseFields \cup {"CR", "LF", "SP", "M-", "char", "word"}
HttpPorts == {80, 8080, 8000}

\* What packet_parse_ethhdr, packet_parse_iphdr and packet_parse_tcphdr read of a
\* frame, in the byte order of the host.
Headers ==
  [ether_type : 0 .. 2^16 - 1, ip_pro : 0 .. 255, ihl : 5 .. 15,
   sport : 0 .. 2^16 - 1, dport : 0 .. 2^16 - 1, th_off : 5 .. 15]

ASSUME PreprocessAssumption ==
  /\ Starts \cup Pieces \subseteq Seq(Atoms) \ {<<>>}
  /\ \A s \in Starts : Len(s) <= MaxLen
  /\ Frames \subseteq Headers /\ Cuts \subseteq Nat \ {0}
  /\ MaxLen \in Nat \ {0} /\ MaxLen <= 1000

VARIABLES
  payload,  \* the TCP payload of the segment
  pkt,      \* the packet_t that packet_preprocess made of it
  header    \* the request_t or response_t parsed from it

vars == <<payload, pkt, header>>

Init ==
  /\ payload = <<>>
  /\ pkt = NULL
  /\ header = NULL

-----------------------------------------------------------------------------
\* Which frames are left out.
Ignored(f) ==
  \/ f.ether_type # 2048
  \/ f.ip_pro # 6
  \/ {f.sport, f.dport} \cap HttpPorts = {}

\* The rest of packet_preprocess: an HTTP header is copied, and the payload is
\* said to be no longer than it; any other payload is dropped.
Store(t, tcp_dl) ==
  IF tcp_dl = 0 \/ ~ IsHttpPacket(t)
  THEN [http |-> "none", tcp_dl |-> tcp_dl, tcp_odata |-> <<>>]
  ELSE LET req  == IsRequest(t)
           kept == IF req # 0 THEN SubSeq(t, 1, req) ELSE t
           rsp  == IsResponse(kept)
           len  == IF rsp # 0 THEN rsp ELSE Len(kept)
       IN [http |-> IF rsp # 0 THEN "rsp" ELSE "req",
           tcp_dl |-> len, tcp_odata |-> SubSeq(kept, 1, len)]

\* packet->tcp_dl: what the IP header says the length is, less the headers.
TcpDl(f, t) ==
  LET ip_hl  == f.ihl * 4
      tcp_hl == f.th_off * 4
      ip_tol == ip_hl + tcp_hl + Len(t)
  IN (ip_tol - ip_hl - tcp_hl) % 65536

packet_preprocess(f, t) == IF Ignored(f) THEN NULL ELSE Store(t, TcpDl(f, t))

\* Mutant: tcp_dl is signed.
ShorterSigned(tcp_dl, cut) == tcp_dl - cut

\* tcp_dl is of 16 bits, and taking from it may wrap.
Lengths == 0 .. 65535
Shorter(tcp_dl, cut) == (tcp_dl - cut) % 65536

-----------------------------------------------------------------------------
Begin(piece) ==
  /\ payload = <<>> /\ pkt = NULL
  /\ payload' = piece
  /\ UNCHANGED <<pkt, header>>

Extend(piece) ==
  /\ payload # <<>> /\ pkt = NULL
  /\ Len(payload) + Len(piece) <= MaxLen
  /\ payload' = payload \o piece
  /\ UNCHANGED <<pkt, header>>

\* The capture loop goes on to the next frame when this one is left out.
Capture(f) ==
  /\ pkt = NULL
  /\ pkt' = packet_preprocess(f, payload)
  /\ payload' = IF pkt' = NULL THEN <<>> ELSE payload
  /\ UNCHANGED header

\* tcp_order takes from tcp_dl what overlaps with the segments before and behind this
\* one, cut in all; the copy of the header stays.
Order(cut) ==
  /\ pkt # NULL /\ header = NULL
  /\ pkt.http # "none" /\ pkt.tcp_dl = Len(pkt.tcp_odata)
  /\ pkt' = [pkt EXCEPT !.tcp_dl = Shorter(@, cut)]
  /\ UNCHANGED <<payload, header>>

\* Mutant: the end of the header is looked for one symbol short.
ExtractShort ==
  /\ pkt # NULL /\ header = NULL
  /\ pkt.http # "none"
  /\ LET t       == Append(pkt.tcp_odata, "NUL")
         dataend == IF pkt.tcp_dl < Len(t) THEN pkt.tcp_dl ELSE Len(t)
         eoh     == find_header_end(SubSeq(t, 1, dataend))
     IN \E hdl \in IF eoh = 0 THEN 0 .. Len(t) ELSE {eoh} :
          header' = IF pkt.http = "req" THEN http_parse_request(t, eoh, hdl)
                    ELSE http_parse_response(t, eoh, hdl)
  /\ UNCHANGED <<payload, pkt>>

\* flow_extract_http: the header is looked for up to tcp_odata + tcp_dl, the NUL behind
\* the copy unless tcp_order has shortened tcp_dl.  Without an end the length of the
\* header is what is left of an address, and so is what is searched for the fields; a
\* search far beyond the copy may also end the program, which then takes no step.
Extract ==
  /\ pkt # NULL /\ header = NULL
  /\ pkt.http # "none"
  /\ LET t       == Append(pkt.tcp_odata, "NUL")
         dataend == IF pkt.tcp_dl < Len(t) THEN pkt.tcp_dl + 1 ELSE Len(t)
         eoh     == find_header_end(SubSeq(t, 1, dataend))
     IN \E hdl \in IF eoh = 0 THEN 0 .. Len(t) ELSE {eoh} :
          header' = IF pkt.http = "req" THEN http_parse_request(t, eoh, hdl)
                    ELSE http_parse_response(t, eoh, hdl)
  /\ UNCHANGED <<payload, pkt>>

\* The packet and the header are freed with the flow, or a packet that is not hooked
\* or not in the order list without being parsed.
Free ==
  /\ pkt # NULL
  /\ payload' = <<>> /\ pkt' = NULL /\ header' = NULL

Next ==
  \/ \E s \in Starts : Begin(s)
  \/ \E p \in Pieces : Extend(p)
  \/ \E f \in Frames : Capture(f)
  \/ \E cut \in Cuts : Order(cut)
  \/ Extract \/ Free

Spec == Init /\ [][Next]_vars

-----------------------------------------------------------------------------
\* What save_flow_json writes of a header: the fields it has, but Connection.
VersionCode == [v \in Versions \cup {"NONE"} |->
                 CASE v = "HTTP/1.0" -> 0 [] v = "HTTP/1.1" -> 1 [] v = "NONE" -> 2]

save_flow_json(h) ==
  [ver |-> VersionCode[h.version], mth |-> h.method, uri |-> h.uri, sta |-> h.status,
   param |-> [f \in {g \in DOMAIN h.param \ {"Connection:"} : h.param[g] # <<>>} |->
                h.param[f]]]

-----------------------------------------------------------------------------
\* Does tcp_dl leave the header its end: it may lack one symbol, for the search goes one
\* beyond it, or have wrapped.
Reaches == pkt.tcp_dl + 1 >= Len(pkt.tcp_odata)

\* Types of the packet and of what is parsed from it; what the fields are if the header
\* has lost its end is not known.
TypeOK ==
  /\ payload \in Seq(Atoms) /\ Len(payload) <= MaxLen
  /\ pkt # NULL =>
       /\ pkt.http \in {"none", "req", "rsp"} /\ pkt.tcp_dl \in Lengths
       /\ pkt.tcp_odata \in Seq(Atoms)
  /\ header # NULL =>
       /\ pkt # NULL /\ pkt.http # "none"
       /\ header.ret \in {0, -1} /\ header.hdlen \in 0 .. MaxLen + 1
       /\ Reaches => \A f \in DOMAIN header.param : header.param[f] \in Seq(Atoms)

\* A text that ends in a blank line, be it LF or CR LF.
EndsBlank(t) ==
  LET n == Len(t)
  IN \/ n > 1 /\ t[n - 1] = "LF" /\ t[n] = "LF"
     \/ n > 2 /\ t[n - 2] = "LF" /\ t[n - 1] = "CR" /\ t[n] = "LF"

\* No line consists of one character other than CR.
NoShortLine(t) ==
  \A i \in 2 .. Len(t) - 1 :
    t[i - 1] = "LF" /\ t[i + 1] = "LF" => t[i] \notin {"SP", "NUL", "char"}

\* A packet_t that is marked as HTTP holds the shortest beginning of the payload
\* that ends in a blank line, and tcp_dl is its length less what tcp_order took of it;
\* one that is not marked has no such beginning, or no method and no version at its
\* front.
HeaderWhole ==
  pkt # NULL /\ NoShortLine(payload) =>
    LET ends == {n \in 1 .. Len(payload) : EndsBlank(SubSeq(payload, 1, n))}
    IN /\ pkt.http # "none" =>
            /\ ends # {}
            /\ pkt.tcp_odata = SubSeq(payload, 1, Least(ends))
            /\ \E cut \in Cuts \cup {0} : pkt.tcp_dl = Shorter(Least(ends), cut)
       /\ pkt.http = "none" =>
            /\ pkt.tcp_dl = Len(payload)
            /\ ends # {} => /\ payload[1] \notin Versions
                            /\ ~ (payload[1] \in Methods /\ payload[2] = "SP")

\* What follows the header in a segment changes neither what the segment is taken
\* for nor where its header ends: the body is never read as a header.
RecognisedStays ==
  [][payload # <<>> /\ payload' # <<>> =>
       /\ IsRequest(payload) # 0 => IsRequest(payload') = IsRequest(payload)
       /\ IsResponse(payload) # 0 => IsResponse(payload') = IsResponse(payload)]_vars

\* The two parsers agree: a segment recognised as a request is parsed as one when
\* the flow ends, however much tcp_order took of it, and with the same end of its
\* header unless that is more than one symbol.  The exception is the one that
\* http_request_method was given the prefix CR LF for: the parser sees a blank
\* first line and gives up.
ParsedAsRecognised ==
  header # NULL =>
    /\ Reaches => header.hdlen = Len(pkt.tcp_odata)
    /\ pkt.http = "req" =>
         IF pkt.tcp_odata[1] = "CR" THEN header.ret = -1
         ELSE header.ret = 0 /\ header.method \in Methods
    /\ pkt.http = "rsp" => header.method = "NONE"

-----------------------------------------------------------------------------
\* Lines and words as the sender means them: every CR is part of a CR LF.
Regular(t) == \A i \in DOMAIN t : t[i] = "CR" => i < Len(t) /\ t[i + 1] = "LF"

LineAt(t, i) ==
  LET lf == NextLf(t, i, Len(t))
  IN SubSeq(t, i, IF lf > i /\ t[lf - 1] = "CR" THEN lf - 2 ELSE lf - 1)

After(S, i) == {j \in S : j > i}
Spaces(l) == {i \in DOMAIN l : l[i] = "SP"}
Words(l)  == {i \in DOMAIN l : l[i] # "SP" /\ (i = 1 \/ l[i - 1] = "SP")}

\* The second word of a line and the word after it are the URI and the version of
\* a request, if a space follows the URI.
RequestLine(l, json) ==
  LET seconds == After(Words(l), 1)
      uri     == Least(seconds)
      stop    == Least(After(Spaces(l), uri))
      thirds  == After(Words(l), uri)
  IN IF seconds = {} \/ After(Spaces(l), uri) = {} THEN json.uri = <<>> /\ json.ver = 2
     ELSE /\ json.uri = SubSeq(l, uri, stop - 1)
          /\ json.ver = IF thirds # {} /\ l[Least(thirds)] \in Versions
                        THEN VersionCode[l[Least(thirds)]] ELSE 2

\* The value in the first line with the name of the field, spaces before it left
\* out.  An empty value becomes the first character of the line end.
FieldLine(t, i, value) ==
  LET l     == LineAt(t, i)
      words == After(DOMAIN l, 1) \ Spaces(l)
  IN value = IF words = {} THEN <<t[i + Len(l)]>> ELSE SubSeq(l, Least(words), Len(l))

\* The numbers that the status texts stand for.
NumberOf == [s \in {"200", "307", "404"} |->
              CASE s = "200" -> 200 [] s = "307" -> 307 [] s = "404" -> 404]

\* The status in the JSON line is the number in the message, but for 307: the
\* enumeration leaves out 306, and 307 is written as that.
StatusLine(l, json) ==
  LET word == l[Least(After(Words(l), 1))]
  IN json.sta = IF word = "307" THEN 306 ELSE NumberOf[word]

\* What the JSON line says of a message is what the message says: its method, URI,
\* version or status, however much tcp_order took of it, and, if it left the header its
\* end, each field that io.c prints, the Content fields of a request only if it is a
\* POST.
Reported ==
  header # NULL /\ header.ret = 0 /\ Regular(pkt.tcp_odata) =>
    LET t     == pkt.tcp_odata
        l     == LineAt(t, 1)
        json  == save_flow_json(header)
        Lines(f) == {i \in 2 .. Len(t) : t[i] = f /\ t[i - 1] = "LF"}
        said  == IF pkt.http = "rsp" THEN ResponseFields
                 ELSE (RequestFields \ {"Connection:"})
                        \cup (IF json.mth = "POST" THEN RequestContent ELSE {})
    IN /\ pkt.http = "req" => /\ json.mth = IF l[1] = "M-" THEN l[2] ELSE l[1]
                              /\ RequestLine(l, json)
       /\ pkt.http = "rsp" => json.ver = VersionCode[l[1]] /\ StatusLine(l, json)
       /\ Reaches =>
            /\ DOMAIN json.param = {f \in said : Lines(f) # {}}
            /\ \A f \in DOMAIN json.param : FieldLine(t, Least(Lines(f)), json.param[f])
=============================================================================
