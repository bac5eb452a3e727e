------------------------------ MODULE HttpText ------------------------------
(***************************************************************************)
(* The parser of src/http.c: how it tells that a payload begins an HTTP    *)
(* message, where the header ends, and what it takes out of the header.    *)
(*                                                                         *)
(* A text is a sequence of symbols, which are the characters and words the *)
(* parser tells apart: "CR", "LF", "SP", a method, a version, a status, a  *)
(* field name with its colon, the prefix "M-", "NUL", another character or *)
(* another word.  A position is an index into the text and lengths count   *)
(* symbols; the null pointer is position 0.                                *)
(***************************************************************************)
EXTENDS Integers, Sequences

Methods == {"OPTIONS", "GET", "HEAD", "POST", "PUT", "DELETE", "TRACE", "CONNECT",
            "PROPFIND", "MKCOL", "COPY", "MOVE", "LOCK", "UNLOCK", "POLL", "BCOPY",
            "BMOVE", "SEARCH", "BDELETE", "PROPPATCH", "BPROPFIND", "BPROPPATCH",
            "LABEL", "MERGE", "REPORT", "UPDATE", "CHECKIN", "CHECKOUT", "UNCHECKOUT",
            "MKACTIVITY", "MKWORKSPACE", "VERSION-CONTROL", "BASELINE-CONTROL",
            "NOTIFY", "SUBSCRIBE", "UNSUBSCRIBE"}
Versions == {"HTTP/1.0", "HTTP/1.1"}

\* Three lines of HTTP_STATUS_CODE_ARRAY, by the text and the value of the enumerator:
\* the enumeration goes from 305 to 307 without saying so, and HTTP_ST_307 is 306.
StatusOf == [s \in {"200", "307", "404"} |->
              CASE s = "200" -> 200 [] s = "307" -> 306 [] s = "404" -> 404]
Statuses == DOMAIN StatusOf
HTTP_ST_NONE == 600
Numbers  == Statuses \cup {"999"}

\* The symbols that are one character.
Chars == {"CR", "LF", "SP", "NUL", "char"}

Least(S) == CHOOSE i \in S : \A j \in S : i <= j

\* memchr(line, '\n', ...): the first LF from line to dataend.
NextLf(t, line, dataend) ==
  LET lfs == {i \in line .. dataend : t[i] = "LF"}
  IN IF lfs = {} THEN 0 ELSE Least(lfs)

\* The LF at i is followed by a line of at most one character that ends at j.
Blank(t, i, j) ==
  /\ t[i] = "LF" /\ t[j] = "LF"
  /\ j = i + 1 \/ (j = i + 2 /\ t[i + 1] \in Chars \ {"LF"})

Ends(t) == {j \in DOMAIN t : \E i \in DOMAIN t : Blank(t, i, j)}

\* Mutant: takes the last blank line, not the first.
find_last_end(t) ==
  IF Ends(t) = {} THEN 0 ELSE CHOOSE i \in Ends(t) : \A j \in Ends(t) : j <= i

\* Mutant: takes CR LF for a line that is not blank.
find_empty_line(t) ==
  LET ends == {j \in DOMAIN t : j > 1 /\ t[j] = "LF" /\ t[j - 1] = "LF"}
  IN IF ends = {} THEN 0 ELSE Least(ends)

find_header_end(t) == IF Ends(t) = {} THEN 0 ELSE Least(Ends(t))

\* Where the line that begins at line ends, and where its end-of-line begins.
find_line_end(t, line, dataend) ==
  LET lf == NextLf(t, line, dataend)
  IN CASE lf = 0 -> [lineend |-> dataend, eol |-> dataend]
       [] lf > line /\ t[lf - 1] = "CR" -> [lineend |-> lf, eol |-> lf - 1]
       [] lf > line /\ t[lf - 1] # "CR" /\ lf < dataend - 1 /\ t[lf + 1] = "CR" ->
            [lineend |-> lf + 1, eol |-> lf]
       [] OTHER -> [lineend |-> lf, eol |-> lf]

\* The length of the token at linep and where the next one begins.
get_token_len(t, linep, lineend) ==
  LET stop == Least({i \in linep .. lineend - 1 : t[i] \in {"SP", "CR", "LF"}} \cup {lineend})
      next == Least({i \in stop .. lineend - 1 : t[i] # "SP"} \cup {lineend})
  IN [len |-> stop - linep, next_token |-> next]

-----------------------------------------------------------------------------
\* The lines of this part are text[line], ..., text[lineend - 1].
\* The method is all there is before the first space, a prefix aside.
http_request_method(t, line, lineend) ==
  LET data == CASE t[line] = "M-" -> line + 1
                [] line + 1 < lineend /\ t[line] = "CR" /\ t[line + 1] = "LF" -> line + 2
                [] OTHER -> line
      stop == Least({i \in data .. lineend - 1 : t[i] = "SP"} \cup {lineend})
  IN IF stop = data + 1 /\ t[data] \in Methods THEN t[data] ELSE "NONE"

\* The second token of the line, which a space must follow.
UriToken(t, line, lineend) ==
  LET method == get_token_len(t, line, lineend)
      uri    == get_token_len(t, method.next_token, lineend)
      valid  == /\ method.len # 0 /\ t[line + method.len] = "SP"
                /\ uri.len # 0 /\ t[method.next_token + uri.len] = "SP"
  IN [valid |-> valid, first |-> method.next_token, len |-> uri.len,
      next_token |-> uri.next_token]

http_request_uri(t, line, lineend) ==
  LET uri == UriToken(t, line, lineend)
  IN IF uri.valid THEN SubSeq(t, uri.first, uri.first + uri.len - 1) ELSE <<>>

http_request_version(t, line, lineend) ==
  LET uri == UriToken(t, line, lineend)
  IN IF uri.valid /\ uri.next_token < lineend /\ t[uri.next_token] \in Versions
     THEN t[uri.next_token] ELSE "NONE"

\* A version is eight characters, so that no shorter payload begins with one.
http_response_version(t) == IF t[1] \in Versions THEN t[1] ELSE "NONE"

\* sscanf reads the number the second token begins with.
http_response_status(t, line, lineend) ==
  LET version == get_token_len(t, line, lineend)
      number  == version.next_token
      status  == get_token_len(t, number, lineend)
  IN IF /\ version.len # 0 /\ t[line + version.len] = "SP"
        /\ status.len # 0 /\ t[number + status.len] \in {"SP", "CR", "LF"}
        /\ t[number] \in Statuses
        /\ status.len > 1 => t[number + 1] \notin Numbers
     THEN StatusOf[t[number]] ELSE HTTP_ST_NONE

-----------------------------------------------------------------------------
\* Mutant: the line end stays in the value.
value_with_eol(t, line, end) ==
  LET c == Least({i \in line + 1 .. end.lineend - 1 : t[i] # "SP"} \cup {end.lineend})
  IN SubSeq(t, c, end.eol)

\* The value of the field at line: from the first character that is no space to
\* the last one that is no CR or LF, but never fewer than one.
Value(t, line, end) ==
  LET c    == Least({i \in line + 1 .. end.lineend - 1 : t[i] # "SP"} \cup {end.lineend})
      back == {i \in c .. end.eol : i = c \/ t[i] \notin {"CR", "LF"}}
  IN SubSeq(t, c, CHOOSE i \in back : \A j \in back : j <= i)

\* The value of the first line that begins with param; <<>> is NULL.
http_header_param(t, hlen, param) ==
  LET search[line \in 1 .. hlen] ==
        LET end == find_line_end(t, line, hlen)
        IN CASE end.lineend = hlen -> <<>>
             [] end.lineend # hlen /\ t[line] = param -> Value(t, line, end)
             [] OTHER -> search[end.lineend + 1]
  IN search[1]

RequestFields == {"Host:", "Referer:", "User-Agent:", "Connection:", "Accept:",
                  "Accept-Encoding:", "Accept-Language:", "Accept-Charset:", "Cookie:"}
RequestContent == {"Content-Type:", "Content-Encoding:", "Content-Length:"}
ResponseFields == {"Server:", "Date:", "Expires:", "Last-Modified:", "ETag:", "Age:",
                   "Accept-Ranges:", "Content-Type:", "Content-Encoding:",
                   "Content-Length:", "Location:"}

\* What is in a header that was not parsed: its length, and zeroes, of which
\* the version is HTTP_VER_1_0.
Unparsed(fields, hdl) ==
  [ret |-> -1, hdlen |-> hdl, method |-> "NONE", uri |-> <<>>, version |-> "HTTP/1.0",
   status |-> HTTP_ST_NONE, param |-> [f \in fields |-> <<>>]]

\* The two parsers look for the header end themselves: eoh is where they found it, or 0,
\* and hdl is eoh - data + 1, of type int.  With eoh = NULL it is what is left of an
\* address: hdl is 0 for any number that is not positive and Len(t) for any that is
\* beyond the text.

\* memchr is not bounded by a NULL eoh, and the first line of the text has an LF.
FirstLineEnd(t, eoh) == find_line_end(t, 1, IF eoh = 0 THEN Len(t) ELSE eoh)

\* No line is within a length below 1.  A search that goes beyond the text ends with
\* what the memory holds there.
Unknown == <<"unknown">>
Field(t, hdl, param) ==
  LET value == http_header_param(t, hdl, param)
  IN CASE hdl = 0 -> <<>>
       [] hdl = Len(t) /\ value = <<>> -> Unknown
       [] OTHER -> value

http_parse_request(t, eoh, hdl) ==
  LET lineep == FirstLineEnd(t, eoh).lineend
      method == http_request_method(t, 1, lineep + 1)
      wanted == RequestFields \cup (IF method = "POST" THEN RequestContent ELSE {})
      fields == RequestFields \cup RequestContent
  IN IF method = "NONE" THEN Unparsed(fields, hdl)
     ELSE [ret |-> 0, hdlen |-> hdl, method |-> method, status |-> HTTP_ST_NONE,
           uri |-> http_request_uri(t, 1, lineep + 1),
           version |-> http_request_version(t, 1, lineep + 1),
           param |-> [f \in fields |-> IF f \in wanted THEN Field(t, hdl, f) ELSE <<>>]]

http_parse_response(t, eoh, hdl) ==
  LET lineep == FirstLineEnd(t, eoh).lineend
      status == http_response_status(t, 1, lineep + 1)
  IN IF status = HTTP_ST_NONE THEN Unparsed(ResponseFields, hdl)
     ELSE [ret |-> 0, hdlen |-> hdl, method |-> "NONE", uri |-> <<>>, status |-> status,
           version |-> http_response_version(t),
           param |-> [f \in ResponseFields |-> Field(t, hdl, f)]]

-----------------------------------------------------------------------------
\* The end of the header if the payload begins a message of the kind, else 0.
IsRequest(t) ==
  IF http_request_method(t, 1, Len(t) + 1) = "NONE" THEN 0 ELSE find_header_end(t)

IsResponse(t) == IF http_response_version(t) = "NONE" THEN 0 ELSE find_header_end(t)

IsHttpPacket(t) == IsRequest(t) # 0 \/ IsResponse(t) # 0
=============================================================================
