---------------------------- MODULE MCPreprocess ----------------------------
(***************************************************************************)
(* Requests and responses, whole and damaged, with and without the fields  *)
(* the parser looks for, and frames of HTTP and of anything else.          *)
(***************************************************************************)
EXTENDS Preprocess

MCStarts ==
  {<<"GET", "SP", "word", "SP", "HTTP/1.1">>, <<"GET", "SP", "SP", "word">>,
   <<"M-", "PUT", "SP", "word", "SP", "SP", "word">>, <<"POST", "SP", "word">>,
   <<"CR", "LF", "GET", "SP", "word">>, <<"GET">>, <<"word", "CR">>,
   <<"HTTP/1.1", "SP", "200", "SP", "word">>, <<"HTTP/1.0", "SP", "307">>,
   <<"HTTP/1.0", "SP", "999">>}

MCPieces ==
  {<<"CR", "LF">>, <<"LF">>, <<"CR">>, <<"char">>, <<"SP", "word", "CR", "LF">>,
   <<"Host:", "CR", "LF">>, <<"Host:", "SP", "word", "LF">>,
   <<"Content-Length:", "word", "SP", "CR", "LF">>}

Frame(type, pro, sport, dport) ==
  [ether_type |-> type, ip_pro |-> pro, sport |-> sport, dport |-> dport,
   ihl |-> 5, th_off |-> 8]

MCFrames ==
  {Frame(2048, 6, 80, 40000), Frame(2048, 6, 40000, 8080), Frame(2054, 6, 80, 40000),
   Frame(2048, 17, 80, 40000), Frame(2048, 6, 443, 40000)}

\* One symbol, which the search makes up for, and two; eleven are all there is of the
\* longest headers and more than there is of the others, where tcp_dl wraps.
MCCuts == {1, 2, 11}
=============================================================================
