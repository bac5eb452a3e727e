----------------------------- MODULE MCTcpStream -----------------------------
(***************************************************************************)
(* Instances of TcpStream.                                                 *)
(***************************************************************************)
EXTENDS TcpStream

\* A sender that cuts its stream once: the first segment is the one byte of the
\* SYN.
Disjoint == {<<0, 1>>, <<1, 3>>, <<3, 4>>, <<4, 6>>, <<6, 8>>, <<8, 9>>, <<9, 12>>}
\* The same with segments that carry nothing: acknowledgements.
WithAcks == Disjoint \cup {<<1, 1>>, <<4, 4>>, <<12, 12>>}

\* A sender that cuts anew when it sends again.
Overlapping == {c \in (0 .. 5) \X (1 .. 5) : c[1] < c[2]}

\* Three segments.
Short == {<<0, 1>>, <<1, 3>>, <<3, 4>>}

Case(isn, cuts, delivery, bound) ==
  [isn |-> isn, cuts |-> cuts, delivery |-> delivery, bound |-> bound]

\* Everything the list is made for: any order without repetitions; losses
\* and repetitions, one gap at a time; in order across the end of the sequence space.
Ordinary ==
  {Case(100, WithAcks, "reordered", 10), Case(100, Overlapping, "repeated", 5)}
    \cup {Case(isn, Overlapping, "in_order", 5) : isn \in {100} \cup 994 .. 999}

\* Repetitions after a gap, and after the wrap.
Unusual == {Case(100, Short, "both", 4), Case(998, Short, "repeated", 5)}
==============================================================================
