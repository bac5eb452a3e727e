---------------------------- MODULE TcpStreamProofs ----------------------------
(***************************************************************************)
(* The list of one direction, for any sender, any cuts of its stream and   *)
(* any order, loss or repetition of its segments that the code can cope    *)
(* with: the list holds the bytes that arrived, in their order, none twice *)
(* and none lost.                                                          *)
(***************************************************************************)
EXTENDS TcpStream, TcpOrderProofs, FiniteSetTheorems

\* A sender that cuts its stream once.
DisjointCuts(cuts) == \A c, d \in cuts : c = d \/ c[2] <= d[1] \/ d[2] <= c[1]

\* What has arrived does not reach the end of the sequence space.
NoWrap == \A c \in arrived : 0 < case.isn + c[2] /\ case.isn + c[2] < SeqWord

\* What the list is made for: a stream that has not wrapped, and segments that come in
\* order, or after losses with one gap at a time, or in any order if they are cut once
\* and each comes once.
Plain ==
  /\ NoWrap
  /\ \/ case.delivery \in {"in_order", "repeated"}
     \/ case.delivery = "reordered" /\ DisjointCuts(arrived)

-----------------------------------------------------------------------------
(* What has arrived, as a set of cuts. *)

IsCuts(S) == \A c \in S : c[1] \in Nat /\ c[2] \in Nat /\ c[1] <= c[2]

HasEnd(S) == S # {} => \E c \in S : \A d \in S : d[2] <= c[2]

Has(S, x) == \E c \in S : c[1] <= x /\ x < c[2]

HighOf(S) == IF S = {} THEN 0
             ELSE CHOOSE h \in {c[2] : c \in S} : \A c \in S : c[2] <= h

MissingOf(S) == CHOOSE x \in 0 .. HighOf(S) :
  /\ x < HighOf(S) => \A c \in S : ~ (c[1] <= x /\ x < c[2])
  /\ \A y \in 0 .. x - 1 : \E c \in S : c[1] <= y /\ y < c[2]

\* The end of what has arrived is the end of a segment and no segment ends behind it.
LEMMA HighFacts ==
  ASSUME NEW S, IsCuts(S), HasEnd(S)
  PROVE  /\ HighOf(S) \in Nat
         /\ \A c \in S : c[2] <= HighOf(S)
         /\ S # {} => \E c \in S : c[2] = HighOf(S)
         /\ S = {} => HighOf(S) = 0
<1>1. CASE S = {}
  BY <1>1 DEF HighOf
<1>2. CASE S # {}
  <2> DEFINE ends == {c[2] : c \in S}
  <2>1. \E h \in ends : \A c \in S : c[2] <= h
    BY <1>2 DEF HasEnd
  <2>2. HighOf(S) = CHOOSE h \in ends : \A c \in S : c[2] <= h
    BY <1>2 DEF HighOf
  <2>3. HighOf(S) \in ends /\ \A c \in S : c[2] <= HighOf(S)
    BY <2>1, <2>2
  <2>4. PICK c \in S : c[2] = HighOf(S)
    BY <2>3
  <2>5. HighOf(S) \in Nat
    BY <2>4 DEF IsCuts
  <2> QED
    BY <1>2, <2>3, <2>4, <2>5
<1> QED
  BY <1>1, <1>2

\* One more segment.
LEMMA HighGrown ==
  ASSUME NEW S, IsCuts(S), HasEnd(S), NEW c, c[1] \in Nat, c[2] \in Nat, c[1] <= c[2]
  PROVE  /\ IsCuts(S \cup {c}) /\ HasEnd(S \cup {c})
         /\ HighOf(S \cup {c}) = IF HighOf(S) < c[2] THEN c[2] ELSE HighOf(S)
         /\ HighOf(S \cup {c}) \in Nat /\ HighOf(S) <= HighOf(S \cup {c})
         /\ c[2] <= HighOf(S \cup {c})
<1> DEFINE T == S \cup {c}
           h == HighOf(S)
<1>1. IsCuts(T)
  BY DEF IsCuts
<1>2. /\ h \in Nat /\ \A d \in S : d[2] <= h
      /\ S # {} => \E d \in S : d[2] = h
      /\ S = {} => h = 0
  BY HighFacts
<1> HIDE DEF h
<1>3. \A d \in T : d[2] \in Nat
  BY <1>1 DEF IsCuts
<1>4. CASE h < c[2]
  <2>1. \A d \in T : d[2] <= c[2]
    BY <1>2, <1>3, <1>4
  <2>2. HasEnd(T)
    BY <2>1 DEF HasEnd
  <2>3. HighOf(T) \in Nat /\ c[2] <= HighOf(T) /\ \E d \in T : d[2] = HighOf(T)
    BY <1>1, <2>2, HighFacts
  <2>4. HighOf(T) = c[2]
    BY <2>1, <2>3
  <2> QED
    BY <1>1, <1>2, <1>4, <2>2, <2>4 DEF h
<1>5. CASE ~ (h < c[2]) /\ S # {}
  <2>1. PICK e \in S : e[2] = h
    BY <1>2, <1>5
  <2>2. \A d \in T : d[2] <= e[2]
    BY <1>2, <1>3, <1>5, <2>1
  <2>3. HasEnd(T)
    BY <2>1, <2>2 DEF HasEnd
  <2>4. HighOf(T) \in Nat /\ e[2] <= HighOf(T) /\ \E d \in T : d[2] = HighOf(T)
    BY <1>1, <2>1, <2>3, HighFacts
  <2>5. HighOf(T) = h
    BY <1>2, <2>1, <2>2, <2>4
  <2> QED
    BY <1>1, <1>2, <1>5, <2>3, <2>5 DEF h
<1>6. CASE ~ (h < c[2]) /\ S = {}
  <2>1. T = {c} /\ c[2] = 0 /\ h = 0
    BY <1>2, <1>6
  <2>2. HasEnd(T)
    BY <2>1 DEF HasEnd
  <2>3. \E d \in T : d[2] = HighOf(T)
    BY <1>1, <2>1, <2>2, HighFacts
  <2>4. HighOf(T) = 0
    BY <2>1, <2>3
  <2> QED
    BY <1>1, <1>6, <2>1, <2>2, <2>4 DEF h
<1> QED
  BY <1>4, <1>5, <1>6

\* The first byte that is missing.
LEMMA MissingFacts ==
  ASSUME NEW S, IsCuts(S), HasEnd(S)
  PROVE  /\ MissingOf(S) \in Nat /\ MissingOf(S) <= HighOf(S)
         /\ MissingOf(S) < HighOf(S) => ~ Has(S, MissingOf(S))
         /\ \A y \in Nat : y < MissingOf(S) => Has(S, y)
<1> DEFINE h == HighOf(S)
           Gap(x) == x < h => ~ Has(S, x)
           T == {x \in 0 .. h : Gap(x)}
           Answer(x) == /\ x < h => \A c \in S : ~ (c[1] <= x /\ x < c[2])
                        /\ \A y \in 0 .. x - 1 : \E c \in S : c[1] <= y /\ y < c[2]
<1>1. h \in Nat
  BY HighFacts
<1>2. MissingOf(S) = CHOOSE x \in 0 .. h : Answer(x)
  BY DEF MissingOf
<1> HIDE DEF h
<1>3. h \in T /\ T \subseteq Nat
  BY <1>1
<1>4. PICK x \in T : \A y \in T : x <= y
  <2> HIDE DEF T
  <2> QED
    BY <1>3, LeastIn
<1>5. x \in 0 .. h /\ Gap(x)
  BY <1>4
<1>6. \A y \in 0 .. x - 1 : Has(S, y)
  <2> SUFFICES ASSUME NEW y \in 0 .. x - 1, ~ Has(S, y) PROVE FALSE
    OBVIOUS
  <2>1. y \in 0 .. h /\ Gap(y)
    BY <1>1, <1>5
  <2>2. x <= y
    BY <1>4, <2>1
  <2> QED
    BY <1>1, <1>5, <2>2
<1>7. Answer(x)
  BY <1>5, <1>6 DEF Has
<1> DEFINE m == MissingOf(S)
<1> HIDE DEF Answer
<1>8. m \in 0 .. h /\ Answer(m)
  BY <1>2, <1>5, <1>7
<1> HIDE DEF m
<1>9. /\ m < h => ~ Has(S, m)
      /\ \A y \in 0 .. m - 1 : Has(S, y)
  BY <1>8 DEF Answer, Has
<1>10. m \in Nat /\ m <= h /\ \A y \in Nat : y < m => y \in 0 .. m - 1
  BY <1>1, <1>8
<1> QED
  BY <1>9, <1>10 DEF m, h

\* Up to one gap, all the bytes from the gap on are there that are behind a byte that is.
OneGap(S) ==
  \A x, y \in Nat : MissingOf(S) <= x /\ x <= y /\ y < HighOf(S) /\ Has(S, x) => Has(S, y)

\* A segment that fills the gap from its beginning or goes on at the end, or any, if
\* there is no gap.
Mends(S, c) ==
  \/ c[1] = HighOf(S)
  \/ c[1] <= MissingOf(S) /\ (MissingOf(S) < HighOf(S) => c[2] <= HighOf(S))
  \/ MissingOf(S) = HighOf(S)

\* A position at which a node may begin: not inside the gap.
Begins(S, x) == x <= MissingOf(S) \/ x = HighOf(S) \/ Has(S, x)

\* A segment that mends leaves one gap, and what begins outside it stays outside.
LEMMA Mended ==
  ASSUME NEW S, IsCuts(S), HasEnd(S), OneGap(S),
         NEW c, c[1] \in Nat, c[2] \in Nat, c[1] <= c[2], Mends(S, c)
  PROVE  /\ OneGap(S \cup {c})
         /\ \A x \in Nat : Begins(S, x) => Begins(S \cup {c}, x)
         /\ Begins(S \cup {c}, c[1])
         /\ \A x \in Nat : c[1] <= x /\ x < c[2] => Begins(S \cup {c}, x)
<1> DEFINE T == S \cup {c}
           h == HighOf(S)
           k == HighOf(T)
           m == MissingOf(S)
           n == MissingOf(T)
<1>1. /\ IsCuts(T) /\ HasEnd(T) /\ k = IF h < c[2] THEN c[2] ELSE h
      /\ k \in Nat /\ h <= k /\ c[2] <= k
  BY HighGrown
<1>2. h \in Nat /\ \A d \in S : d[2] <= h
  BY HighFacts
<1>3. m \in Nat /\ m <= h /\ (m < h => ~ Has(S, m)) /\ \A y \in Nat : y < m => Has(S, y)
  BY MissingFacts
<1>4. n \in Nat /\ n <= k /\ (n < k => ~ Has(T, n)) /\ \A y \in Nat : y < n => Has(T, y)
  BY <1>1, MissingFacts
<1>5. \A x \in Nat : Has(T, x) <=> Has(S, x) \/ (c[1] <= x /\ x < c[2])
  BY DEF Has
<1>6. \A x \in Nat : Has(S, x) => x < h
  BY <1>2 DEF Has, IsCuts
<1>7. \A x, y \in Nat : m <= x /\ x <= y /\ y < h /\ Has(S, x) => Has(S, y)
  BY DEF OneGap
<1>8. c[1] = h \/ (c[1] <= m /\ (m < h => c[2] <= h)) \/ m = h
  BY DEF Mends
<1> HIDE DEF T, h, k, m, n
<1>9. m <= n
  <2> SUFFICES ASSUME n < m PROVE FALSE
    BY <1>3, <1>4
  <2>1. n < k
    BY <1>1, <1>2, <1>3, <1>4
  <2>2. Has(S, n)
    BY <1>3, <1>4
  <2> QED
    BY <1>4, <1>5, <2>1, <2>2
<1>10. ASSUME NEW x \in Nat, NEW y \in Nat, n <= x, x <= y, y < k, Has(T, x)
       PROVE  Has(T, y)
  <2>1. n < k /\ ~ Has(T, n) /\ m <= x
    BY <1>1, <1>3, <1>4, <1>9, <1>10
  <2>2. CASE y < h
    <3>1. CASE Has(S, x)
      <4>1. Has(S, y)
        BY <1>7, <1>10, <2>1, <2>2, <3>1
      <4> QED
        BY <1>5, <4>1
    <3>2. CASE c[1] <= x /\ x < c[2]
      <4>1. CASE m = h
        <5>1. y < m
          BY <2>2, <4>1
        <5>2. Has(S, y)
          BY <1>3, <5>1
        <5> QED
          BY <1>5, <5>2
      <4>2. CASE m # h
        <5>1. c[1] <= m
          BY <1>2, <1>8, <1>10, <2>2, <3>2, <4>2
        <5>2. c[1] <= n /\ n < c[2]
          BY <1>3, <1>4, <1>9, <1>10, <3>2, <5>1
        <5> QED
          BY <1>4, <1>5, <2>1, <5>2
      <4> QED
        BY <4>1, <4>2
    <3> QED
      BY <1>5, <1>10, <3>1, <3>2
  <2>3. CASE ~ (y < h)
    <3>1. k = c[2] /\ h < c[2] /\ y < c[2]
      BY <1>1, <1>2, <1>10, <2>3
    <3>2. CASE c[1] <= y
      BY <1>5, <3>1, <3>2
    <3>3. CASE ~ (c[1] <= y)
      <4>1. h < c[1] /\ x < c[1]
        BY <1>2, <1>10, <2>3, <3>3
      <4>2. Has(S, x)
        BY <1>5, <1>10, <4>1
      <4>3. x < h
        BY <1>6, <4>2
      <4>4. m = h
        BY <1>2, <1>3, <1>8, <4>1
      <4> QED
        BY <1>2, <2>1, <4>3, <4>4
    <3> QED
      BY <3>2, <3>3
  <2> QED
    BY <2>2, <2>3
<1>11. ASSUME NEW x \in Nat, x <= m \/ x = h \/ Has(S, x)
       PROVE  x <= n \/ x = k \/ Has(T, x)
  <2>1. CASE x <= m
    BY <1>3, <1>4, <1>9, <2>1
  <2>2. CASE Has(S, x)
    BY <1>5, <2>2
  <2>3. CASE x = h
    <3>1. CASE h < c[2] /\ c[1] <= h
      BY <1>5, <2>3, <3>1
    <3>2. CASE h < c[2] /\ ~ (c[1] <= h)
      <4>1. m = h
        BY <1>2, <1>3, <1>8, <3>2
      <4> QED
        BY <1>2, <1>4, <1>9, <2>3, <4>1
    <3>3. CASE ~ (h < c[2])
      BY <1>1, <2>3, <3>3
    <3> QED
      BY <3>1, <3>2, <3>3
  <2> QED
    BY <1>11, <2>1, <2>2, <2>3
<1>12. c[1] <= n \/ c[1] = k \/ Has(T, c[1])
  <2>1. CASE c[1] < c[2]
    BY <1>5, <2>1
  <2>2. CASE c[1] = c[2]
    <3>1. CASE c[1] <= m
      BY <1>3, <1>4, <1>9, <3>1
    <3>2. CASE ~ (c[1] <= m)
      <4>1. c[1] = h \/ m = h
        BY <1>8, <3>2
      <4>2. c[1] = k
        BY <1>1, <1>2, <2>2, <3>2, <4>1
      <4> QED
        BY <4>2
    <3> QED
      BY <3>1, <3>2
  <2> QED
    BY <2>1, <2>2
<1>13. \A x \in Nat : c[1] <= x /\ x < c[2] => Has(T, x)
  BY <1>5
<1> QED
  BY <1>10, <1>11, <1>12, <1>13 DEF OneGap, Begins, T, h, k, m, n

-----------------------------------------------------------------------------
(* The list and what has arrived. *)

\* l holds the bytes of the segments S of a stream that begins at isn.
Listed(l, S, isn) ==
  /\ S = {} <=> l = <<>>
  /\ Monotone(l)
  /\ \A i \in 1 .. Len(l) : /\ isn <= l[i].seq /\ l[i].nxt <= isn + HighOf(S)
                            /\ l[i].nxt > 0 /\ l[i].dl = l[i].nxt - l[i].seq
  /\ l # <<>> => l[1].seq = isn /\ \E i \in 1 .. Len(l) : l[i].nxt = isn + HighOf(S)
  /\ \A x \in Nat : InList(l, isn + x) <=> Has(S, x)

\* n stands for the segment c.
NodeOf(n, c, isn) == n.seq = isn + c[1] /\ n.nxt = isn + c[2] /\ n.dl = c[2] - c[1]

\* Every node is a whole segment.
Whole(l, S, isn) ==
  \A i \in 1 .. Len(l) : \E c \in S : l[i].seq = isn + c[1] /\ l[i].nxt = isn + c[2]

\* No node begins inside the gap.
NoneInGap(l, S, isn) == \A i \in 1 .. Len(l) : Begins(S, l[i].seq - isn)

\* The first segment is the list.
LEMMA FirstListed ==
  ASSUME NEW P, NEW F, NEW o \in Orders(P, F), o.list = <<>>, NEW n \in NodesOf(P, F),
         NEW isn \in Nat, NEW c, c[1] = 0, c[2] \in Nat, c[2] > 0, NodeOf(n, c, isn)
  PROVE  LET l == tcp_order(o, n).list IN
         /\ Listed(l, {c}, isn) /\ Whole(l, {c}, isn) /\ NoneInGap(l, {c}, isn) /\ OneGap({c})
<1> DEFINE l == tcp_order(o, n).list
           T == {c}
<1>1. l = <<n>>
  BY DEF tcp_order
<1>2. IsCuts(T) /\ HasEnd(T)
  BY DEF IsCuts, HasEnd
<1>3. HighOf(T) = c[2]
  <2>1. \E d \in T : d[2] = HighOf(T)
    BY <1>2, HighFacts
  <2> QED
    BY <2>1
<1>4. l # <<>> /\ Len(l) = 1 /\ l[1] = n
  BY <1>1
<1>5. n.seq = isn /\ n.nxt = isn + c[2] /\ n.dl = n.nxt - n.seq
  BY DEF NodeOf
<1>6. \A x \in Int : Has(T, x) <=> 0 <= x /\ x < c[2]
  BY DEF Has
<1>7. T # {}
  OBVIOUS
<1> HIDE DEF l, T
<1>8. \A i \in 1 .. Len(l) : i = 1 /\ l[i] = n
  BY <1>4
<1>9. Monotone(l)
  BY <1>4, <1>5, <1>8 DEF Monotone
<1>10. \A x \in Nat : InList(l, isn + x) <=> Has(T, x)
  <2> SUFFICES ASSUME NEW x \in Nat PROVE InList(l, isn + x) <=> Has(T, x)
    OBVIOUS
  <2>1. InList(l, isn + x) <=> n.seq <= isn + x /\ isn + x < n.nxt
    BY <1>4, <1>8 DEF InList
  <2> QED
    BY <1>5, <1>6, <2>1
<1>11. Listed(l, T, isn)
  <2> DEFINE h == HighOf(T)
  <2>1. h = c[2]
    BY <1>3
  <2> HIDE DEF h
  <2>2. \A i \in 1 .. Len(l) : /\ isn <= l[i].seq /\ l[i].nxt <= isn + h
                               /\ l[i].nxt > 0 /\ l[i].dl = l[i].nxt - l[i].seq
    BY <1>5, <1>8, <2>1
  <2>3. l[1].seq = isn /\ \E i \in 1 .. Len(l) : l[i].nxt = isn + h
    BY <1>4, <1>5, <1>8, <2>1
  <2> QED
    BY <1>4, <1>7, <1>9, <1>10, <2>2, <2>3 DEF Listed, h
<1>12. Whole(l, T, isn)
  BY <1>5, <1>8 DEF Whole, T
<1>13. MissingOf(T) \in Nat /\ MissingOf(T) <= HighOf(T)
  BY <1>2, MissingFacts
<1>14. NoneInGap(l, T, isn)
  <2>1. \A i \in 1 .. Len(l) : l[i].seq - isn = 0
    BY <1>5, <1>8
  <2> QED
    BY <1>13, <2>1 DEF NoneInGap, Begins
<1>15. OneGap(T)
  BY <1>3, <1>6 DEF OneGap
<1> QED
  BY <1>11, <1>12, <1>14, <1>15 DEF l, T

\* A segment that fits leaves a list of what had arrived and of it.
LEMMA ListedKept ==
  ASSUME NEW P, NEW F, NEW o \in Orders(P, F), NEW n \in NodesOf(P, F), Fits(o.list, n),
         NEW isn \in Nat, NEW S, IsCuts(S), HasEnd(S), Listed(o.list, S, isn),
         NEW c, c[1] \in Nat, c[2] \in Nat, c[1] <= c[2], NodeOf(n, c, isn)
  PROVE  Listed(tcp_order(o, n).list, S \cup {c}, isn)
<1> DEFINE l == o.list
           s == tcp_order(o, n).list
           T == S \cup {c}
           h == HighOf(S)
           k == HighOf(T)
<1>1. /\ s # <<>> /\ Monotone(s) /\ s[1] = l[1]
      /\ \A j \in 1 .. Len(l) : \E i \in 1 .. Len(s) : s[i] = l[j]
      /\ \A i \in 1 .. Len(s) : Piece(l, n, s[i]) \/ \E j \in 1 .. Len(l) : s[i] = l[j]
      /\ \E i \in 1 .. Len(s) : n.nxt <= s[i].nxt
  BY NodesAfter
<1>2. \A x \in Nat : InList(s, x) <=> InList(l, x) \/ (n.seq <= x /\ x < n.nxt)
  BY CoversBytes
<1>3. /\ IsCuts(T) /\ HasEnd(T) /\ k = IF h < c[2] THEN c[2] ELSE h
      /\ k \in Nat /\ h <= k /\ c[2] <= k
  BY HighGrown
<1>4. h \in Nat
  BY HighFacts
<1>5. n.seq = isn + c[1] /\ n.nxt = isn + c[2] /\ n.dl = n.nxt - n.seq
  BY DEF NodeOf
<1>6. l # <<>>
  BY DEF Fits
<1>7. /\ \A i \in 1 .. Len(l) : /\ isn <= l[i].seq /\ l[i].nxt <= isn + h
                                /\ l[i].nxt > 0 /\ l[i].dl = l[i].nxt - l[i].seq
      /\ l[1].seq = isn /\ \E i \in 1 .. Len(l) : l[i].nxt = isn + h
      /\ \A x \in Nat : InList(l, isn + x) <=> Has(S, x)
  BY <1>6 DEF Listed
<1>8. s \in Seq(NodesOf(P, F)) /\ l \in Seq(NodesOf(P, F))
  <2>1. tcp_order(o, n) \in Orders(P, F)
    BY Insertion
  <2> QED
    BY <2>1 DEF Orders
<1>9. \A x \in Nat : Has(T, x) <=> Has(S, x) \/ (c[1] <= x /\ x < c[2])
  BY DEF Has
<1>10. T # {}
  OBVIOUS
<1> HIDE DEF l, s, T, h, k
<1>11. \A i \in 1 .. Len(s) : s[i].seq \in Nat /\ s[i].nxt \in Nat
  BY <1>8, NodeNumbers
<1>12. \A i \in 1 .. Len(l) : l[i].seq \in Nat /\ l[i].nxt \in Nat
  BY <1>8, NodeNumbers
<1>13. ASSUME NEW i \in 1 .. Len(s)
       PROVE  /\ isn <= s[i].seq /\ s[i].nxt <= isn + k
              /\ s[i].nxt > 0 /\ s[i].dl = s[i].nxt - s[i].seq
  <2>1. CASE Piece(l, n, s[i])
    <3>1. /\ s[i].seq = n.seq \/ (n.seq < s[i].seq /\ s[i].seq < n.nxt)
          /\ s[i].nxt <= n.nxt /\ s[i].nxt > 0
          /\ s[i].dl = s[i].nxt - s[i].seq
      BY <1>5, <2>1 DEF Piece
    <3>2. isn <= s[i].seq
      BY <1>5, <1>11, <3>1
    <3>3. s[i].nxt <= isn + k
      BY <1>3, <1>5, <1>11, <3>1
    <3> QED
      BY <3>1, <3>2, <3>3
  <2>2. ASSUME NEW j \in 1 .. Len(l), s[i] = l[j]
        PROVE  /\ isn <= s[i].seq /\ s[i].nxt <= isn + k
               /\ s[i].nxt > 0 /\ s[i].dl = s[i].nxt - s[i].seq
    <3> DEFINE e == l[j].nxt
    <3>3. e \in Nat /\ e <= isn + h
      BY <1>7, <1>12
    <3> HIDE DEF e
    <3>4. e <= isn + k
      BY <1>3, <1>4, <3>3
    <3>1. l[j].nxt <= isn + k
      BY <3>4 DEF e
    <3> QED
      BY <1>7, <2>2, <3>1
  <2> QED
    BY <1>1, <2>1, <2>2
<1>14. \E i \in 1 .. Len(s) : s[i].nxt = isn + k
  <2>1. CASE h < c[2]
    <3>1. PICK i \in 1 .. Len(s) : n.nxt <= s[i].nxt
      BY <1>1
    <3>2. k = c[2] /\ n.nxt = isn + c[2]
      BY <1>3, <1>5, <2>1
    <3>3. s[i].nxt <= isn + k /\ s[i].nxt \in Nat
      BY <1>11, <1>13
    <3> DEFINE e == s[i].nxt
               f == n.nxt
    <3>4. e <= isn + c[2] /\ f = isn + c[2] /\ f <= e /\ e \in Nat
      BY <3>1, <3>2, <3>3
    <3> HIDE DEF e, f
    <3>5. e = isn + c[2]
      BY <3>4
    <3> QED
      BY <3>2, <3>5 DEF e
  <2>2. CASE ~ (h < c[2])
    <3>1. PICK j \in 1 .. Len(l) : l[j].nxt = isn + h
      BY <1>7
    <3>2. PICK i \in 1 .. Len(s) : s[i] = l[j]
      BY <1>1
    <3> QED
      BY <1>3, <2>2, <3>1, <3>2
  <2> QED
    BY <2>1, <2>2
<1>15. \A x \in Nat : InList(s, isn + x) <=> Has(T, x)
  <2> SUFFICES ASSUME NEW x \in Nat PROVE InList(s, isn + x) <=> Has(T, x)
    OBVIOUS
  <2>1. isn + x \in Nat
    OBVIOUS
  <2>2. InList(s, isn + x) <=> Has(S, x) \/ (n.seq <= isn + x /\ isn + x < n.nxt)
    BY <1>2, <1>7, <2>1
  <2>3. n.seq <= isn + x /\ isn + x < n.nxt <=> c[1] <= x /\ x < c[2]
    BY <1>5
  <2> QED
    BY <1>9, <2>2, <2>3
<1>16. s[1].seq = isn
  BY <1>1, <1>7
<1>17. Listed(s, T, isn)
  BY <1>1, <1>10, <1>13, <1>14, <1>15, <1>16 DEF Listed, k
<1> QED
  BY <1>17 DEF s, T

\* A gap in the list is the gap of what has arrived, and the node behind it begins
\* behind the gap.
LEMMA GapInList ==
  ASSUME NEW P, NEW F, NEW l \in Seq(NodesOf(P, F)), NEW isn \in Nat,
         NEW S, IsCuts(S), HasEnd(S), Listed(l, S, isn), NoneInGap(l, S, isn),
         NEW i \in 2 .. Len(l), ~ Joined(l, i - 1)
  PROVE  LET y == l[i - 1].nxt - isn
             z == l[i].seq - isn
         IN /\ y \in Nat /\ z \in Nat
            /\ MissingOf(S) <= y /\ y < z /\ z <= HighOf(S)
            /\ z = HighOf(S) \/ Has(S, z)
            /\ l[i].seq <= l[i].nxt /\ l[i].nxt <= isn + HighOf(S)
<1> DEFINE y == l[i - 1].nxt - isn
           z == l[i].seq - isn
           h == HighOf(S)
           m == MissingOf(S)
           j == i - 1
<1>1. Len(l) \in Nat /\ i \in 1 .. Len(l) /\ j \in 1 .. Len(l) /\ j \in 1 .. Len(l) - 1
      /\ j + 1 = i
  BY LenProperties
<1>2. h \in Nat /\ m \in Nat /\ \A x \in Nat : x < m => Has(S, x)
  BY HighFacts, MissingFacts
<1>3. /\ l[i].seq \in Nat /\ l[i].nxt \in Nat /\ l[j].seq \in Nat /\ l[j].nxt \in Nat
  BY <1>1, NodeNumbers
<1>4. /\ l[j].seq <= l[j].nxt /\ l[i].seq <= l[i].nxt
      /\ isn <= l[j].seq /\ isn <= l[i].seq /\ l[i].nxt <= isn + h
      /\ Monotone(l)
  BY <1>1 DEF Listed, Monotone
<1>5. \A x \in Nat : InList(l, isn + x) <=> Has(S, x)
  BY DEF Listed
<1> HIDE DEF j
<1>6. ~ Joined(l, j)
  BY DEF j
<1>7. l[j].nxt < l[i].seq /\ ~ InList(l, l[j].nxt)
  BY <1>1, <1>4, <1>6, GapIsOpen
<1>8. y = l[j].nxt - isn
  BY DEF j
<1>9. y \in Nat /\ z \in Nat /\ y < z /\ z <= h /\ isn + y = l[j].nxt
  <2> DEFINE b == l[j].nxt
             a == l[j].seq
             d == l[i].seq
             e == l[i].nxt
  <2>1. /\ a \in Nat /\ b \in Nat /\ d \in Nat /\ e \in Nat
        /\ isn <= a /\ a <= b /\ b < d /\ d <= e /\ e <= isn + h
    BY <1>3, <1>4, <1>7
  <2>2. y = b - isn /\ z = d - isn
    BY <1>8
  <2> HIDE DEF h, y, z, a, b, d, e
  <2>3. y \in Nat /\ z \in Nat /\ y < z /\ z <= h /\ isn + y = b
    BY <1>2, <2>1, <2>2
  <2> QED
    BY <2>3 DEF b
<1>10. ~ Has(S, y)
  BY <1>5, <1>7, <1>9
<1>11. z <= m \/ z = h \/ Has(S, z)
  BY <1>1 DEF NoneInGap, Begins
<1> HIDE DEF y, z, h, m
<1>12. m <= y
  BY <1>2, <1>9, <1>10
<1>13. ~ (z <= m)
  BY <1>2, <1>9, <1>12
<1> QED
  BY <1>4, <1>9, <1>11, <1>12, <1>13 DEF y, z, h, m

\* A segment that mends what has arrived can be put into its list.
LEMMA MendsFits ==
  ASSUME NEW P, NEW F, NEW l \in Seq(NodesOf(P, F)), NEW n \in NodesOf(P, F), NEW isn \in Nat,
         NEW S, IsCuts(S), HasEnd(S), S # {}, Listed(l, S, isn), NoneInGap(l, S, isn), OneGap(S),
         NEW c, c[1] \in Nat, c[2] \in Nat, c[1] <= c[2], NodeOf(n, c, isn), n.nxt > 0,
         Mends(S, c)
  PROVE  Fits(l, n)
<1> DEFINE h == HighOf(S)
           m == MissingOf(S)
<1>1. Len(l) \in Nat
  BY LenProperties
<1>2. h \in Nat /\ m \in Nat
  BY HighFacts, MissingFacts
<1>3. n.seq = isn + c[1] /\ n.nxt = isn + c[2]
  BY DEF NodeOf
<1>4. /\ l # <<>> /\ Monotone(l) /\ \A i \in 1 .. Len(l) : l[i].nxt > 0
      /\ l[1].seq = isn
      /\ \A x \in Nat : InList(l, isn + x) <=> Has(S, x)
  BY DEF Listed
<1>5. c[1] = h \/ (c[1] <= m /\ (m < h => c[2] <= h)) \/ m = h
  BY DEF Mends
<1>6. \A x, y \in Nat : m <= x /\ x <= y /\ y < h /\ Has(S, x) => Has(S, y)
  BY DEF OneGap
<1>7. ASSUME NEW i \in 2 .. Len(l), ~ Joined(l, i - 1)
      PROVE  /\ ~ (l[i].seq < n.seq /\ n.seq < l[i].nxt)
             /\ n.seq <= l[i].seq /\ n.seq < l[i].nxt =>
                  \A x \in Nat : l[i].seq <= x /\ x < n.nxt => InList(l, x)
  <2> DEFINE y == l[i - 1].nxt - isn
             z == l[i].seq - isn
             e == l[i].nxt
             s == l[i].seq
  <2>1. /\ y \in Nat /\ z \in Nat
        /\ m <= y /\ y < z /\ z <= h
        /\ z = h \/ Has(S, z)
        /\ l[i].seq <= l[i].nxt /\ l[i].nxt <= isn + h
    BY <1>7, GapInList
  <2>2. i \in 1 .. Len(l)
    BY <1>1
  <2>3. s \in Nat /\ e \in Nat
    BY <2>2, NodeNumbers
  <2>4. s = isn + z
    BY <2>3
  <2> HIDE DEF y, z, e, s, h, m
  <2>5. s <= e /\ e <= isn + h
    BY <2>1 DEF s, e, h
  <2>6. m < h
    BY <1>2, <2>1
  <2>7. CASE c[1] = h
    <3>1. ~ (n.seq < e)
      BY <1>2, <1>3, <2>3, <2>5, <2>7
    <3> QED
      BY <3>1 DEF e
  <2>8. CASE c[1] <= m /\ c[2] <= h
    <3>1. n.seq < s
      BY <1>2, <1>3, <2>1, <2>3, <2>4, <2>8
    <3>2. ASSUME NEW x \in Nat, s <= x, x < n.nxt PROVE InList(l, x)
      <4> DEFINE w == x - isn
      <4>5. isn + z <= x /\ x < isn + c[2]
        BY <1>3, <2>4, <3>2
      <4>6. m <= z /\ z \in Nat
        BY <1>2, <2>1
      <4>1. w \in Nat /\ isn + w = x /\ z <= w /\ w < h /\ m <= z /\ z # h
        BY <1>2, <2>8, <4>5, <4>6
      <4> HIDE DEF w
      <4>2. Has(S, z)
        BY <2>1, <4>1
      <4>3. Has(S, w)
        BY <1>6, <2>1, <4>1, <4>2
      <4>4. InList(l, isn + w)
        BY <1>4, <4>1, <4>3
      <4> QED
        BY <4>1, <4>4
    <3>3. ~ (s < n.seq)
      BY <1>3, <2>3, <3>1
    <3> QED
      BY <3>2, <3>3 DEF s
  <2> QED
    BY <1>2, <1>5, <2>6, <2>7, <2>8
<1>9. l[1].seq = isn
  BY <1>4
<1>10. isn <= isn + c[1] /\ isn + c[1] <= isn + c[2]
  OBVIOUS
<1>8. n.seq <= n.nxt /\ l[1].seq <= n.seq
  BY <1>3, <1>9, <1>10
<1> QED
  BY <1>4, <1>7, <1>8 DEF Fits

\* A segment cut beside all others can be put into their list.
LEMMA ApartFits ==
  ASSUME NEW P, NEW F, NEW l \in Seq(NodesOf(P, F)), NEW n \in NodesOf(P, F), NEW isn \in Nat,
         NEW S, IsCuts(S), S # {}, Listed(l, S, isn), Whole(l, S, isn),
         NEW c, c[1] \in Nat, c[2] \in Nat, c[1] <= c[2], NodeOf(n, c, isn), n.nxt > 0,
         \A d \in S : c[2] <= d[1] \/ d[2] <= c[1]
  PROVE  Fits(l, n) /\ Apart(l, n)
<1>1. Len(l) \in Nat
  BY LenProperties
<1>3. n.seq = isn + c[1] /\ n.nxt = isn + c[2]
  BY DEF NodeOf
<1>4. /\ l # <<>> /\ Monotone(l) /\ \A i \in 1 .. Len(l) : l[i].nxt > 0
      /\ l[1].seq = isn
  BY DEF Listed
<1>5. ASSUME NEW i \in 1 .. Len(l) PROVE l[i].nxt <= n.seq \/ n.nxt <= l[i].seq
  <2>1. PICK d \in S : l[i].seq = isn + d[1] /\ l[i].nxt = isn + d[2]
    BY DEF Whole
  <2>2. d[1] \in Nat /\ d[2] \in Nat
    BY DEF IsCuts
  <2> QED
    BY <1>3, <2>1, <2>2
<1>6. \A i \in 1 .. Len(l) : l[i].seq \in Nat /\ l[i].nxt \in Nat
  BY NodeNumbers
<1>7. n.seq \in Nat /\ n.nxt \in Nat /\ n.seq <= n.nxt /\ l[1].seq <= n.seq
  BY <1>3, <1>4
<1>8. ASSUME NEW i \in 2 .. Len(l)
      PROVE  /\ ~ (l[i].seq < n.seq /\ n.seq < l[i].nxt)
             /\ n.seq <= l[i].seq /\ n.seq < l[i].nxt =>
                  \A x \in Nat : l[i].seq <= x /\ x < n.nxt => InList(l, x)
  <2>1. i \in 1 .. Len(l)
    BY <1>1
  <2> DEFINE s == l[i].seq
             e == l[i].nxt
  <2>2. s \in Nat /\ e \in Nat /\ (e <= n.seq \/ n.nxt <= s)
    BY <1>5, <1>6, <2>1
  <2> HIDE DEF s, e
  <2>3. ~ (s < n.seq /\ n.seq < e)
    BY <1>7, <2>2
  <2>4. n.seq <= s /\ n.seq < e => \A x \in Nat : ~ (s <= x /\ x < n.nxt)
    BY <1>7, <2>2
  <2> QED
    BY <2>3, <2>4 DEF s, e
<1> QED
  BY <1>4, <1>5, <1>7, <1>8 DEF Fits, Apart

\* No node of the new list begins in a gap.
LEMMA NoneInGapKept ==
  ASSUME NEW P, NEW F, NEW o \in Orders(P, F), NEW n \in NodesOf(P, F), Fits(o.list, n),
         NEW isn \in Nat, NEW S, IsCuts(S), HasEnd(S), OneGap(S),
         Listed(o.list, S, isn), NoneInGap(o.list, S, isn),
         NEW c, c[1] \in Nat, c[2] \in Nat, c[1] <= c[2], NodeOf(n, c, isn), Mends(S, c)
  PROVE  NoneInGap(tcp_order(o, n).list, S \cup {c}, isn)
<1> DEFINE l == o.list
           s == tcp_order(o, n).list
           T == S \cup {c}
<1>1. \A i \in 1 .. Len(s) : Piece(l, n, s[i]) \/ \E j \in 1 .. Len(l) : s[i] = l[j]
  BY NodesAfter
<1>2. /\ \A x \in Nat : Begins(S, x) => Begins(T, x)
      /\ Begins(T, c[1])
      /\ \A x \in Nat : c[1] <= x /\ x < c[2] => Begins(T, x)
  BY Mended
<1>3. n.seq = isn + c[1] /\ n.nxt = isn + c[2]
  BY DEF NodeOf
<1>4. s \in Seq(NodesOf(P, F)) /\ l \in Seq(NodesOf(P, F))
  <2>1. tcp_order(o, n) \in Orders(P, F)
    BY Insertion
  <2> QED
    BY <2>1 DEF Orders
<1>5. \A j \in 1 .. Len(l) : isn <= l[j].seq /\ Begins(S, l[j].seq - isn)
  BY DEF Listed, NoneInGap
<1> HIDE DEF l, s, T
<1>6. \A j \in 1 .. Len(l) : l[j].seq \in Nat
  BY <1>4, NodeNumbers
<1>7. \A j \in 1 .. Len(s) : s[j].seq \in Nat
  BY <1>4, NodeNumbers
<1>8. ASSUME NEW i \in 1 .. Len(s) PROVE Begins(T, s[i].seq - isn)
  <2>1. CASE Piece(l, n, s[i])
    <3> DEFINE x == s[i].seq
    <3>1. x \in Nat /\ (x = n.seq \/ (n.seq < x /\ x < n.nxt))
      BY <1>7, <2>1 DEF Piece
    <3> HIDE DEF x
    <3>2. x - isn = c[1] \/ (x - isn \in Nat /\ c[1] <= x - isn /\ x - isn < c[2])
      BY <1>3, <3>1
    <3>3. Begins(T, x - isn)
      BY <1>2, <3>2
    <3> QED
      BY <3>3 DEF x
  <2>2. ASSUME NEW j \in 1 .. Len(l), s[i] = l[j] PROVE Begins(T, s[i].seq - isn)
    <3>1. l[j].seq - isn \in Nat
      BY <1>5, <1>6
    <3>2. Begins(T, l[j].seq - isn)
      BY <1>2, <1>5, <3>1
    <3> QED
      BY <2>2, <3>2
  <2> QED
    BY <1>1, <2>1, <2>2
<1> QED
  BY <1>8 DEF NoneInGap, s, T

\* The nodes of the new list are whole segments.
LEMMA WholeKept ==
  ASSUME NEW P, NEW F, NEW o \in Orders(P, F), NEW n \in NodesOf(P, F), Fits(o.list, n),
         Apart(o.list, n), NEW isn, NEW S, Whole(o.list, S, isn), NEW c, NodeOf(n, c, isn)
  PROVE  Whole(tcp_order(o, n).list, S \cup {c}, isn)
<1> DEFINE l == o.list
           s == tcp_order(o, n).list
<1>1. \A i \in 1 .. Len(s) : Piece(l, n, s[i]) \/ \E j \in 1 .. Len(l) : s[i] = l[j]
  BY NodesAfter
<1>2. n.seq = isn + c[1] /\ n.nxt = isn + c[2]
  BY DEF NodeOf
<1>3. \A j \in 1 .. Len(l) : \E d \in S : l[j].seq = isn + d[1] /\ l[j].nxt = isn + d[2]
  BY DEF Whole
<1>4. \A i \in 1 .. Len(s) : Piece(l, n, s[i]) => s[i].seq = n.seq /\ s[i].nxt = n.nxt
  BY DEF Piece
<1> HIDE DEF l, s
<1>5. \A i \in 1 .. Len(s) : \E d \in S \cup {c} : s[i].seq = isn + d[1] /\ s[i].nxt = isn + d[2]
  BY <1>1, <1>2, <1>3, <1>4
<1> QED
  BY <1>5 DEF Whole, s

-----------------------------------------------------------------------------
(* The invariant. *)

\* A cut is a segment, and its node is one of the list's.
LEMMA SegmentFacts ==
  ASSUME case \in Cases, NEW c \in case.cuts
  PROVE  /\ case.isn \in 0 .. SeqWord - 1
         /\ c[1] \in Nat /\ c[2] \in Nat /\ c[1] <= c[2]
         /\ seq_pkt(Segment(c)) \in NodesOf(case.cuts, {{"ACK"}})
         /\ case.isn + c[2] < SeqWord => NodeOf(seq_pkt(Segment(c)), c, case.isn)
<1> DEFINE isn == case.isn
           from == c[1]
           to == c[2]
<1>1. isn \in 0 .. SeqWord - 1 /\ isn \in Nat /\ isn < SeqWord /\ SeqWord \in Nat
  BY StreamAssumption, WordAssumption
<1>2. from \in Nat /\ to \in Nat /\ from <= to /\ to - from < LenWord /\ LenWord \in Nat
  BY StreamAssumption, WordAssumption
<1> DEFINE p == Segment(c)
<1>3. /\ p.id = c /\ p.flags = {"ACK"} /\ p.http = "req"
      /\ p.seq = (isn + from) % SeqWord /\ p.dl = to - from
  BY DEF Segment
<1> HIDE DEF p, isn, from, to
<1>4. (isn + from) % SeqWord \in 0 .. SeqWord - 1
  BY <1>1, <1>2, Words
<1>5. to - from \in 0 .. LenWord - 1
  BY <1>2
<1>6. p.http # "none"
  BY <1>3
<1>7. seq_pkt(p) \in NodesOf(case.cuts, {{"ACK"}})
  BY <1>3, <1>4, <1>5, <1>6, SeqPktNode
<1>8. ASSUME isn + to < SeqWord
      PROVE  seq_pkt(p).seq = isn + from /\ seq_pkt(p).nxt = isn + to
             /\ seq_pkt(p).dl = to - from
  <2>1. (isn + from) % SeqWord = isn + from
    <3>1. isn + from \in 0 .. SeqWord - 1 /\ isn + from \in Int
      BY <1>1, <1>2, <1>8
    <3> HIDE DEF from
    <3> QED
      BY <3>1, Words
  <2>2. p.flags \cap {"SYN", "FIN"} = {}
    BY <1>3
  <2>3. (p.seq + p.dl + 0) % SeqWord = isn + to
    <3>1. p.seq + p.dl + 0 = isn + to
      BY <1>1, <1>2, <1>3, <2>1
    <3>2. isn + to \in 0 .. SeqWord - 1 /\ isn + to \in Int
      BY <1>1, <1>2, <1>8
    <3> QED
      BY <3>1, <3>2, Words
  <2> QED
    BY <1>3, <2>1, <2>2, <2>3 DEF seq_pkt
<1> QED
  BY <1>1, <1>2, <1>7, <1>8 DEF p, isn, from, to, NodeOf

\* A stream the list is made for has its list, and what else keeps it so.
Kept ==
  /\ Listed(order.list, arrived, case.isn)
  /\ case.delivery = "reordered" => Whole(order.list, arrived, case.isn)
  /\ case.delivery # "reordered" =>
       OneGap(arrived) /\ NoneInGap(order.list, arrived, case.isn)

IInv ==
  /\ TypeOK
  /\ HasEnd(arrived)
  /\ Plain => Kept

LEMMA InitHolds ==
  ASSUME Init
  PROVE  IInv
<1>1. case \in Cases /\ order = NewOrder /\ arrived = {}
  BY DEF Init
<1>2. order \in Orders(case.cuts, {{"ACK"}})
  <2>1. <<>> \in Seq(NodesOf(case.cuts, {{"ACK"}}))
    OBVIOUS
  <2> QED
    BY <1>1, <2>1 DEF NewOrder, Orders
<1>3. order.list = <<>> /\ Len(order.list) = 0
  BY <1>1 DEF NewOrder
<1>4. Listed(order.list, arrived, case.isn)
  <2>1. \A x : ~ InList(order.list, x) /\ ~ Has(arrived, x)
    BY <1>1, <1>3 DEF InList, Has
  <2>2. Monotone(order.list)
    BY <1>3 DEF Monotone
  <2>3. \A i \in 1 .. Len(order.list) : FALSE
    BY <1>3
  <2> QED
    BY <1>1, <1>3, <2>1, <2>2, <2>3 DEF Listed
<1>5. /\ Whole(order.list, arrived, case.isn)
      /\ NoneInGap(order.list, arrived, case.isn)
      /\ OneGap(arrived)
  BY <1>1, <1>3 DEF Whole, NoneInGap, OneGap, Has
<1> QED
  BY <1>1, <1>2, <1>4, <1>5 DEF IInv, Kept, TypeOK, HasEnd

\* What arrives in order or after one loss mends what has arrived.
LEMMA ExpectedMends ==
  ASSUME NEW c, Expected(c), case.delivery \in {"in_order", "repeated"}
  PROVE  Mends(arrived, c)
<1>1. High = HighOf(arrived) /\ Missing = MissingOf(arrived)
  BY DEF High, HighOf, Missing, MissingOf
<1>2. c[1] = High \/ Resent(c) \/ Missing = High
  BY DEF Expected
<1> QED
  BY <1>1, <1>2 DEF Resent, Mends

\* An arrival keeps the list of a stream it is made for.
LEMMA ArrivalKeeps ==
  ASSUME IInv, NEW c \in case.cuts, Arrive(c), Plain'
  PROVE  Kept'
<1> DEFINE n == seq_pkt(Segment(c))
           P == case.cuts
           F == {{"ACK"}}
           S == arrived
           isn == case.isn
<1>1. /\ Expected(c) /\ order' = tcp_order(order, n) /\ arrived' = S \cup {c}
      /\ case' = case
  BY DEF Arrive
<1>2. case \in Cases /\ order \in Orders(P, F) /\ S \subseteq P /\ HasEnd(S)
  BY DEF IInv, TypeOK
<1>3. IsCuts(S)
  BY <1>2, SegmentFacts DEF IsCuts
<1>4. /\ \A d \in S \cup {c} : 0 < isn + d[2] /\ isn + d[2] < SeqWord
      /\ \/ case.delivery \in {"in_order", "repeated"}
         \/ case.delivery = "reordered" /\ DisjointCuts(S \cup {c})
  BY <1>1 DEF Plain, NoWrap
<1>5. Plain
  BY <1>4 DEF Plain, NoWrap, DisjointCuts
<1>6. Kept
  BY <1>5 DEF IInv
<1>7. /\ c[1] \in Nat /\ c[2] \in Nat /\ c[1] <= c[2] /\ isn \in 0 .. SeqWord - 1
      /\ n \in NodesOf(P, F) /\ NodeOf(n, c, isn) /\ n.nxt > 0
  <2>1. isn + c[2] < SeqWord /\ 0 < isn + c[2]
    BY <1>4
  <2>2. /\ c[1] \in Nat /\ c[2] \in Nat /\ c[1] <= c[2] /\ isn \in 0 .. SeqWord - 1
        /\ n \in NodesOf(P, F) /\ NodeOf(n, c, isn)
    BY <1>2, <2>1, SegmentFacts
  <2>3. n.nxt = isn + c[2]
    BY <2>2 DEF NodeOf
  <2> HIDE DEF n
  <2> QED
    BY <2>1, <2>2, <2>3
<1>8. isn \in Nat
  BY <1>7, WordAssumption
<1>9. Listed(order.list, S, isn)
  BY <1>6 DEF Kept
<1> DEFINE o == order
           s == tcp_order(o, n).list
           T == S \cup {c}
<1> DEFINE Goal == /\ Listed(s, T, isn)
                   /\ case.delivery = "reordered" => Whole(s, T, isn)
                   /\ case.delivery # "reordered" => OneGap(T) /\ NoneInGap(s, T, isn)
<1> HIDE DEF n, P, F, S, isn, o
<1>10. o \in Orders(P, F) /\ Listed(o.list, S, isn)
  BY <1>2, <1>9 DEF o
<1>11. o.list \in Seq(NodesOf(P, F))
  BY <1>10 DEF Orders
<1>12. CASE S = {}
  <2>1. c[1] = 0 /\ c[2] > 0
    BY <1>1, <1>12 DEF Expected, S
  <2>2. o.list = <<>>
    BY <1>10, <1>12 DEF Listed
  <2>3. T = {c}
    BY <1>12
  <2>4. /\ Listed(s, {c}, isn) /\ Whole(s, {c}, isn) /\ NoneInGap(s, {c}, isn) /\ OneGap({c})
    BY <1>7, <1>8, <1>10, <2>1, <2>2, FirstListed
  <2>5. Goal
    BY <2>3, <2>4
  <2> QED
    BY <1>1, <2>5 DEF Kept, S, isn, o
<1>13. CASE S # {} /\ case.delivery = "reordered"
  <2>1. c \notin S /\ DisjointCuts(T)
    BY <1>1, <1>4, <1>13 DEF Expected, S
  <2>2. \A d \in S : c[2] <= d[1] \/ d[2] <= c[1]
    BY <2>1 DEF DisjointCuts
  <2>3. Whole(o.list, S, isn)
    BY <1>6, <1>13 DEF Kept, S, isn, o
  <2>4. Fits(o.list, n) /\ Apart(o.list, n)
    BY <1>3, <1>7, <1>8, <1>10, <1>11, <1>13, <2>2, <2>3, ApartFits
  <2>5. Listed(s, T, isn)
    BY <1>2, <1>3, <1>7, <1>8, <1>10, <2>4, ListedKept
  <2>6. Whole(s, T, isn)
    BY <1>7, <1>10, <2>3, <2>4, WholeKept
  <2>7. Goal
    BY <1>13, <2>5, <2>6
  <2> QED
    BY <1>1, <2>7 DEF Kept, S, isn, o
<1>14. CASE S # {} /\ case.delivery \in {"in_order", "repeated"}
  <2>1. case.delivery # "reordered"
    BY <1>14
  <2>2. Mends(S, c)
    BY <1>1, <1>14, ExpectedMends DEF S
  <2>3. OneGap(S) /\ NoneInGap(o.list, S, isn)
    BY <1>6, <2>1 DEF Kept, S, isn, o
  <2>4. Fits(o.list, n)
    BY <1>2, <1>3, <1>7, <1>8, <1>10, <1>11, <1>14, <2>2, <2>3, MendsFits
  <2>5. Listed(s, T, isn)
    BY <1>2, <1>3, <1>7, <1>8, <1>10, <2>4, ListedKept
  <2>6. NoneInGap(s, T, isn)
    BY <1>2, <1>3, <1>7, <1>8, <1>10, <2>2, <2>3, <2>4, NoneInGapKept
  <2>7. OneGap(T)
    BY <1>2, <1>3, <1>7, <2>2, <2>3, Mended
  <2>8. Goal
    BY <2>1, <2>5, <2>6, <2>7
  <2> QED
    BY <1>1, <2>8 DEF Kept, S, isn, o
<1> QED
  BY <1>4, <1>12, <1>13, <1>14

LEMMA NextKeeps ==
  ASSUME IInv, [Next]_vars
  PROVE  IInv'
<1>1. CASE UNCHANGED vars
  BY <1>1 DEF vars, IInv, TypeOK, Plain, NoWrap, Kept
<1>2. ASSUME NEW c \in case.cuts, Arrive(c)
      PROVE  IInv'
  <2>1. /\ order' = tcp_order(order, seq_pkt(Segment(c))) /\ arrived' = arrived \cup {c}
        /\ case' = case
    BY <1>2 DEF Arrive
  <2>2. case \in Cases /\ order \in Orders(case.cuts, {{"ACK"}}) /\ arrived \subseteq case.cuts
    BY DEF IInv, TypeOK
  <2>3. /\ c[1] \in Nat /\ c[2] \in Nat /\ c[1] <= c[2]
        /\ seq_pkt(Segment(c)) \in NodesOf(case.cuts, {{"ACK"}})
    BY <2>2, SegmentFacts
  <2>4. TypeOK'
    <3>1. order' \in Orders(case.cuts, {{"ACK"}})
      BY <2>1, <2>2, <2>3, Insertion
    <3> QED
      BY <2>1, <2>2, <3>1 DEF TypeOK
  <2>5. HasEnd(arrived')
    <3>1. IsCuts(arrived)
      BY <2>2, SegmentFacts DEF IsCuts
    <3>2. HasEnd(arrived)
      BY DEF IInv
    <3> QED
      BY <2>1, <2>3, <3>1, <3>2, HighGrown
  <2>6. Plain' => Kept'
    BY <1>2, ArrivalKeeps
  <2> QED
    BY <2>4, <2>5, <2>6 DEF IInv
<1> QED
  BY <1>1, <1>2 DEF Next

\* The invariant holds in every state.
LEMMA Invariance == Spec => []IInv
<1> QED
  BY InitHolds, NextKeeps, PTL DEF Spec

\* One direction's list has the types of the code's list whatever arrives, and last_src
\* is within it.
THEOREM TypeCorrect == Spec => []TypeOK
<1>1. IInv => TypeOK
  BY DEF IInv
<1> QED
  BY <1>1, Invariance, PTL

-----------------------------------------------------------------------------
(* What it says of the list. *)

\* The offsets that the nodes stand for are what is left when isn is taken away.
LEMMA NodeBytes ==
  ASSUME IInv, Plain, NEW i \in 1 .. Len(order.list)
  PROVE  LET n == order.list[i]
             isn == case.isn
         IN /\ isn \in Nat /\ n.seq \in Nat /\ n.nxt \in Nat
            /\ isn <= n.seq /\ n.seq <= n.nxt /\ n.nxt <= isn + HighOf(arrived)
            /\ n.dl = n.nxt - n.seq
            /\ Offset(n.seq) = n.seq - isn /\ Offset(n.nxt) = n.nxt - isn
            /\ Bytes(n) = n.seq - isn .. n.nxt - isn - 1
<1> DEFINE n == order.list[i]
           isn == case.isn
           P == case.cuts
           F == {{"ACK"}}
<1>1. order.list \in Seq(NodesOf(P, F)) /\ isn \in 0 .. SeqWord - 1
  BY StreamAssumption DEF IInv, TypeOK, Orders
<1> HIDE DEF P, F
<1>2. /\ n.seq \in Nat /\ n.seq < SeqWord /\ n.nxt \in Nat /\ n.nxt < SeqWord
  BY <1>1, NodeNumbers
<1>3. Listed(order.list, arrived, case.isn)
  BY DEF IInv, Kept
<1>4. /\ isn <= n.seq /\ n.seq <= n.nxt /\ n.nxt <= isn + HighOf(arrived)
      /\ n.dl = n.nxt - n.seq
  BY <1>3 DEF Listed, Monotone
<1>5. isn \in Nat /\ SeqWord \in Nat
  BY <1>1, WordAssumption
<1>6. ASSUME NEW x \in Nat, isn <= x, x < SeqWord PROVE Offset(x) = x - isn
  <2> HIDE DEF isn
  <2>1. x - isn \in 0 .. SeqWord - 1 /\ x - isn \in Int
    BY <1>5, <1>6
  <2>2. (x - isn) % SeqWord = x - isn
    BY <2>1, Words
  <2> QED
    BY <2>2 DEF Offset, isn
<1> HIDE DEF n, isn
<1>7. Offset(n.seq) = n.seq - isn /\ Offset(n.nxt) = n.nxt - isn
  <2>1. isn <= n.nxt
    BY <1>2, <1>4, <1>5
  <2> QED
    BY <1>2, <1>4, <1>6, <2>1
<1> QED
  BY <1>2, <1>4, <1>5, <1>7 DEF Bytes, n, isn

\* The list of a plain stream is in the order of the stream and no byte is in it twice.
THEOREM ListSorted == Spec => [](Plain => Sorted)
<1>1. ASSUME IInv, Plain PROVE Sorted
  <2> SUFFICES ASSUME NEW i \in 1 .. Len(order.list) - 1
               PROVE  Offset(order.list[i].nxt) <= Offset(order.list[i + 1].seq)
    BY DEF Sorted
  <2> DEFINE l == order.list
             j == i + 1
  <2>1. Len(l) \in Nat
    BY <1>1, LenProperties DEF IInv, TypeOK, Orders
  <2>2. i \in 1 .. Len(l) /\ j \in 1 .. Len(l) /\ i < j
    BY <2>1
  <2> HIDE DEF j
  <2>3. l[i].nxt <= l[j].seq
    BY <1>1, <2>2 DEF IInv, Kept, Listed, Monotone
  <2>4. /\ Offset(l[i].nxt) = l[i].nxt - case.isn /\ Offset(l[j].seq) = l[j].seq - case.isn
        /\ l[i].nxt \in Nat /\ l[j].seq \in Nat /\ case.isn \in Nat
    BY <1>1, <2>2, NodeBytes
  <2>5. Offset(l[i].nxt) <= Offset(l[j].seq)
    BY <2>3, <2>4
  <2> QED
    BY <2>5 DEF j
<1>2. IInv => (Plain => Sorted)
  BY <1>1
<1> QED
  BY <1>2, Invariance, PTL

\* Nothing of a plain stream that arrived is lost and nothing is invented.
THEOREM ListComplete == Spec => [](Plain => Complete)
<1>1. ASSUME IInv, Plain PROVE Complete
  <2> DEFINE l == order.list
             isn == case.isn
  <2>1. l \in Seq(NodesOf(case.cuts, {{"ACK"}})) /\ DOMAIN l = 1 .. Len(l)
    BY <1>1, LenProperties DEF IInv, TypeOK, Orders
  <2>2. isn \in Nat
    BY <1>1, StreamAssumption DEF IInv, TypeOK
  <2>3. \A x \in Nat : InList(l, isn + x) <=> Has(arrived, x)
    BY <1>1 DEF IInv, Kept, Listed
  <2>4. IsCuts(arrived)
    BY <1>1, SegmentFacts DEF IInv, TypeOK, IsCuts
  <2>5. \A i \in 1 .. Len(l) :
          /\ l[i].seq \in Nat /\ l[i].nxt \in Nat /\ isn <= l[i].seq
          /\ Bytes(l[i]) = l[i].seq - isn .. l[i].nxt - isn - 1
    BY <1>1, NodeBytes
  <2> HIDE DEF l, isn
  <2>6. ASSUME NEW i \in 1 .. Len(l), NEW x \in Bytes(l[i])
        PROVE  \E c \in arrived : x \in c[1] .. c[2] - 1
    <3>1. x \in Nat /\ l[i].seq <= isn + x /\ isn + x < l[i].nxt
      <4> DEFINE s == l[i].seq
                 e == l[i].nxt
      <4>1. s \in Nat /\ e \in Nat /\ isn <= s /\ x \in s - isn .. e - isn - 1
        BY <2>5, <2>6
      <4> HIDE DEF s, e
      <4>2. x \in Nat /\ s <= isn + x /\ isn + x < e
        BY <2>2, <4>1
      <4> QED
        BY <4>2 DEF s, e
    <3>2. PICK c \in arrived : c[1] <= x /\ x < c[2]
      BY <2>3, <3>1 DEF InList, Has
    <3>3. x \in c[1] .. c[2] - 1
      BY <2>4, <3>1, <3>2 DEF IsCuts
    <3> QED
      BY <3>3
  <2>7. ASSUME NEW c \in arrived, NEW x \in c[1] .. c[2] - 1
        PROVE  \E i \in 1 .. Len(l) : x \in Bytes(l[i])
    <3>1. x \in Nat /\ c[1] <= x /\ x < c[2]
      BY <2>4, <2>7 DEF IsCuts
    <3>2. PICK i \in 1 .. Len(l) : l[i].seq <= isn + x /\ isn + x < l[i].nxt
      BY <2>3, <3>1 DEF InList, Has
    <3>3. x \in Bytes(l[i])
      <4> DEFINE s == l[i].seq
                 e == l[i].nxt
      <4>1. s \in Nat /\ e \in Nat /\ isn <= s /\ s <= isn + x /\ isn + x < e
        BY <2>5, <3>2
      <4> HIDE DEF s, e
      <4>2. x \in s - isn .. e - isn - 1
        BY <2>2, <3>1, <4>1
      <4> QED
        BY <2>5, <4>2 DEF s, e
    <3> QED
      BY <3>3
  <2> DEFINE A == UNION {Bytes(l[i]) : i \in DOMAIN l}
             B == UNION {c[1] .. c[2] - 1 : c \in arrived}
  <2>8. A \subseteq B
    BY <2>1, <2>6
  <2>9. B \subseteq A
    BY <2>1, <2>7
  <2>10. A = B
    <3> HIDE DEF A, B
    <3> QED
      BY <2>8, <2>9
  <2> QED
    BY <2>10 DEF Complete, l
<1>2. IInv => (Plain => Complete)
  BY <1>1
<1> QED
  BY <1>2, Invariance, PTL

\* The length of each node of a plain stream is what is left to it of the stream.
THEOREM ListLengthsFit == Spec => [](Plain => LengthsFit)
<1>1. ASSUME IInv, Plain PROVE LengthsFit
  <2> DEFINE l == order.list
             isn == case.isn
  <2>1. DOMAIN l = 1 .. Len(l)
    BY <1>1, LenProperties DEF IInv, TypeOK, Orders
  <2> SUFFICES ASSUME NEW i \in 1 .. Len(l)
               PROVE  l[i].dl = Cardinality(Bytes(l[i]))
    BY <2>1 DEF LengthsFit
  <2> DEFINE s == l[i].seq
             e == l[i].nxt
             a == s - isn
             b == e - isn - 1
  <2>2. /\ isn \in Nat /\ s \in Nat /\ e \in Nat /\ isn <= s /\ s <= e
        /\ l[i].dl = e - s /\ Bytes(l[i]) = s - isn .. e - isn - 1
    BY <1>1, NodeBytes
  <2> HIDE DEF s, e, isn
  <2>3. a \in Int /\ b \in Int
    BY <2>2
  <2>4. (IF a > b THEN 0 ELSE b - a + 1) = e - s
    BY <2>2
  <2>5. Bytes(l[i]) = a .. b
    BY <2>2
  <2> HIDE DEF a, b
  <2>6. Cardinality(a .. b) = IF a > b THEN 0 ELSE b - a + 1
    BY <2>3, FS_Interval
  <2> QED
    BY <2>2, <2>4, <2>5, <2>6
<1>2. IInv => (Plain => LengthsFit)
  BY <1>1
<1> QED
  BY <1>2, Invariance, PTL

\* tcp_order_check says of a plain stream whether it has a gap.
THEOREM ListCheckAgrees == Spec => [](Plain => CheckAgrees)
<1>1. ASSUME IInv, Plain PROVE CheckAgrees
  <2> DEFINE l == order.list
             isn == case.isn
             h == HighOf(arrived)
  <2>1. l \in Seq(NodesOf(case.cuts, {{"ACK"}})) /\ Len(l) \in Nat
    BY <1>1, LenProperties DEF IInv, TypeOK, Orders
  <2>2. isn \in Nat
    BY <1>1, StreamAssumption DEF IInv, TypeOK
  <2>3. /\ \A x \in Nat : InList(l, isn + x) <=> Has(arrived, x)
        /\ arrived = {} <=> l = <<>>
        /\ Monotone(l)
        /\ l # <<>> => l[1].seq = isn /\ \E i \in 1 .. Len(l) : l[i].nxt = isn + h
    BY <1>1 DEF IInv, Kept, Listed
  <2>4. h \in Nat /\ (arrived = {} => h = 0) /\ h = High
    <3>1. IsCuts(arrived) /\ HasEnd(arrived)
      BY <1>1, SegmentFacts DEF IInv, TypeOK, IsCuts
    <3> QED
      BY <3>1, HighFacts DEF High, HighOf
  <2>5. \A i \in 1 .. Len(l) :
          /\ l[i].seq \in Nat /\ l[i].nxt \in Nat /\ isn <= l[i].seq
          /\ l[i].seq <= l[i].nxt /\ l[i].nxt <= isn + h
    BY <1>1, NodeBytes
  <2> HIDE DEF l, isn, h
  <2>6. ASSUME \A x \in 0 .. h - 1 : Has(arrived, x), NEW i \in 1 .. Len(l) - 1, ~ Joined(l, i)
        PROVE  FALSE
    <3> DEFINE j == i + 1
               y == l[i].nxt - isn
    <3>1. l[i].nxt < l[j].seq /\ ~ InList(l, l[i].nxt)
      BY <2>1, <2>3, <2>6, GapIsOpen
    <3>2. i \in 1 .. Len(l) /\ j \in 1 .. Len(l)
      BY <2>1
    <3> HIDE DEF j
    <3>3. y \in 0 .. h - 1 /\ y \in Nat /\ isn + y = l[i].nxt
      <4> DEFINE a == l[i].seq
                 b == l[i].nxt
                 d == l[j].seq
                 e == l[j].nxt
      <4>1. /\ a \in Nat /\ b \in Nat /\ d \in Nat /\ e \in Nat
            /\ isn <= a /\ a <= b /\ b < d /\ d <= e /\ e <= isn + h
        BY <2>5, <3>1, <3>2
      <4>2. y = b - isn
        OBVIOUS
      <4> HIDE DEF y, a, b, d, e
      <4>3. y \in 0 .. h - 1 /\ y \in Nat /\ isn + y = b
        BY <2>2, <2>4, <4>1, <4>2
      <4> QED
        BY <4>3 DEF b
    <3> HIDE DEF y
    <3>4. Has(arrived, y)
      BY <2>6, <3>3
    <3> QED
      BY <2>3, <3>1, <3>3, <3>4
  <2>7. ASSUME \A i \in 1 .. Len(l) - 1 : Joined(l, i), NEW x \in 0 .. h - 1
        PROVE  Has(arrived, x)
    <3>1. l # <<>> /\ x \in Nat /\ x < h
      BY <2>3, <2>4
    <3>2. PICK i \in 1 .. Len(l) : l[i].nxt = isn + h
      BY <2>3, <3>1
    <3>3. 1 \in 1 .. Len(l) /\ i \in 1 .. i /\ i \in Nat /\ i <= Len(l)
      BY <2>1
    <3>4. Stretch(l, 1, i)
      BY <2>1, <2>7, <3>3 DEF Stretch
    <3>8. l[1].seq = isn
      BY <2>3, <3>1
    <3>9. isn <= isn + x
      BY <2>2, <3>1
    <3>5. l[1].seq <= isn + x
      BY <3>8, <3>9
    <3>6. isn + x < l[i].nxt /\ isn + x \in Nat
      BY <2>2, <2>4, <3>1, <3>2
    <3>7. InList(l, isn + x)
      <4> DEFINE w == isn + x
      <4>1. w \in Nat /\ l[1].seq <= w /\ w < l[i].nxt
        BY <3>5, <3>6
      <4>2. i \in 1 .. Len(l)
        BY <3>2
      <4> HIDE DEF w
      <4>3. InList(l, w)
        BY <2>1, <2>3, <3>3, <3>4, <4>1, <4>2, StretchCovers
      <4> QED
        BY <4>3 DEF w
    <3> QED
      BY <2>3, <3>1, <3>7
  <2>8. tcp_order_check(l) <=> \A i \in 1 .. Len(l) - 1 : Joined(l, i)
    BY DEF tcp_order_check
  <2>9. (\A x \in 0 .. h - 1 : Has(arrived, x)) <=> tcp_order_check(l)
    BY <2>6, <2>7, <2>8
  <2> QED
    BY <2>4, <2>9 DEF CheckAgrees, Has, l
<1>2. IInv => (Plain => CheckAgrees)
  BY <1>1
<1> QED
  BY <1>2, Invariance, PTL

\* Every segment of the sender has at least one byte.
Nonempty == \A c \in case.cuts : c[1] < c[2]

\* While the stream has not wrapped, a segment with data that is sent again, from
\* before the gap or where there is none, changes nothing.
THEOREM Dropped == Spec /\ []Nonempty => RetransmissionDropped
<1>1. ASSUME IInv, Nonempty, NEW c \in case.cuts, Arrive(c), case.delivery = "repeated",
             case.isn + High < SeqWord, arrived' = arrived
      PROVE  order' = order
  <2> DEFINE n == seq_pkt(Segment(c))
             P == case.cuts
             F == {{"ACK"}}
             S == arrived
             isn == case.isn
             h == HighOf(S)
             m == MissingOf(S)
             l == order.list
  <2>1. Expected(c) /\ order' = tcp_order(order, n) /\ c \in S
    BY <1>1 DEF Arrive
  <2>2. case \in Cases /\ order \in Orders(P, F) /\ S \subseteq P /\ HasEnd(S)
    BY <1>1 DEF IInv, TypeOK
  <2>3. IsCuts(S) /\ isn \in 0 .. SeqWord - 1
    BY <2>1, <2>2, SegmentFacts DEF IsCuts
  <2>4. /\ h \in Nat /\ (\A d \in S : d[2] <= h) /\ m \in Nat /\ m <= h
    BY <2>2, <2>3, HighFacts, MissingFacts
  <2>5. isn + h < SeqWord /\ isn \in Nat /\ SeqWord \in Nat
    BY <1>1, <2>3, WordAssumption DEF High, HighOf
  <2>6. \A d \in S : d[1] \in Nat /\ d[2] \in Nat /\ d[1] < d[2]
    BY <1>1, <2>2, <2>3 DEF Nonempty, IsCuts
  <2> HIDE DEF h, m
  <2>7. Plain
    <3>1. NoWrap
      <4> HIDE DEF S, isn
      <4>1. \A d \in S : 0 < isn + d[2] /\ isn + d[2] < SeqWord
        BY <2>4, <2>5, <2>6
      <4> QED
        BY <4>1 DEF NoWrap, S, isn
    <3> QED
      BY <1>1, <3>1 DEF Plain
  <2>8. Kept
    BY <1>1, <2>7 DEF IInv
  <2>9. Listed(l, S, isn) /\ OneGap(S) /\ NoneInGap(l, S, isn)
    BY <1>1, <2>8 DEF Kept
  <2>10. /\ c[1] \in Nat /\ c[2] \in Nat /\ c[1] < c[2] /\ c[1] <= c[2]
         /\ c[2] <= h /\ isn + c[2] < SeqWord
    BY <2>1, <2>4, <2>5, <2>6
  <2>11. n \in NodesOf(P, F) /\ NodeOf(n, c, isn)
    BY <2>2, <2>10, SegmentFacts
  <2>12. Mends(S, c)
    BY <1>1, <2>1, ExpectedMends
  <2> HIDE DEF n, P, F, S, isn
  <2>13. n.seq = isn + c[1] /\ n.nxt = isn + c[2]
    BY <2>11 DEF NodeOf
  <2>14. n.nxt > 0 /\ n.seq < n.nxt
    BY <2>5, <2>10, <2>13
  <2>15. l \in Seq(NodesOf(P, F)) /\ Len(l) \in Nat
    BY <2>2, LenProperties DEF Orders
  <2> HIDE DEF l
  <2>16. Fits(l, n)
    <3>1. S # {}
      BY <2>1
    <3> QED
      BY <2>2, <2>3, <2>5, <2>9, <2>10, <2>11, <2>12, <2>14, <2>15, <3>1, MendsFits
  <2>17. ASSUME NEW x \in Nat, n.seq <= x, x < n.nxt PROVE InList(l, x)
    <3> DEFINE w == x - isn
    <3>1. w \in Nat /\ isn + w = x /\ c[1] <= w /\ w < c[2]
      BY <2>5, <2>10, <2>13, <2>17
    <3> HIDE DEF w
    <3>2. Has(S, w)
      BY <2>1, <3>1 DEF Has
    <3>3. InList(l, isn + w)
      BY <2>9, <3>1, <3>2 DEF Listed
    <3> QED
      BY <3>1, <3>3
  <2>18. ASSUME NEW i \in 1 .. Len(l) - 1, ~ Joined(l, i) PROVE n.seq <= l[i].nxt
    <3> DEFINE j == i + 1
    <3>1. j \in 2 .. Len(l) /\ j - 1 = i /\ i \in 1 .. Len(l)
      BY <2>15
    <3> HIDE DEF j
    <3> DEFINE y == l[j - 1].nxt - isn
               z == l[j].seq - isn
    <3>2. y \in Nat /\ z \in Nat /\ m <= y /\ y < z /\ z <= h
      BY <2>2, <2>3, <2>5, <2>9, <2>15, <2>18, <3>1, GapInList DEF h, m
    <3>3. y = l[i].nxt - isn
      BY <3>1
    <3> HIDE DEF y, z
    <3>4. c[1] <= m
      <4>1. c[1] = h \/ c[1] <= m \/ m = h
        BY <2>12 DEF Mends, h, m
      <4> QED
        BY <2>4, <2>10, <3>2, <4>1
    <3>5. l[i].nxt \in Nat
      BY <2>15, <3>1, NodeNumbers
    <3> DEFINE e == l[i].nxt
    <3>6. e \in Nat /\ y = e - isn
      BY <3>3, <3>5
    <3> HIDE DEF e
    <3>7. n.seq <= e
      BY <2>4, <2>5, <2>10, <2>13, <3>2, <3>4, <3>6
    <3> QED
      BY <3>7 DEF e
  <2>19. order \in Orders(P, F) /\ n \in NodesOf(P, F)
    BY <2>2, <2>11
  <2>20. tcp_order(order, n) = order
    BY <2>14, <2>16, <2>17, <2>18, <2>19, KnownDropped DEF l
  <2> QED
    BY <2>1, <2>20
<1> DEFINE Drops == case.delivery = "repeated" /\ case.isn + High < SeqWord
                      /\ arrived' = arrived => order' = order
<1>2. IInv /\ Nonempty /\ [Next]_vars => [Drops]_vars
  BY <1>1 DEF Next, vars
<1> HIDE DEF IInv, Nonempty, Drops
<1>3. Spec /\ []Nonempty => [][Drops]_vars
  BY <1>2, Invariance, PTL DEF Spec
<1> QED
  BY <1>3 DEF RetransmissionDropped, Drops

=============================================================================
