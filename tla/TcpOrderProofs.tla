---------------------------- MODULE TcpOrderProofs ----------------------------
(***************************************************************************)
(* What tcp_order does to any list: it puts the segment between two nodes  *)
(* or leaves it out, and it keeps an ordered list in order unless the      *)
(* segment begins inside a node behind a gap.  What the list covers        *)
(* afterwards is what it covered and the bytes of the segment.             *)
(***************************************************************************)
EXTENDS TcpOrder, SequenceTheorems, WellFoundedInduction, TLAPS

\* s is l with m put behind its first k nodes.
InsertedAt(l, s, k, m) ==
  /\ Len(s) = Len(l) + 1
  /\ \A i \in 1 .. Len(s) : s[i] = IF i <= k THEN l[i] ELSE IF i = k + 1 THEN m ELSE l[i - 1]

\* The nodes follow each other and do not overlap.
Monotone(l) ==
  /\ \A i \in 1 .. Len(l) : l[i].seq <= l[i].nxt
  /\ \A i, j \in 1 .. Len(l) : i < j => l[i].nxt <= l[j].seq

-----------------------------------------------------------------------------
\* Numbers stay numbers of the word, and those that fit stay what they are.
LEMMA Words ==
  ASSUME NEW x \in Int
  PROVE  /\ x % SeqWord \in 0 .. SeqWord - 1
         /\ x % LenWord \in 0 .. LenWord - 1
         /\ x \in 0 .. SeqWord - 1 => x % SeqWord = x
         /\ x = -1 => x % SeqWord = SeqWord - 1
BY WordAssumption

\* tcp_cont_seq stops at the first node that ends before the next begins.
LEMMA ContinuousSegment ==
  ASSUME NEW S, NEW l \in Seq(S), NEW i \in 1 .. Len(l)
  PROVE  LET c == tcp_cont_seq(l, i) IN
         /\ c \in i .. Len(l) /\ c \in 1 .. Len(l)
         /\ \A k \in i .. c - 1 : Joined(l, k)
         /\ c < Len(l) => ~ Joined(l, c)
<1> DEFINE Stops(j) == j = Len(l) \/ ~ Joined(l, j)
<1> DEFINE T == {j \in i .. Len(l) : Stops(j)}
<1> DEFINE Answer(j) == /\ \A k \in i .. j - 1 : Joined(l, k)
                        /\ j < Len(l) => ~ Joined(l, j)
<1>1. Len(l) \in Nat /\ i \in Nat /\ i <= Len(l)
  BY LenProperties
<1>2. T \subseteq Nat /\ T # {} /\ T \subseteq i .. Len(l)
  <2>1. Len(l) \in T
    BY <1>1
  <2>2. T \subseteq i .. Len(l)
    OBVIOUS
  <2> HIDE DEF T
  <2> QED
    BY <1>1, <2>1, <2>2
<1>3. ASSUME NEW k \in i .. Len(l), k \notin T PROVE k < Len(l) /\ Joined(l, k)
  BY <1>1, <1>3
<1>4. ASSUME NEW k \in T PROVE k < Len(l) => ~ Joined(l, k)
  BY <1>1, <1>4
<1> HIDE DEF T
<1>5. PICK x \in T : \A y \in T : x <= y
  <2>1. PICK x \in T : \A y \in T : ~ (<<y, x>> \in OpToRel(<, Nat))
    BY <1>2, WFMin, NatLessThanWellFounded
  <2>2. ASSUME NEW y \in T PROVE x <= y
    <3>1. x \in Nat /\ y \in Nat
      BY <1>2
    <3>2. y < x => <<y, x>> \in OpToRel(<, Nat)
      BY <3>1 DEF OpToRel
    <3>3. ~ (y < x)
      BY <2>1, <3>2
    <3> QED
      BY <3>1, <3>3
  <2> QED
    BY <2>2
<1>6. x \in i .. Len(l) /\ x \in Nat
  BY <1>2
<1>7. Answer(x)
  <2>1. ASSUME NEW k \in i .. x - 1 PROVE Joined(l, k)
    <3>1. k \in i .. Len(l) /\ k < x
      BY <1>1, <1>6
    <3>2. k \notin T
      BY <1>1, <1>5, <1>6, <3>1
    <3> QED
      BY <1>3, <3>1, <3>2
  <2> QED
    BY <1>4, <2>1
<1>8. tcp_cont_seq(l, i) = CHOOSE j \in i .. Len(l) : Answer(j)
  BY DEF tcp_cont_seq
<1> HIDE DEF Answer
<1>9. tcp_cont_seq(l, i) \in i .. Len(l) /\ Answer(tcp_cont_seq(l, i))
  BY <1>6, <1>7, <1>8
<1>10. tcp_cont_seq(l, i) \in 1 .. Len(l)
  BY <1>1, <1>9
<1> QED
  BY <1>9, <1>10 DEF Answer

\* new_seq between node c and the node behind it.
LEMMA PutBehind ==
  ASSUME NEW S, NEW l \in Seq(S), NEW c \in 1 .. Len(l), NEW m \in S
  PROVE  Behind(l, c, m) \in Seq(S) /\ InsertedAt(l, Behind(l, c, m), c, m)
<1> DEFINE n == Len(l)
<1> DEFINE a == SubSeq(l, 1, c)
<1> DEFINE b == SubSeq(l, c + 1, n)
<1>1. n \in Nat /\ c \in Nat /\ 1 <= c /\ c <= n
  BY LenProperties
<1>2. /\ a \in Seq(S) /\ Len(a) = c
      /\ \A i \in 1 .. c : a[i] = l[i]
  BY <1>1, SubSeqProperties
<1>3. /\ b \in Seq(S) /\ Len(b) = n - c
      /\ \A i \in 1 .. n - c : b[i] = l[c + i]
  <2>1. \A i \in c + 1 .. n : l[i] \in S
    BY <1>1, ElementOfSeq
  <2>2. /\ b \in Seq(S) /\ Len(b) = IF c + 1 <= n THEN n - (c + 1) + 1 ELSE 0
        /\ \A i \in 1 .. n - (c + 1) + 1 : b[i] = l[(c + 1) + i - 1]
    BY <1>1, <2>1, SubSeqProperties
  <2>3. c + 1 <= n => n - (c + 1) + 1 = n - c
    BY <1>1
  <2>5. c + 1 <= n \/ (c = n /\ ~ (c + 1 <= n) /\ n - c = 0)
    <3>1. CASE c < n
      BY <1>1, <3>1
    <3>2. CASE c = n
      BY <1>1, <3>2
    <3> QED
      BY <1>1, <3>1, <3>2
  <2>4. \A i \in 1 .. n - c : (c + 1) + i - 1 = c + i
    BY <1>1
  <2> HIDE DEF b
  <2> QED
    BY <2>2, <2>3, <2>4, <2>5
<1> HIDE DEF a, b
<1>4. /\ <<m>> \in Seq(S) /\ Len(<<m>>) = 1 /\ <<m>>[1] = m
  OBVIOUS
<1> DEFINE am == a \o <<m>>
<1>5. /\ am \in Seq(S) /\ Len(am) = c + 1
      /\ \A i \in 1 .. c + 1 : am[i] = IF i <= c THEN l[i] ELSE m
  <2>1. /\ am \in Seq(S) /\ Len(am) = Len(a) + 1
        /\ \A i \in 1 .. Len(a) + 1 : am[i] = IF i <= Len(a) THEN a[i] ELSE <<m>>[i - Len(a)]
    BY <1>2, <1>4, ConcatProperties
  <2>2. \A i \in 1 .. c + 1 : am[i] = IF i <= c THEN l[i] ELSE m
    <3> TAKE i \in 1 .. c + 1
    <3>1. am[i] = IF i <= c THEN a[i] ELSE <<m>>[i - c]
      BY <1>2, <2>1
    <3>2. i <= c => i \in 1 .. c
      BY <1>1
    <3>3. ~ (i <= c) => i - c = 1
      BY <1>1
    <3> QED
      BY <1>2, <1>4, <3>1, <3>2, <3>3
  <2> QED
    BY <1>2, <2>1, <2>2
<1> HIDE DEF am
<1>6. /\ Behind(l, c, m) = am \o b
      /\ am \o b \in Seq(S) /\ Len(am \o b) = n + 1
      /\ \A i \in 1 .. n + 1 : (am \o b)[i] = IF i <= c + 1 THEN am[i] ELSE b[i - (c + 1)]
  <2>1. Behind(l, c, m) = am \o b
    BY DEF Behind, a, b, am
  <2>2. /\ am \o b \in Seq(S) /\ Len(am \o b) = Len(am) + Len(b)
        /\ \A i \in 1 .. Len(am) + Len(b) :
             (am \o b)[i] = IF i <= Len(am) THEN am[i] ELSE b[i - Len(am)]
    BY <1>3, <1>5, ConcatProperties
  <2>3. (c + 1) + (n - c) = n + 1
    BY <1>1
  <2> QED
    BY <1>3, <1>5, <2>1, <2>2, <2>3
<1>7. ASSUME NEW i \in 1 .. n + 1
      PROVE  Behind(l, c, m)[i] = IF i <= c THEN l[i] ELSE IF i = c + 1 THEN m ELSE l[i - 1]
  <2>1. CASE i <= c
    BY <1>1, <1>5, <1>6, <2>1
  <2>2. CASE i = c + 1
    BY <1>1, <1>5, <1>6, <2>2
  <2>3. CASE i > c + 1
    <3>1. i - (c + 1) \in 1 .. n - c /\ c + (i - (c + 1)) = i - 1
      BY <1>1, <2>3
    <3>2. b[i - (c + 1)] = l[i - 1]
      BY <1>3, <3>1
    <3> QED
      BY <1>1, <1>6, <2>3, <3>2
  <2> QED
    BY <1>1, <2>1, <2>2, <2>3
<1> QED
  BY <1>6, <1>7 DEF InsertedAt

\* new_seq at the end of the list.
LEMMA PutLast ==
  ASSUME NEW S, NEW l \in Seq(S), NEW m \in S
  PROVE  Append(l, m) \in Seq(S) /\ InsertedAt(l, Append(l, m), Len(l), m)
<1> DEFINE n == Len(l)
<1>1. n \in Nat
  BY LenProperties
<1>2. /\ Append(l, m) \in Seq(S) /\ Len(Append(l, m)) = n + 1
      /\ \A i \in 1 .. n : Append(l, m)[i] = l[i]
      /\ Append(l, m)[n + 1] = m
  BY AppendProperties
<1> QED
  BY <1>1, <1>2 DEF InsertedAt

\* What reaches into the follower is cut off, and nothing else.
LEMMA ClippedNode ==
  ASSUME NEW P, NEW F, NEW m \in NodesOf(P, F), NEW aft \in NodesOf(P, F)
  PROVE  LET d == Clip(m, aft) IN
         /\ d \in NodesOf(P, F)
         /\ d.pkt = m.pkt /\ d.flags = m.flags /\ d.seq = m.seq
         /\ d.nxt = IF m.nxt <= aft.seq THEN m.nxt ELSE aft.seq
         /\ d.dl = IF m.nxt <= aft.seq THEN m.dl ELSE (m.dl - (m.nxt - aft.seq)) % LenWord
<1>1. /\ m.nxt \in Nat /\ aft.seq \in 0 .. SeqWord - 1 /\ aft.seq \in Nat
      /\ m.dl \in Int
  BY WordAssumption DEF NodesOf
<1>2. (m.dl - (m.nxt - aft.seq)) % LenWord \in 0 .. LenWord - 1
  BY <1>1, Words
<1>3. CASE m.nxt <= aft.seq
  BY <1>3 DEF Clip
<1>4. CASE ~ (m.nxt <= aft.seq)
  <2>1. Clip(m, aft) = [m EXCEPT !.dl = (m.dl - (m.nxt - aft.seq)) % LenWord,
                                 !.nxt = aft.seq]
    BY <1>4 DEF Clip, NodesOf
  <2> QED
    BY <1>1, <1>2, <1>4, <2>1 DEF NodesOf
<1> QED
  BY <1>3, <1>4

\* A list that has grown by one node.
LEMMA GrownList ==
  ASSUME NEW P, NEW F, NEW o \in Orders(P, F), NEW q,
         NEW s \in Seq(NodesOf(P, F)), NEW k, NEW m, InsertedAt(o.list, s, k, m),
         o.list # <<>>, NEW e \in Nat, NEW num \in Nat,
         e = o.last \/ e \in 1 .. Len(s),
         q = [list |-> s, last |-> e, num |-> num]
  PROVE  q \in Orders(P, F)
<1>1. Len(o.list) \in Nat /\ Len(s) = Len(o.list) + 1 /\ o.last \in 1 .. Len(o.list)
  BY LenProperties DEF Orders, InsertedAt
<1>2. e \in 1 .. Len(s)
  BY <1>1
<1> QED
  BY <1>2 DEF Orders

\* The position of a segment whose place is behind node c: it is dropped when it
\* ends in the stretch it begins in, and what lies behind that is put in.
LEMMA Placed ==
  ASSUME NEW P, NEW F, NEW o \in Orders(P, F), NEW n \in NodesOf(P, F),
         o.list # <<>>, NEW fr \in Nat, NEW c \in 1 .. Len(o.list)
  PROVE  LET q   == Place(o, n, fr, c)
             l   == o.list
             bk  == (l[c].nxt - 1) % SeqWord
             end == (n.nxt - 1) % SeqWord
             in  == fr <= n.seq /\ n.seq <= bk
             dl  == IF in THEN (end - bk) % LenWord ELSE n.dl
         IN /\ q \in Orders(P, F)
            /\ \/ q = o /\ in /\ end <= bk
               \/ \E m \in NodesOf(P, F) :
                    /\ InsertedAt(l, q.list, c, m)
                    /\ m.pkt = n.pkt /\ m.flags = n.flags
                    /\ in => end > bk /\ m.seq = (bk + 1) % SeqWord
                    /\ ~ in => m.seq = n.seq
                    /\ m.nxt = IF c < Len(l) /\ n.nxt > l[c + 1].seq
                                 THEN l[c + 1].seq ELSE n.nxt
                    /\ m.dl = IF c < Len(l) /\ n.nxt > l[c + 1].seq
                                THEN (dl - (n.nxt - l[c + 1].seq)) % LenWord ELSE dl
<1> DEFINE l == o.list
<1> DEFINE bk == (l[c].nxt - 1) % SeqWord
<1> DEFINE end == (n.nxt - 1) % SeqWord
<1> DEFINE in == fr <= n.seq /\ n.seq <= bk
<1> DEFINE dl == IF in THEN (end - bk) % LenWord ELSE n.dl
<1> DEFINE rest == [n EXCEPT !.seq = (bk + 1) % SeqWord, !.dl = (end - bk) % LenWord]
<1> DEFINE q == Place(o, n, fr, c)
<1>1. /\ l \in Seq(NodesOf(P, F)) /\ Len(l) \in Nat /\ o.last \in Nat /\ o.num \in Nat
      /\ o = [list |-> l, last |-> o.last, num |-> o.num]
  BY LenProperties DEF Orders
<1>2. l[c] \in NodesOf(P, F) /\ (c < Len(l) => l[c + 1] \in NodesOf(P, F))
  <2>1. c < Len(l) => c + 1 \in 1 .. Len(l)
    BY <1>1
  <2> QED
    BY <1>1, <2>1, ElementOfSeq
<1>3. bk \in 0 .. SeqWord - 1 /\ bk \in Nat /\ end \in Nat
  <2>1. l[c].nxt - 1 \in Int /\ n.nxt - 1 \in Int
    BY <1>2 DEF NodesOf
  <2>2. bk \in 0 .. SeqWord - 1 /\ end \in 0 .. SeqWord - 1
    BY <2>1, Words
  <2> HIDE DEF bk, end
  <2> QED
    BY <2>2
<1>4. /\ rest \in NodesOf(P, F) /\ rest.seq = (bk + 1) % SeqWord
      /\ rest.nxt = n.nxt /\ rest.pkt = n.pkt /\ rest.flags = n.flags
      /\ rest.dl = (end - bk) % LenWord
  <2> HIDE DEF bk, end
  <2>1. bk + 1 \in Int /\ end - bk \in Int
    BY <1>3
  <2>2. (bk + 1) % SeqWord \in 0 .. SeqWord - 1 /\ (end - bk) % LenWord \in 0 .. LenWord - 1
    BY <2>1, Words
  <2> QED
    BY <2>2 DEF NodesOf
<1> HIDE DEF bk, end, rest
<1>5. ASSUME NEW m \in NodesOf(P, F)
      PROVE  /\ c < Len(l) => /\ Linked(o, c, m) \in Orders(P, F)
                              /\ InsertedAt(l, Linked(o, c, m).list, c, Clip(m, l[c + 1]))
             /\ [o EXCEPT !.list = Behind(o.list, c, m)] \in Orders(P, F)
             /\ [list |-> Behind(o.list, c, m), last |-> c + 1, num |-> o.num] \in Orders(P, F)
             /\ InsertedAt(l, Behind(o.list, c, m), c, m)
  <2>1. Behind(l, c, m) \in Seq(NodesOf(P, F)) /\ InsertedAt(l, Behind(l, c, m), c, m)
    BY <1>1, PutBehind
  <2>2. c + 1 \in 1 .. Len(l) + 1 /\ c + 1 \in Nat /\ o.num + 1 \in Nat
    BY <1>1
  <2>3. c + 1 \in 1 .. Len(Behind(l, c, m))
    BY <2>1, <2>2 DEF InsertedAt
  <2>4. [o EXCEPT !.list = Behind(o.list, c, m)] \in Orders(P, F)
    <3>1. [o EXCEPT !.list = Behind(o.list, c, m)]
            = [list |-> Behind(l, c, m), last |-> o.last, num |-> o.num]
      BY <1>1
    <3> QED
      BY <1>1, <2>1, <3>1, GrownList
  <2>5. [list |-> Behind(o.list, c, m), last |-> c + 1, num |-> o.num] \in Orders(P, F)
    BY <1>1, <2>1, <2>2, <2>3, GrownList
  <2>6. ASSUME c < Len(l)
        PROVE  /\ Linked(o, c, m) \in Orders(P, F)
               /\ InsertedAt(l, Linked(o, c, m).list, c, Clip(m, l[c + 1]))
    <3> DEFINE d == Clip(m, l[c + 1])
    <3>1. d \in NodesOf(P, F)
      BY <1>2, <2>6, ClippedNode
    <3>2. Behind(l, c, d) \in Seq(NodesOf(P, F)) /\ InsertedAt(l, Behind(l, c, d), c, d)
      BY <1>1, <3>1, PutBehind
    <3>3. c + 1 \in 1 .. Len(Behind(l, c, d))
      BY <2>2, <3>2 DEF InsertedAt
    <3>4. Linked(o, c, m) = [list |-> Behind(l, c, d), last |-> c + 1, num |-> o.num + 1]
      BY DEF Linked
    <3>5. Linked(o, c, m) \in Orders(P, F)
      BY <2>2, <3>2, <3>3, <3>4, GrownList
    <3> QED
      BY <3>2, <3>4, <3>5
  <2> QED
    BY <2>1, <2>4, <2>5, <2>6
<1>6. n.nxt \in Nat /\ (c < Len(l) => l[c + 1].seq \in Nat)
  BY <1>2 DEF NodesOf
<1>7. CASE in /\ end <= bk
  <2>1. q = o
    BY <1>7 DEF Place, bk, end
  <2> QED
    BY <1>7, <2>1 DEF bk, end
<1>8. CASE in /\ ~ (end <= bk)
  <2>1. end > bk
    BY <1>3, <1>8
  <2>2. CASE c < Len(l)
    <3>1. q = Linked(o, c, rest)
      BY <1>8, <2>2 DEF Place, bk, end, rest
    <3>2. /\ Clip(rest, l[c + 1]) \in NodesOf(P, F)
          /\ Clip(rest, l[c + 1]).pkt = n.pkt /\ Clip(rest, l[c + 1]).flags = n.flags
          /\ Clip(rest, l[c + 1]).seq = (bk + 1) % SeqWord
          /\ Clip(rest, l[c + 1]).nxt = IF n.nxt <= l[c + 1].seq THEN n.nxt ELSE l[c + 1].seq
          /\ Clip(rest, l[c + 1]).dl
               = IF n.nxt <= l[c + 1].seq THEN rest.dl
                 ELSE (rest.dl - (n.nxt - l[c + 1].seq)) % LenWord
      BY <1>2, <1>4, <2>2, ClippedNode
    <3> DEFINE d == Clip(rest, l[c + 1])
    <3>3. /\ d.nxt = IF c < Len(l) /\ n.nxt > l[c + 1].seq THEN l[c + 1].seq ELSE n.nxt
          /\ d.dl = IF c < Len(l) /\ n.nxt > l[c + 1].seq
                      THEN (dl - (n.nxt - l[c + 1].seq)) % LenWord ELSE dl
      BY <1>4, <1>6, <1>8, <2>2, <3>2
    <3>4. q \in Orders(P, F) /\ InsertedAt(l, q.list, c, d)
      BY <1>4, <1>5, <2>2, <3>1
    <3> HIDE DEF d, q, dl
    <3>5. \E m \in NodesOf(P, F) :
            /\ InsertedAt(l, q.list, c, m)
            /\ m.pkt = n.pkt /\ m.flags = n.flags
            /\ in => end > bk /\ m.seq = (bk + 1) % SeqWord
            /\ ~ in => m.seq = n.seq
            /\ m.nxt = IF c < Len(l) /\ n.nxt > l[c + 1].seq
                         THEN l[c + 1].seq ELSE n.nxt
            /\ m.dl = IF c < Len(l) /\ n.nxt > l[c + 1].seq
                        THEN (dl - (n.nxt - l[c + 1].seq)) % LenWord ELSE dl
      <4>1. d \in NodesOf(P, F)
        BY <3>2 DEF d
      <4> WITNESS d \in NodesOf(P, F)
      <4> QED
        BY <1>8, <2>1, <3>2, <3>3, <3>4 DEF d
    <3> QED
      BY <3>4, <3>5 DEF q, bk, end, dl
  <2>3. CASE ~ (c < Len(l))
    <3>1. q = [list |-> Behind(o.list, c, rest), last |-> c + 1, num |-> o.num]
      BY <1>8, <2>3 DEF Place, bk, end, rest
    <3>2. q.list = Behind(o.list, c, rest)
      BY <1>1, <3>1
    <3> QED
      BY <1>4, <1>5, <1>8, <2>1, <2>3, <3>1, <3>2 DEF bk, end
  <2> QED
    BY <2>2, <2>3
<1>9. CASE ~ in
  <2>1. CASE c < Len(l)
    <3>1. q = Linked(o, c, n)
      BY <1>9, <2>1 DEF Place, bk, end
    <3>2. /\ Clip(n, l[c + 1]) \in NodesOf(P, F)
          /\ Clip(n, l[c + 1]).pkt = n.pkt /\ Clip(n, l[c + 1]).flags = n.flags
          /\ Clip(n, l[c + 1]).seq = n.seq
          /\ Clip(n, l[c + 1]).nxt = IF n.nxt <= l[c + 1].seq THEN n.nxt ELSE l[c + 1].seq
          /\ Clip(n, l[c + 1]).dl
               = IF n.nxt <= l[c + 1].seq THEN n.dl
                 ELSE (n.dl - (n.nxt - l[c + 1].seq)) % LenWord
      BY <1>2, <2>1, ClippedNode
    <3> DEFINE d == Clip(n, l[c + 1])
    <3>3. /\ d.nxt = IF c < Len(l) /\ n.nxt > l[c + 1].seq THEN l[c + 1].seq ELSE n.nxt
          /\ d.dl = IF c < Len(l) /\ n.nxt > l[c + 1].seq
                      THEN (dl - (n.nxt - l[c + 1].seq)) % LenWord ELSE dl
      BY <1>6, <1>9, <2>1, <3>2
    <3>4. q \in Orders(P, F) /\ InsertedAt(l, q.list, c, d)
      BY <1>5, <2>1, <3>1
    <3> HIDE DEF d, q, dl
    <3>5. \E m \in NodesOf(P, F) :
            /\ InsertedAt(l, q.list, c, m)
            /\ m.pkt = n.pkt /\ m.flags = n.flags
            /\ in => end > bk /\ m.seq = (bk + 1) % SeqWord
            /\ ~ in => m.seq = n.seq
            /\ m.nxt = IF c < Len(l) /\ n.nxt > l[c + 1].seq
                         THEN l[c + 1].seq ELSE n.nxt
            /\ m.dl = IF c < Len(l) /\ n.nxt > l[c + 1].seq
                        THEN (dl - (n.nxt - l[c + 1].seq)) % LenWord ELSE dl
      <4>1. d \in NodesOf(P, F)
        BY <3>2 DEF d
      <4> WITNESS d \in NodesOf(P, F)
      <4> QED
        BY <1>9, <3>2, <3>3, <3>4 DEF d
    <3> QED
      BY <3>4, <3>5 DEF q, bk, end, dl
  <2>2. CASE ~ (c < Len(l))
    <3>1. q = [o EXCEPT !.list = Behind(o.list, c, n)]
      BY <1>9, <2>2 DEF Place, bk, end
    <3>2. q.list = Behind(o.list, c, n)
      BY <1>1, <3>1
    <3> QED
      BY <1>5, <1>9, <2>2, <3>1, <3>2 DEF bk, end
  <2> QED
    BY <2>1, <2>2
<1> QED
  BY <1>7, <1>8, <1>9

\* The numbers of a node.
LEMMA NodeNumbers ==
  ASSUME NEW P, NEW F, NEW l \in Seq(NodesOf(P, F)), NEW i \in 1 .. Len(l)
  PROVE  /\ l[i] \in NodesOf(P, F)
         /\ l[i].seq \in Nat /\ l[i].seq < SeqWord
         /\ l[i].nxt \in Nat /\ l[i].nxt < SeqWord
<1>1. l[i] \in NodesOf(P, F)
  BY ElementOfSeq
<1>2. l[i].seq \in 0 .. SeqWord - 1 /\ l[i].nxt \in 0 .. SeqWord - 1
  BY <1>1 DEF NodesOf
<1> QED
  BY <1>1, <1>2, WordAssumption

\* The branches of tcp_order: behind the last node, or behind the segment that
\* begins with the node before the first that reaches past n, which stays node pre.
LEMMA Branches ==
  ASSUME NEW P, NEW F, NEW o \in Orders(P, F), NEW n \in NodesOf(P, F), o.list # <<>>
  PROVE  LET l == o.list
             q == tcp_order(o, n)
         IN \/ /\ \A j \in 1 .. Len(l) : l[j].nxt <= n.seq
               /\ q = [list |-> Append(l, n), last |-> Len(l) + 1, num |-> o.num + 1]
            \/ \E pre \in 1 .. Len(l) :
                 /\ q = Place(o, n, l[pre].seq, tcp_cont_seq(l, pre))
                 /\ \/ l[pre].nxt = n.seq
                    \/ pre = 1 /\ l[1].nxt > n.seq
                    \/ /\ pre < Len(l) /\ l[pre].nxt <= n.seq
                       /\ l[pre + 1].nxt > n.seq
<1> DEFINE l == o.list
<1> DEFINE q == tcp_order(o, n)
<1> DEFINE later == {i \in 1 .. Len(l) : l[i].nxt > n.seq}
<1> DEFINE stop == CHOOSE i \in later : \A j \in later : i <= j
<1> DEFINE pre == IF stop = 1 THEN 1 ELSE stop - 1
<1>1. l \in Seq(NodesOf(P, F)) /\ Len(l) \in Nat /\ o.last \in 1 .. Len(l)
  BY LenProperties DEF Orders
<1>2. n.seq \in Nat /\ \A i \in 1 .. Len(l) : l[i].nxt \in Nat
  <2>1. n.seq \in 0 .. SeqWord - 1
    BY DEF NodesOf
  <2>2. n.seq \in Nat
    BY <2>1
  <2> QED
    BY <1>1, <2>2, NodeNumbers
<1>3. CASE l[o.last].nxt = n.seq
  <2>1. q = Place(o, n, l[o.last].seq, tcp_cont_seq(l, o.last))
    BY <1>3 DEF tcp_order
  <2> QED
    BY <1>1, <1>3, <2>1
<1>4. CASE l[o.last].nxt # n.seq /\ later = {}
  <2>1. q = [list |-> Append(l, n), last |-> Len(l) + 1, num |-> o.num + 1]
    BY <1>4 DEF tcp_order
  <2>2. ASSUME NEW j \in 1 .. Len(l) PROVE l[j].nxt <= n.seq
    <3>1. ~ (l[j].nxt > n.seq)
      BY <1>4
    <3> QED
      BY <1>2, <3>1
  <2> QED
    BY <2>1, <2>2
<1>5. CASE l[o.last].nxt # n.seq /\ later # {}
  <2>1. q = Place(o, n, l[pre].seq, tcp_cont_seq(l, pre))
    BY <1>5 DEF tcp_order
  <2>2. later \subseteq 1 .. Len(l) /\ later \subseteq Nat
    BY <1>1
  <2>3. \A i \in 1 .. Len(l) : i \in later <=> l[i].nxt > n.seq
    OBVIOUS
  <2> HIDE DEF later
  <2>4. \E i \in later : \A j \in later : i <= j
    <3>1. PICK x \in later : \A y \in later : ~ (<<y, x>> \in OpToRel(<, Nat))
      BY <1>5, <2>2, WFMin, NatLessThanWellFounded
    <3>2. ASSUME NEW y \in later PROVE x <= y
      <4>1. x \in Nat /\ y \in Nat
        BY <2>2
      <4>2. y < x => <<y, x>> \in OpToRel(<, Nat)
        BY <4>1 DEF OpToRel
      <4>3. ~ (y < x)
        BY <3>1, <4>2
      <4> QED
        BY <4>1, <4>3
    <3> QED
      BY <3>2
  <2>5. stop \in later /\ \A j \in later : stop <= j
    BY <2>4
  <2> HIDE DEF stop
  <2>6. stop \in Nat /\ 1 <= stop /\ stop <= Len(l) /\ l[stop].nxt > n.seq
    <3>1. stop \in 1 .. Len(l)
      BY <2>2, <2>5
    <3>2. l[stop].nxt > n.seq
      BY <2>3, <2>5, <3>1
    <3> QED
      BY <1>1, <3>1, <3>2
  <2>7. CASE stop = 1
    BY <1>1, <2>1, <2>6, <2>7
  <2>8. CASE stop # 1
    <3>1. /\ pre = stop - 1 /\ pre \in 1 .. Len(l) /\ pre < Len(l) /\ pre + 1 = stop
          /\ pre < stop
      BY <1>1, <2>6, <2>8
    <3>2. pre \notin later
      <4>1. pre \in Nat /\ stop \in Nat
        BY <2>6, <3>1
      <4> QED
        BY <2>5, <3>1, <4>1
    <3>3. ~ (l[pre].nxt > n.seq) /\ l[pre].nxt \in Nat
      BY <1>2, <2>3, <3>1, <3>2
    <3>4. l[pre].nxt <= n.seq
      BY <1>2, <3>3
    <3>5. l[pre + 1].nxt > n.seq
      BY <2>6, <3>1
    <3> HIDE DEF pre
    <3> QED
      BY <2>1, <3>1, <3>4, <3>5
  <2> QED
    BY <2>7, <2>8
<1> QED
  BY <1>3, <1>4, <1>5

\* seq_pkt makes a node of a packet whose numbers fit their words.
LEMMA SeqPktNode ==
  ASSUME NEW P, NEW F, NEW p, p.http = "none" => NoPacket \in P, p.http # "none" => p.id \in P,
         p.flags \in F, p.seq \in 0 .. SeqWord - 1, p.dl \in 0 .. LenWord - 1
  PROVE  /\ seq_pkt(p) \in NodesOf(P, F)
         /\ seq_pkt(p).pkt = IF p.http = "none" THEN NoPacket ELSE p.id
<1> DEFINE x == p.seq + p.dl + (IF p.flags \cap {"SYN", "FIN"} = {} THEN 0 ELSE 1)
<1>1. x \in Int
  <2>1. p.seq \in Int /\ p.dl \in Int
    BY WordAssumption
  <2> QED
    BY <2>1
<1> HIDE DEF x
<1>2. x % SeqWord \in 0 .. SeqWord - 1
  BY <1>1, Words
<1>3. seq_pkt(p) = [pkt |-> IF p.http = "none" THEN NoPacket ELSE p.id, seq |-> p.seq,
                    nxt |-> x % SeqWord, dl |-> p.dl, flags |-> p.flags]
  BY DEF seq_pkt, x
<1> QED
  BY <1>2, <1>3 DEF NodesOf

-----------------------------------------------------------------------------
\* tcp_order keeps the list a list, with the last node it remembers in it, and
\* adds at most one node, at one place, of the packet it was given.
THEOREM Insertion ==
  ASSUME NEW P, NEW F, NEW o \in Orders(P, F), NEW n \in NodesOf(P, F)
  PROVE  LET q == tcp_order(o, n) IN
         /\ q \in Orders(P, F)
         /\ \/ q.list = o.list
            \/ \E k \in 0 .. Len(o.list), m \in NodesOf(P, F) :
                 /\ InsertedAt(o.list, q.list, k, m)
                 /\ m.pkt = n.pkt /\ m.flags = n.flags
<1> DEFINE l == o.list
<1> DEFINE q == tcp_order(o, n)
<1>1. l \in Seq(NodesOf(P, F)) /\ Len(l) \in Nat /\ o.num \in Nat
  BY LenProperties DEF Orders
<1>2. CASE l = <<>>
  <2>1. q = [list |-> <<n>>, last |-> 1, num |-> o.num + 1]
    BY <1>2 DEF tcp_order
  <2>2. <<n>> \in Seq(NodesOf(P, F)) /\ Len(<<n>>) = 1 /\ <<n>>[1] = n
    OBVIOUS
  <2>3. q \in Orders(P, F)
    BY <1>1, <2>1, <2>2 DEF Orders
  <2>4. Len(l) = 0 /\ 0 \in 0 .. Len(l)
    BY <1>2
  <2>5. InsertedAt(l, q.list, 0, n)
    BY <2>1, <2>2, <2>4 DEF InsertedAt
  <2> QED
    BY <2>3, <2>4, <2>5
<1>3. CASE l # <<>>
  <2>1. CASE q = [list |-> Append(l, n), last |-> Len(l) + 1, num |-> o.num + 1]
    <3>1. Append(l, n) \in Seq(NodesOf(P, F)) /\ InsertedAt(l, Append(l, n), Len(l), n)
      BY <1>1, PutLast
    <3>2. Len(l) + 1 \in 1 .. Len(Append(l, n)) /\ Len(l) + 1 \in Nat /\ o.num + 1 \in Nat
      BY <1>1, <3>1 DEF InsertedAt
    <3>3. q \in Orders(P, F)
      BY <1>3, <2>1, <3>1, <3>2, GrownList
    <3>4. Len(l) \in 0 .. Len(l) /\ q.list = Append(l, n)
      BY <1>1, <2>1
    <3> QED
      BY <3>1, <3>3, <3>4
  <2>2. ASSUME NEW pre \in 1 .. Len(l), q = Place(o, n, l[pre].seq, tcp_cont_seq(l, pre))
        PROVE  /\ q \in Orders(P, F)
               /\ \/ q.list = l
                  \/ \E k \in 0 .. Len(l), m \in NodesOf(P, F) :
                       /\ InsertedAt(l, q.list, k, m)
                       /\ m.pkt = n.pkt /\ m.flags = n.flags
    <3> DEFINE c == tcp_cont_seq(l, pre)
    <3>1. c \in 1 .. Len(l) /\ c \in 0 .. Len(l)
      <4>1. c \in 1 .. Len(l)
        BY <1>1, ContinuousSegment
      <4> QED
        BY <1>1, <4>1
    <3>2. l[pre].seq \in Nat
      BY <1>1, NodeNumbers
    <3>3. q = Place(o, n, l[pre].seq, c)
      BY <2>2
    <3> HIDE DEF c, q
    <3>4. /\ q \in Orders(P, F)
          /\ \/ q.list = l
             \/ \E m \in NodesOf(P, F) :
                  /\ InsertedAt(l, q.list, c, m)
                  /\ m.pkt = n.pkt /\ m.flags = n.flags
      <4> DEFINE fr == l[pre].seq
      <4> HIDE DEF fr
      <4>1. fr \in Nat /\ q = Place(o, n, fr, c) /\ o.list # <<>> /\ c \in 1 .. Len(o.list)
        BY <1>3, <3>1, <3>2, <3>3 DEF fr
      <4>2. /\ Place(o, n, fr, c) \in Orders(P, F)
            /\ \/ Place(o, n, fr, c).list = o.list
               \/ \E m \in NodesOf(P, F) :
                    /\ InsertedAt(o.list, Place(o, n, fr, c).list, c, m)
                    /\ m.pkt = n.pkt /\ m.flags = n.flags
        BY <4>1, Placed
      <4> QED
        BY <4>1, <4>2
    <3> QED
      BY <3>1, <3>4
  <2> QED
    BY <1>3, <2>1, <2>2, Branches
<1> QED
  BY <1>2, <1>3

\* A node put between two others, which begins and ends between them.
LEMMA BetweenIsMonotone ==
  ASSUME NEW P, NEW F, NEW l \in Seq(NodesOf(P, F)), Monotone(l), NEW m \in NodesOf(P, F),
         NEW k \in 1 .. Len(l), NEW s, InsertedAt(l, s, k, m),
         m.seq <= m.nxt, l[k].nxt <= m.seq, k < Len(l) => m.nxt <= l[k + 1].seq
  PROVE  Monotone(s)
<1>1. /\ Len(l) \in Nat /\ k \in Nat /\ 1 <= k /\ k <= Len(l)
      /\ Len(s) = Len(l) + 1
  BY LenProperties DEF InsertedAt
<1>2. m.seq \in Nat /\ m.nxt \in Nat
  <2>1. m.seq \in 0 .. SeqWord - 1 /\ m.nxt \in 0 .. SeqWord - 1
    BY DEF NodesOf
  <2> QED
    BY <2>1, WordAssumption
<1>3. \A i \in 1 .. Len(l) : l[i].seq \in Nat /\ l[i].nxt \in Nat
  BY NodeNumbers
<1>4. ASSUME NEW i \in 1 .. Len(l), i <= k PROVE l[i].nxt <= m.seq
  <2>1. CASE i = k
    BY <2>1
  <2>2. CASE i < k
    <3>1. l[i].nxt <= l[k].seq /\ l[k].seq <= l[k].nxt
      BY <2>2 DEF Monotone
    <3> QED
      BY <1>2, <1>3, <3>1
  <2> QED
    BY <1>1, <1>4, <2>1, <2>2
<1>5. ASSUME NEW j \in 1 .. Len(l), k < j PROVE m.nxt <= l[j].seq
  <2>1. k + 1 \in 1 .. Len(l) /\ k < Len(l) /\ j \in Nat
    BY <1>1, <1>5
  <2>2. CASE j = k + 1
    BY <2>1, <2>2
  <2>3. CASE k + 1 < j
    <3>1. l[k + 1].nxt <= l[j].seq /\ l[k + 1].seq <= l[k + 1].nxt
      BY <2>1, <2>3 DEF Monotone
    <3>2. m.nxt <= l[k + 1].seq
      BY <2>1
    <3> QED
      BY <1>2, <1>3, <2>1, <3>1, <3>2
  <2> QED
    BY <1>1, <1>5, <2>1, <2>2, <2>3
<1>6. ASSUME NEW i \in 1 .. Len(s)
      PROVE  \/ i \in 1 .. Len(l) /\ i <= k /\ s[i] = l[i]
             \/ i = k + 1 /\ s[i] = m
             \/ i - 1 \in 1 .. Len(l) /\ k < i - 1 /\ s[i] = l[i - 1]
  <2>1. s[i] = IF i <= k THEN l[i] ELSE IF i = k + 1 THEN m ELSE l[i - 1]
    BY DEF InsertedAt
  <2>2. i \in Nat /\ 1 <= i /\ i <= Len(l) + 1
    BY <1>1
  <2>3. CASE i <= k
    BY <1>1, <2>1, <2>2, <2>3
  <2>4. CASE i = k + 1
    BY <1>1, <2>1, <2>2, <2>4
  <2>5. CASE i > k + 1
    BY <1>1, <2>1, <2>2, <2>5
  <2> QED
    BY <1>1, <2>2, <2>3, <2>4, <2>5
<1>7. ASSUME NEW i \in 1 .. Len(s) PROVE s[i].seq <= s[i].nxt
  BY <1>6 DEF Monotone
<1>8. ASSUME NEW i \in 1 .. Len(s), NEW j \in 1 .. Len(s), i < j
      PROVE  s[i].nxt <= s[j].seq
  <2>1. i \in Nat /\ j \in Nat
    BY <1>1
  <2>2. CASE i \in 1 .. Len(l) /\ i <= k /\ s[i] = l[i]
    <3>1. CASE j \in 1 .. Len(l) /\ j <= k /\ s[j] = l[j]
      BY <1>8, <2>2, <3>1 DEF Monotone
    <3>2. CASE j = k + 1 /\ s[j] = m
      BY <1>4, <2>2, <3>2
    <3>3. CASE j - 1 \in 1 .. Len(l) /\ k < j - 1 /\ s[j] = l[j - 1]
      <4>1. i < j - 1
        BY <1>1, <2>1, <2>2, <3>3
      <4> QED
        BY <2>2, <3>3, <4>1 DEF Monotone
    <3> QED
      BY <1>6, <3>1, <3>2, <3>3
  <2>3. CASE i = k + 1 /\ s[i] = m
    <3>1. ~ (j <= k) /\ j # k + 1
      BY <1>1, <1>8, <2>1, <2>3
    <3>2. j - 1 \in 1 .. Len(l) /\ k < j - 1 /\ s[j] = l[j - 1]
      BY <1>6, <3>1
    <3> QED
      BY <1>5, <2>3, <3>2
  <2>4. CASE i - 1 \in 1 .. Len(l) /\ k < i - 1 /\ s[i] = l[i - 1]
    <3>1. ~ (j <= k) /\ j # k + 1 /\ i - 1 < j - 1
      BY <1>1, <1>8, <2>1, <2>4
    <3>2. j - 1 \in 1 .. Len(l) /\ k < j - 1 /\ s[j] = l[j - 1]
      BY <1>6, <3>1
    <3> QED
      BY <2>4, <3>1, <3>2 DEF Monotone
  <2> QED
    BY <1>6, <2>2, <2>3, <2>4
<1> QED
  BY <1>7, <1>8 DEF Monotone

\* Two nodes of an ordered list of which one is not behind the other.
LEMMA MonotoneNodes ==
  ASSUME NEW P, NEW F, NEW l \in Seq(NodesOf(P, F)), Monotone(l),
         NEW i \in 1 .. Len(l), NEW j \in 1 .. Len(l), i <= j
  PROVE  /\ l[i].seq <= l[j].seq /\ l[i].nxt <= l[j].nxt
         /\ i < j => l[i].nxt <= l[j].seq
<1>1. /\ l[i].seq \in Nat /\ l[i].nxt \in Nat /\ l[j].seq \in Nat /\ l[j].nxt \in Nat
      /\ l[i].seq <= l[i].nxt /\ l[j].seq <= l[j].nxt
  BY NodeNumbers DEF Monotone
<1>2. CASE i = j
  BY <1>1, <1>2
<1>3. CASE i < j
  <2>1. l[i].nxt <= l[j].seq
    BY <1>3 DEF Monotone
  <2> QED
    BY <1>1, <2>1
<1>4. i = j \/ i < j
  BY LenProperties
<1> QED
  BY <1>2, <1>3, <1>4

\* From node a to node c each node ends where the next begins.
Stretch(l, a, c) == \A k \in a .. c - 1 : Joined(l, k)

\* s is l with m behind node c, where m is what of n lies between c and its follower.
Put(l, s, c, n, m) ==
  /\ InsertedAt(l, s, c, m)
  /\ l[c].nxt <= m.seq /\ m.seq <= m.nxt /\ (c < Len(l) => m.nxt <= l[c + 1].seq)
  /\ m.seq = IF n.seq < l[c].nxt THEN l[c].nxt ELSE n.seq
  /\ n.seq < l[c].nxt => l[c].nxt < n.nxt
  /\ m.nxt = IF c < Len(l) /\ n.nxt > l[c + 1].seq THEN l[c + 1].seq ELSE n.nxt
  /\ n.dl = n.nxt - n.seq => m.dl = m.nxt - m.seq

\* n is left out, because node c reaches as far.  (Behind a node that ends at
\* number 0 the code leaves out whatever comes.)
LeftOut(o, q, c, n) ==
  q = o /\ (o.list[c].nxt > 0 => n.seq < o.list[c].nxt /\ n.nxt <= o.list[c].nxt)

\* What is left of a length when the node begins later, and when it ends earlier too.
Remains(nxt, from, to) == /\ (nxt - from) % LenWord = nxt - from
                          /\ (nxt - from - (nxt - to)) % LenWord = to - from

\* The length that is left to a node fits in its word.
LEMMA LengthLeft ==
  ASSUME NEW nxt \in Nat, NEW from \in Nat, NEW to \in Nat, from <= to, to <= nxt,
         nxt - from < LenWord
  PROVE  Remains(nxt, from, to)
<1>1. LenWord \in Nat /\ LenWord > 0
  BY WordAssumption
<1>2. \A x \in 0 .. LenWord - 1 : x % LenWord = x
  BY <1>1
<1>3. nxt - from \in 0 .. LenWord - 1
  BY <1>1
<1>4. nxt - from - (nxt - to) = to - from /\ to - from \in 0 .. LenWord - 1
  BY <1>1
<1> QED
  BY <1>2, <1>3, <1>4 DEF Remains

\* Place behind a node c that is not behind n, when the place of n is not behind the
\* node that follows c.
LEMMA PlaceEffect ==
  ASSUME NEW P, NEW F, NEW o \in Orders(P, F), NEW n \in NodesOf(P, F),
         o.list # <<>>, Monotone(o.list), n.seq <= n.nxt, n.nxt > 0,
         NEW fr \in Nat, fr <= n.seq, NEW c \in 1 .. Len(o.list),
         (o.list[c].nxt <= n.seq /\ c < Len(o.list)) => n.seq <= o.list[c + 1].seq
  PROVE  \/ LeftOut(o, Place(o, n, fr, c), c, n)
         \/ \E m \in NodesOf(P, F) : Put(o.list, Place(o, n, fr, c).list, c, n, m)
<1> DEFINE l == o.list
<1> DEFINE bk == (l[c].nxt - 1) % SeqWord
<1> DEFINE end == (n.nxt - 1) % SeqWord
<1> DEFINE in == fr <= n.seq /\ n.seq <= bk
<1> DEFINE dl == IF in THEN (end - bk) % LenWord ELSE n.dl
<1> DEFINE q == Place(o, n, fr, c)
<1>1. SeqWord \in Nat
  BY WordAssumption
<1>2. l \in Seq(NodesOf(P, F)) /\ Len(l) \in Nat
  BY LenProperties DEF Orders
<1>3. /\ l[c].seq \in Nat /\ l[c].nxt \in Nat /\ l[c].nxt < SeqWord
      /\ c < Len(l) => l[c + 1].seq \in Nat /\ l[c].nxt <= l[c + 1].seq
  <2>1. c < Len(l) => c + 1 \in 1 .. Len(l) /\ c < c + 1 /\ c <= c + 1
    BY <1>2
  <2> QED
    BY <1>2, <2>1, NodeNumbers, MonotoneNodes
<1>4. n.seq \in Nat /\ n.nxt \in Nat /\ n.seq < SeqWord /\ n.nxt < SeqWord
  <2>1. n.seq \in 0 .. SeqWord - 1 /\ n.nxt \in 0 .. SeqWord - 1
    BY DEF NodesOf
  <2> QED
    BY <2>1, WordAssumption
<1>5. end = n.nxt - 1 /\ end < SeqWord
  <2>1. n.nxt - 1 \in 0 .. SeqWord - 1 /\ n.nxt - 1 \in Int
    BY <1>4, <1>1
  <2>2. end = n.nxt - 1
    BY <2>1, Words
  <2> HIDE DEF end
  <2> QED
    BY <1>4, <1>1, <2>2
<1>6. /\ l[c].nxt = 0 => bk = SeqWord - 1
      /\ l[c].nxt > 0 => bk = l[c].nxt - 1 /\ (bk + 1) % SeqWord = l[c].nxt
  <2>1. CASE l[c].nxt = 0
    BY <2>1, Words
  <2>2. CASE l[c].nxt > 0
    <3>1. l[c].nxt - 1 \in 0 .. SeqWord - 1 /\ l[c].nxt - 1 \in Int
      BY <1>3, <1>1, <2>2
    <3>2. bk = l[c].nxt - 1
      BY <3>1, Words
    <3> HIDE DEF bk
    <3>3. bk + 1 = l[c].nxt /\ l[c].nxt \in 0 .. SeqWord - 1
      BY <1>3, <1>1, <3>2
    <3>4. (bk + 1) % SeqWord = l[c].nxt
      <4> DEFINE x == bk + 1
      <4>1. x \in Int /\ x = l[c].nxt /\ x \in 0 .. SeqWord - 1
        BY <1>3, <3>3
      <4> HIDE DEF x
      <4>2. x % SeqWord = l[c].nxt
        BY <4>1, Words
      <4> QED
        BY <4>2 DEF x
    <3> QED
      BY <1>3, <2>2, <3>2, <3>4
  <2> QED
    BY <1>3, <2>1, <2>2
<1> HIDE DEF bk, end, dl, q
<1>7. \/ q = o /\ in /\ end <= bk
      \/ \E m \in NodesOf(P, F) :
           /\ InsertedAt(l, q.list, c, m)
           /\ in => end > bk /\ m.seq = (bk + 1) % SeqWord
           /\ ~ in => m.seq = n.seq
           /\ m.nxt = IF c < Len(l) /\ n.nxt > l[c + 1].seq THEN l[c + 1].seq ELSE n.nxt
           /\ m.dl = IF c < Len(l) /\ n.nxt > l[c + 1].seq
                       THEN (dl - (n.nxt - l[c + 1].seq)) % LenWord ELSE dl
  <2>1. LET p == Place(o, n, fr, c)
            b == (o.list[c].nxt - 1) % SeqWord
            e == (n.nxt - 1) % SeqWord
            i == fr <= n.seq /\ n.seq <= b
            d == IF i THEN (e - b) % LenWord ELSE n.dl
        IN /\ p \in Orders(P, F)
           /\ \/ p = o /\ i /\ e <= b
              \/ \E m \in NodesOf(P, F) :
                   /\ InsertedAt(o.list, p.list, c, m)
                   /\ m.pkt = n.pkt /\ m.flags = n.flags
                   /\ i => e > b /\ m.seq = (b + 1) % SeqWord
                   /\ ~ i => m.seq = n.seq
                   /\ m.nxt = IF c < Len(o.list) /\ n.nxt > o.list[c + 1].seq
                                THEN o.list[c + 1].seq ELSE n.nxt
                   /\ m.dl = IF c < Len(o.list) /\ n.nxt > o.list[c + 1].seq
                               THEN (d - (n.nxt - o.list[c + 1].seq)) % LenWord ELSE d
    BY Placed
  <2> QED
    BY <2>1 DEF q, bk, end, dl
<1>8. ASSUME NEW m \in NodesOf(P, F), InsertedAt(l, q.list, c, m),
             in => end > bk /\ m.seq = (bk + 1) % SeqWord,
             ~ in => m.seq = n.seq,
             m.nxt = IF c < Len(l) /\ n.nxt > l[c + 1].seq THEN l[c + 1].seq ELSE n.nxt,
             m.dl = IF c < Len(l) /\ n.nxt > l[c + 1].seq
                      THEN (dl - (n.nxt - l[c + 1].seq)) % LenWord ELSE dl
      PROVE  Put(l, q.list, c, n, m)
  <2>1. l[c].nxt > 0
    <3>1. l[c].nxt = 0 => bk = SeqWord - 1 /\ in /\ ~ (end > bk)
      BY <1>4, <1>5, <1>6, <1>1
    <3> QED
      BY <1>3, <1>8, <3>1
  <2>2. bk = l[c].nxt - 1 /\ (bk + 1) % SeqWord = l[c].nxt
    BY <1>6, <2>1
  <2>3. c < Len(l) => m.nxt <= l[c + 1].seq
    BY <1>3, <1>4, <1>8
  <2>4. m.seq = IF n.seq < l[c].nxt THEN l[c].nxt ELSE n.seq
    BY <1>3, <1>4, <1>8, <2>2
  <2>5. m.seq <= m.nxt /\ l[c].nxt <= m.seq /\ (in => n.nxt > l[c].nxt)
    <3>1. CASE in
      <4>1. m.seq = l[c].nxt /\ n.nxt > l[c].nxt
        BY <1>3, <1>4, <1>5, <1>8, <2>2, <3>1
      <4> QED
        BY <1>3, <1>4, <1>8, <4>1
    <3>2. CASE ~ in
      <4>1. m.seq = n.seq /\ l[c].nxt <= n.seq
        BY <1>3, <1>4, <1>8, <2>2, <3>2
      <4>2. c < Len(l) => n.seq <= l[c + 1].seq
        BY <4>1
      <4> QED
        BY <1>3, <1>4, <1>8, <3>2, <4>1, <4>2
    <3> QED
      BY <3>1, <3>2
  <2>6. ASSUME n.dl = n.nxt - n.seq PROVE m.dl = m.nxt - m.seq
    <3> DEFINE seq == n.seq
               nxt == n.nxt
               len == n.dl
               from == m.seq
               to == m.nxt
    <3>1. /\ seq \in Nat /\ nxt \in Nat /\ len \in 0 .. LenWord - 1 /\ len = nxt - seq
          /\ from \in Nat /\ seq <= from /\ from <= to /\ to \in Nat /\ to <= nxt
          /\ from <= nxt
      <4>1. n.dl \in 0 .. LenWord - 1
        BY DEF NodesOf
      <4>2. from \in Nat /\ seq <= from
        BY <1>3, <1>4, <2>4
      <4>3. to \in Nat /\ to <= nxt
        BY <1>3, <1>4, <1>8
      <4>4. from <= nxt
        BY <1>4, <2>5, <4>2, <4>3
      <4> QED
        BY <1>4, <2>5, <2>6, <4>1, <4>2, <4>3, <4>4
    <3>2. /\ (nxt - from) % LenWord = nxt - from
          /\ (nxt - from - (nxt - to)) % LenWord = to - from
      <4> HIDE DEF seq, nxt, len, from, to
      <4>1. LenWord \in Nat
        BY WordAssumption
      <4>2. nxt - from < LenWord
        BY <3>1, <4>1
      <4>3. Remains(nxt, from, to)
        BY <3>1, <4>2, LengthLeft
      <4> QED
        BY <4>3 DEF Remains
    <3>3. dl = nxt - from
      <4>1. CASE in
        <5>1. end - bk = nxt - from /\ from = l[c].nxt
          <6>1. from = l[c].nxt
            BY <1>8, <2>2, <4>1
          <6>2. end = n.nxt - 1 /\ bk = l[c].nxt - 1
            BY <1>5, <2>2
          <6>3. end - bk = n.nxt - l[c].nxt
            <7> DEFINE x == n.nxt
                       y == l[c].nxt
            <7>1. end = x - 1 /\ bk = y - 1 /\ x \in Int /\ y \in Int
              BY <1>3, <1>4, <6>2
            <7> HIDE DEF x, y
            <7>2. end - bk = x - y
              BY <7>1
            <7> QED
              BY <7>2 DEF x, y
          <6> QED
            BY <6>1, <6>3
        <5> QED
          BY <3>2, <4>1, <5>1 DEF dl
      <4>2. CASE ~ in
        BY <1>8, <2>6, <4>2 DEF dl
      <4> QED
        BY <4>1, <4>2
    <3>4. CASE c < Len(l) /\ n.nxt > l[c + 1].seq
      <4>1. to = l[c + 1].seq /\ m.dl = (dl - (nxt - l[c + 1].seq)) % LenWord
        BY <1>8, <3>4
      <4>2. m.dl = (nxt - from - (nxt - to)) % LenWord
        BY <3>3, <4>1
      <4> QED
        BY <3>2, <4>2
    <3>5. CASE ~ (c < Len(l) /\ n.nxt > l[c + 1].seq)
      <4>1. to = nxt /\ m.dl = dl
        BY <1>8, <3>5
      <4> QED
        BY <3>3, <4>1
    <3> QED
      BY <3>4, <3>5
  <2>7. n.seq < l[c].nxt => l[c].nxt < n.nxt
    <3>1. n.seq < l[c].nxt => in
      BY <1>3, <1>4, <2>2
    <3> QED
      BY <1>3, <1>4, <2>5, <3>1
  <2> QED
    BY <1>8, <2>3, <2>4, <2>5, <2>6, <2>7 DEF Put
<1>9. CASE q = o /\ in /\ end <= bk
  <2>1. l[c].nxt > 0 => n.seq < l[c].nxt /\ n.nxt <= l[c].nxt
    BY <1>3, <1>4, <1>5, <1>6, <1>9
  <2> QED
    BY <1>9, <2>1 DEF q, LeftOut
<1> QED
  BY <1>7, <1>8, <1>9 DEF q

\* tcp_order looks for the stretch that n begins in or behind: n is left out if the
\* stretch reaches as far, and otherwise the rest of it is put at the end of the stretch.
LEMMA Effect ==
  ASSUME NEW P, NEW F, NEW o \in Orders(P, F), NEW n \in NodesOf(P, F),
         o.list # <<>>, Monotone(o.list), n.seq <= n.nxt, n.nxt > 0,
         o.list[1].seq <= n.seq,
         \A i \in 2 .. Len(o.list) :
           o.list[i].seq < n.seq /\ n.seq < o.list[i].nxt => Joined(o.list, i - 1)
  PROVE  \E a \in 1 .. Len(o.list) : \E c \in a .. Len(o.list) :
           /\ Stretch(o.list, a, c)
           /\ c < Len(o.list) => ~ Joined(o.list, c) /\ n.seq < o.list[c + 1].nxt
           /\ o.list[a].seq <= n.seq
           /\ \/ LeftOut(o, tcp_order(o, n), c, n)
              \/ \E m \in NodesOf(P, F) : Put(o.list, tcp_order(o, n).list, c, n, m)
<1> DEFINE l == o.list
<1> DEFINE q == tcp_order(o, n)
<1> DEFINE Done == \E a \in 1 .. Len(l) : \E c \in a .. Len(l) :
             /\ Stretch(l, a, c)
             /\ c < Len(l) => ~ Joined(l, c) /\ n.seq < l[c + 1].nxt
             /\ l[a].seq <= n.seq
             /\ \/ LeftOut(o, q, c, n)
                \/ \E m \in NodesOf(P, F) : Put(l, q.list, c, n, m)
<1> SUFFICES Done
  OBVIOUS
<1>1. l \in Seq(NodesOf(P, F)) /\ Len(l) \in Nat /\ 1 \in 1 .. Len(l)
  <2>1. l \in Seq(NodesOf(P, F)) /\ Len(l) \in Nat
    BY LenProperties DEF Orders
  <2>2. Len(l) # 0
    BY <2>1, EmptySeq
  <2> QED
    BY <2>1, <2>2
<1>2. n.seq \in Nat /\ n.nxt \in Nat
  <2>1. n.seq \in 0 .. SeqWord - 1 /\ n.nxt \in 0 .. SeqWord - 1
    BY DEF NodesOf
  <2> QED
    BY <2>1, WordAssumption
<1>3. \A i \in 1 .. Len(l) : l[i].seq \in Nat /\ l[i].nxt \in Nat /\ l[i].seq <= l[i].nxt
  BY <1>1, NodeNumbers DEF Monotone
<1>4. CASE /\ \A j \in 1 .. Len(l) : l[j].nxt <= n.seq
           /\ q = [list |-> Append(l, n), last |-> Len(l) + 1, num |-> o.num + 1]
  <2>1. InsertedAt(l, Append(l, n), Len(l), n) /\ q.list = Append(l, n)
    BY <1>1, <1>4, PutLast
  <2>2. Len(l) \in 1 .. Len(l) /\ ~ (Len(l) < Len(l))
    BY <1>1
  <2>3. l[Len(l)].nxt <= n.seq
    BY <1>4, <2>2
  <2> DEFINE c == Len(l)
  <2>4. c \in 1 .. Len(l) /\ c \in c .. Len(l) /\ ~ (c < Len(l)) /\ c .. c - 1 = {}
    BY <1>1
  <2> HIDE DEF q, c
  <2>5. l[c].nxt <= n.seq /\ l[c].seq <= n.seq /\ l[c].nxt \in Nat
    BY <1>2, <1>3, <2>3, <2>4 DEF c
  <2>6. Put(l, q.list, c, n, n)
    <3>1. n.seq = IF n.seq < l[c].nxt THEN l[c].nxt ELSE n.seq
      BY <1>2, <2>5
    <3> QED
      BY <2>1, <2>4, <2>5, <3>1 DEF Put, c
  <2>7. Stretch(l, c, c)
    BY <2>4 DEF Stretch
  <2> HIDE DEF l
  <2>8. /\ Stretch(l, c, c)
        /\ c < Len(l) => ~ Joined(l, c) /\ n.seq < l[c + 1].nxt
        /\ l[c].seq <= n.seq
        /\ \/ LeftOut(o, q, c, n)
           \/ \E m \in NodesOf(P, F) : Put(l, q.list, c, n, m)
    BY <2>4, <2>5, <2>6, <2>7
  <2> QED
    BY <2>4, <2>8
<1>5. ASSUME NEW pre \in 1 .. Len(l), q = Place(o, n, l[pre].seq, tcp_cont_seq(l, pre)),
             \/ l[pre].nxt = n.seq
             \/ pre = 1 /\ l[1].nxt > n.seq
             \/ /\ pre < Len(l) /\ l[pre].nxt <= n.seq
                /\ l[pre + 1].nxt > n.seq
      PROVE  Done
  <2> DEFINE c == tcp_cont_seq(l, pre)
  <2>1. c \in pre .. Len(l) /\ c \in 1 .. Len(l) /\ (c < Len(l) => ~ Joined(l, c))
    BY <1>1, ContinuousSegment
  <2>2. q = Place(o, n, l[pre].seq, c)
    BY <1>5
  <2> HIDE DEF c, q
  <2>3. pre \in Nat /\ c \in Nat /\ pre <= c
    BY <1>1, <2>1
  <2>4. l[pre].seq <= n.seq /\ l[pre].seq \in Nat
    BY <1>2, <1>3, <1>5
  <2>5. ASSUME l[c].nxt <= n.seq, c < Len(l) PROVE n.seq <= l[c + 1].seq
    <3>1. c + 1 \in 1 .. Len(l) /\ pre + 1 \in 1 .. Len(l) /\ pre < c + 1 /\ pre <= c + 1
      BY <1>1, <2>3, <2>5
    <3>2. CASE l[pre].nxt = n.seq
      BY <1>1, <3>1, <3>2, MonotoneNodes
    <3>3. CASE pre = 1 /\ l[1].nxt > n.seq
      <4>1. l[1].nxt <= l[c].nxt
        BY <1>1, <2>1, <2>3, <3>3, MonotoneNodes
      <4> QED
        BY <1>1, <1>2, <1>3, <2>1, <2>5, <3>3, <4>1
    <3>4. CASE pre < Len(l) /\ l[pre].nxt <= n.seq /\ l[pre + 1].nxt > n.seq
      <4>1. c = pre
        <5>1. pre + 1 <= c => l[pre + 1].nxt <= l[c].nxt
          BY <1>1, <2>1, <3>1, MonotoneNodes
        <5>2. ~ (pre + 1 <= c)
          BY <1>2, <1>3, <2>1, <2>5, <3>1, <3>4, <5>1
        <5> QED
          BY <2>3, <5>2
      <4>2. ~ Joined(l, c) /\ c + 1 \in 2 .. Len(l) /\ (c + 1) - 1 = c
        BY <1>1, <2>1, <2>3, <2>5
      <4>3. ~ (l[c + 1].seq < n.seq /\ n.seq < l[c + 1].nxt)
        BY <4>2
      <4>4. n.seq < l[c + 1].nxt
        BY <1>2, <1>3, <3>1, <3>4, <4>1
      <4>5. l[c + 1].seq \in Nat
        BY <1>3, <3>1
      <4> QED
        BY <1>2, <4>3, <4>4, <4>5
    <3> QED
      BY <1>5, <3>2, <3>3, <3>4
  <2>6. \/ LeftOut(o, q, c, n)
        \/ \E m \in NodesOf(P, F) : Put(l, q.list, c, n, m)
    <3> DEFINE fr == l[pre].seq
    <3>1. fr \in Nat /\ fr <= n.seq /\ q = Place(o, n, fr, c)
      BY <2>2, <2>4
    <3> HIDE DEF fr
    <3> QED
      BY <2>1, <2>5, <3>1, PlaceEffect
  <2>7. Stretch(l, pre, c)
    BY <1>1, ContinuousSegment DEF Stretch, c
  <2>8. ASSUME c < Len(l) PROVE n.seq < l[c + 1].nxt
    <3>1. /\ c + 1 \in 1 .. Len(l) /\ pre + 1 \in 1 .. Len(l)
          /\ pre <= c + 1 /\ pre + 1 <= c + 1 /\ c < c + 1
      BY <1>1, <2>3, <2>8
    <3>2. CASE l[pre].nxt = n.seq
      <4>1. l[pre].nxt <= l[c].nxt /\ l[c].nxt <= l[c + 1].seq /\ l[c].nxt # l[c + 1].seq
        BY <1>1, <2>1, <2>3, <2>8, <3>1, MonotoneNodes DEF Joined
      <4>2. l[c].nxt \in Nat /\ l[c + 1].seq \in Nat /\ l[c + 1].nxt \in Nat
            /\ l[c + 1].seq <= l[c + 1].nxt
        BY <1>3, <2>1, <3>1
      <4> QED
        BY <1>2, <3>2, <4>1, <4>2
    <3>3. CASE pre = 1 /\ l[1].nxt > n.seq
      <4>1. l[1].nxt <= l[c + 1].nxt /\ l[1].nxt \in Nat /\ l[c + 1].nxt \in Nat
        BY <1>1, <1>3, <3>1, <3>3, MonotoneNodes
      <4> QED
        BY <1>2, <3>3, <4>1
    <3>4. CASE l[pre + 1].nxt > n.seq
      <4>1. /\ l[pre + 1].nxt <= l[c + 1].nxt
            /\ l[pre + 1].nxt \in Nat /\ l[c + 1].nxt \in Nat
        BY <1>1, <1>3, <3>1, MonotoneNodes
      <4> QED
        BY <1>2, <3>4, <4>1
    <3> QED
      BY <1>5, <3>2, <3>3, <3>4
  <2> QED
    BY <2>1, <2>4, <2>6, <2>7, <2>8
<1> HIDE DEF Done
<1> QED
  BY <1>4, <1>5, Branches

\* The list stays in order as long as no segment begins before the first node, or
\* inside a node behind a gap: what a retransmission of other boundaries does.
THEOREM KeepsOrder ==
  ASSUME NEW P, NEW F, NEW o \in Orders(P, F), NEW n \in NodesOf(P, F),
         o.list # <<>>, Monotone(o.list), n.seq <= n.nxt, n.nxt > 0,
         o.list[1].seq <= n.seq,
         \A i \in 2 .. Len(o.list) :
           o.list[i].seq < n.seq /\ n.seq < o.list[i].nxt => Joined(o.list, i - 1)
  PROVE  Monotone(tcp_order(o, n).list)
<1> DEFINE l == o.list
           q == tcp_order(o, n)
<1>1. l \in Seq(NodesOf(P, F)) /\ Len(l) \in Nat
  BY LenProperties DEF Orders
<1>2. PICK c \in 1 .. Len(l) : \/ LeftOut(o, q, c, n)
                                \/ \E m \in NodesOf(P, F) : Put(l, q.list, c, n, m)
  <2>1. \A a \in 1 .. Len(l) : \A c \in a .. Len(l) : c \in 1 .. Len(l)
    BY <1>1
  <2> HIDE DEF q
  <2> QED
    BY <2>1, Effect DEF q
<1>3. CASE LeftOut(o, q, c, n)
  BY <1>3 DEF LeftOut
<1>4. ASSUME NEW m \in NodesOf(P, F), Put(l, q.list, c, n, m)
      PROVE  Monotone(q.list)
  <2> HIDE DEF q
  <2> QED
    BY <1>1, <1>4, BetweenIsMonotone DEF Put
<1> QED
  BY <1>2, <1>3, <1>4
-----------------------------------------------------------------------------
(* The bytes a list stands for. *)

\* Number x is in a node of l.
InList(l, x) == \E i \in 1 .. Len(l) : l[i].seq <= x /\ x < l[i].nxt

\* A set of natural numbers has a least element.
LEMMA LeastIn ==
  ASSUME NEW S, S \subseteq Nat, S # {}
  PROVE  \E x \in S : \A y \in S : x <= y
<1>1. PICK x \in S : \A y \in S : ~ (<<y, x>> \in OpToRel(<, Nat))
  BY WFMin, NatLessThanWellFounded
<1>2. ASSUME NEW y \in S PROVE x <= y
  <2>1. x \in Nat /\ y \in Nat /\ <<y, x>> \in Nat \X Nat
    OBVIOUS
  <2>2. y < x => <<y, x>> \in OpToRel(<, Nat)
    BY <2>1 DEF OpToRel
  <2>3. ~ (y < x)
    BY <1>1, <2>2
  <2> QED
    BY <2>1, <2>3
<1> QED
  BY <1>2

\* A stretch of joined nodes leaves no number out.
LEMMA StretchCovers ==
  ASSUME NEW P, NEW F, NEW l \in Seq(NodesOf(P, F)), Monotone(l),
         NEW a \in 1 .. Len(l), NEW c \in a .. Len(l), Stretch(l, a, c),
         NEW x \in Nat, l[a].seq <= x, x < l[c].nxt
  PROVE  InList(l, x)
<1> DEFINE T == {k \in a .. c : x < l[k].nxt}
<1>1. Len(l) \in Nat /\ a \in Nat /\ c \in Nat /\ 1 <= a /\ a <= c /\ c <= Len(l)
  BY LenProperties
<1>2. T \subseteq Nat /\ T # {}
  BY <1>1
<1>3. PICK k \in T : \A j \in T : k <= j
  <2> HIDE DEF T
  <2> QED
    BY <1>2, LeastIn
<1>4. k \in a .. c /\ x < l[k].nxt /\ k \in 1 .. Len(l)
  BY <1>1
<1>5. CASE k = a
  BY <1>4, <1>5 DEF InList
<1>6. CASE k # a
  <2>1. k - 1 \in a .. c - 1 /\ k - 1 \in a .. c /\ k - 1 \in 1 .. Len(l) /\ k - 1 + 1 = k
    BY <1>1, <1>4, <1>6
  <2>2. k - 1 \notin T
    <3>1. ~ (k <= k - 1)
      BY <1>1, <1>4
    <3> QED
      BY <1>3, <3>1
  <2>3. ~ (x < l[k - 1].nxt) /\ l[k - 1].nxt \in Nat
    BY <2>1, <2>2, NodeNumbers
  <2>4. l[k - 1].nxt = l[k].seq
    BY <2>1 DEF Stretch, Joined
  <2>5. l[k].seq <= x
    BY <2>3, <2>4
  <2> QED
    BY <1>4, <2>5 DEF InList
<1> QED
  BY <1>5, <1>6

\* The number where a gap begins is in no node.
LEMMA GapIsOpen ==
  ASSUME NEW P, NEW F, NEW l \in Seq(NodesOf(P, F)), Monotone(l),
         NEW i \in 1 .. Len(l) - 1, ~ Joined(l, i)
  PROVE  l[i].nxt < l[i + 1].seq /\ ~ InList(l, l[i].nxt)
<1>1. Len(l) \in Nat /\ i \in 1 .. Len(l) /\ i + 1 \in 1 .. Len(l) /\ i < i + 1 /\ i \in Nat
  BY LenProperties
<1>2. \A j \in 1 .. Len(l) : l[j].seq \in Nat /\ l[j].nxt \in Nat
  BY NodeNumbers
<1>3. l[i].nxt < l[i + 1].seq
  <2>1. l[i].nxt <= l[i + 1].seq /\ l[i].nxt # l[i + 1].seq
    BY <1>1 DEF Monotone, Joined
  <2> QED
    BY <1>1, <1>2, <2>1
<1>4. ASSUME NEW j \in 1 .. Len(l), l[j].seq <= l[i].nxt, l[i].nxt < l[j].nxt PROVE FALSE
  <2>1. CASE j <= i
    <3>1. l[j].nxt <= l[i].nxt
      BY <1>1, <2>1, MonotoneNodes
    <3> QED
      BY <1>1, <1>2, <1>4, <3>1
  <2>2. CASE i + 1 <= j
    <3>1. l[i + 1].seq <= l[j].seq
      BY <1>1, <2>2, MonotoneNodes
    <3> QED
      BY <1>1, <1>2, <1>3, <1>4, <3>1
  <2>3. j <= i \/ i + 1 <= j
    BY <1>1
  <2> QED
    BY <2>1, <2>2, <2>3
<1> QED
  BY <1>3, <1>4 DEF InList

\* The nodes of a list that one was put into.
LEMMA GrownNodes ==
  ASSUME NEW S, NEW l \in Seq(S), NEW s, NEW c \in 1 .. Len(l), NEW m, InsertedAt(l, s, c, m)
  PROVE  /\ \A i \in 1 .. Len(s) : s[i] = m \/ \E j \in 1 .. Len(l) : s[i] = l[j]
         /\ \E i \in 1 .. Len(s) : s[i] = m
         /\ \A j \in 1 .. Len(l) : \E i \in 1 .. Len(s) : s[i] = l[j]
         /\ s[1] = l[1]
<1>1. Len(l) \in Nat /\ c \in Nat /\ 1 <= c /\ c <= Len(l) /\ Len(s) = Len(l) + 1
  BY LenProperties DEF InsertedAt
<1>2. \A i \in 1 .. Len(s) :
        s[i] = IF i <= c THEN l[i] ELSE IF i = c + 1 THEN m ELSE l[i - 1]
  BY DEF InsertedAt
<1>3. ASSUME NEW i \in 1 .. Len(s), s[i] # m PROVE \E j \in 1 .. Len(l) : s[i] = l[j]
  <2>1. CASE i <= c
    <3>1. i \in 1 .. Len(l) /\ s[i] = l[i]
      BY <1>1, <1>2, <2>1
    <3> QED
      BY <3>1
  <2>2. CASE ~ (i <= c)
    <3>1. i - 1 \in 1 .. Len(l) /\ s[i] = l[i - 1]
      BY <1>1, <1>2, <1>3, <2>2
    <3> QED
      BY <3>1
  <2> QED
    BY <2>1, <2>2
<1>4. c + 1 \in 1 .. Len(s) /\ s[c + 1] = m
  BY <1>1, <1>2
<1>5. ASSUME NEW j \in 1 .. Len(l) PROVE \E i \in 1 .. Len(s) : s[i] = l[j]
  <2>1. CASE j <= c
    <3>1. j \in 1 .. Len(s) /\ s[j] = l[j]
      BY <1>1, <1>2, <2>1
    <3> QED
      BY <3>1
  <2>2. CASE ~ (j <= c)
    <3>1. j + 1 \in 1 .. Len(s) /\ j + 1 - 1 = j /\ ~ (j + 1 <= c) /\ j + 1 # c + 1
      BY <1>1, <2>2
    <3>2. s[j + 1] = l[j]
      BY <1>2, <3>1
    <3> QED
      BY <3>1, <3>2
  <2> QED
    BY <2>1, <2>2
<1>6. s[1] = l[1]
  BY <1>1, <1>2
<1> QED
  BY <1>3, <1>4, <1>5, <1>6

\* What is known of a segment n and a list l into which tcp_order puts it without a
\* loss: n does not begin before the list, nor inside a node behind a gap, and what of
\* it reaches into a node behind a gap is in the list.
Fits(l, n) ==
  /\ l # <<>> /\ Monotone(l) /\ \A i \in 1 .. Len(l) : l[i].nxt > 0
  /\ n.seq <= n.nxt /\ n.nxt > 0 /\ l[1].seq <= n.seq
  /\ \A i \in 2 .. Len(l) :
       ~ Joined(l, i - 1) =>
         /\ ~ (l[i].seq < n.seq /\ n.seq < l[i].nxt)
         /\ n.seq <= l[i].seq /\ n.seq < l[i].nxt =>
              \A x \in Nat : l[i].seq <= x /\ x < n.nxt => InList(l, x)

\* Of such a segment no byte is lost, and no other comes into the list.
THEOREM CoversBytes ==
  ASSUME NEW P, NEW F, NEW o \in Orders(P, F), NEW n \in NodesOf(P, F), Fits(o.list, n)
  PROVE  \A x \in Nat :
           InList(tcp_order(o, n).list, x) <=> InList(o.list, x) \/ (n.seq <= x /\ x < n.nxt)
<1> DEFINE l == o.list
           q == tcp_order(o, n)
<1>1. l \in Seq(NodesOf(P, F)) /\ Len(l) \in Nat
  BY LenProperties DEF Orders
<1>2. /\ l # <<>> /\ Monotone(l) /\ n.seq <= n.nxt /\ n.nxt > 0 /\ l[1].seq <= n.seq
      /\ \A i \in 1 .. Len(l) : l[i].nxt > 0
      /\ \A i \in 2 .. Len(l) :
           ~ Joined(l, i - 1) =>
             /\ ~ (l[i].seq < n.seq /\ n.seq < l[i].nxt)
             /\ n.seq <= l[i].seq /\ n.seq < l[i].nxt =>
                  \A x \in Nat : l[i].seq <= x /\ x < n.nxt => InList(l, x)
  BY DEF Fits
<1>3. n.seq \in Nat /\ n.nxt \in Nat
  <2>1. n.seq \in 0 .. SeqWord - 1 /\ n.nxt \in 0 .. SeqWord - 1
    BY DEF NodesOf
  <2> QED
    BY <2>1, WordAssumption
<1>4. \A i \in 1 .. Len(l) : l[i].seq \in Nat /\ l[i].nxt \in Nat
  BY <1>1, NodeNumbers
<1>5. PICK a \in 1 .. Len(l) : \E c \in a .. Len(l) :
        /\ Stretch(l, a, c)
        /\ c < Len(l) => ~ Joined(l, c) /\ n.seq < l[c + 1].nxt
        /\ l[a].seq <= n.seq
        /\ \/ LeftOut(o, q, c, n)
           \/ \E m \in NodesOf(P, F) : Put(l, q.list, c, n, m)
  BY <1>2, Effect
<1>6. PICK c \in a .. Len(l) :
        /\ Stretch(l, a, c)
        /\ c < Len(l) => ~ Joined(l, c) /\ n.seq < l[c + 1].nxt
        /\ l[a].seq <= n.seq
        /\ \/ LeftOut(o, q, c, n)
           \/ \E m \in NodesOf(P, F) : Put(l, q.list, c, n, m)
  BY <1>5
<1>7. c \in 1 .. Len(l)
  BY <1>1
<1>8. ASSUME NEW x \in Nat, n.seq <= x, x < l[c].nxt PROVE InList(l, x)
  <2>1. l[a].seq <= x
    BY <1>3, <1>4, <1>6, <1>8
  <2> QED
    BY <1>1, <1>2, <1>6, <1>8, <2>1, StretchCovers
<1> HIDE DEF q, l
<1> SUFFICES ASSUME NEW x \in Nat
             PROVE  InList(q.list, x) <=> InList(l, x) \/ (n.seq <= x /\ x < n.nxt)
  BY DEF q, l
<1>9. CASE LeftOut(o, q, c, n)
  <2>1. q.list = l /\ n.nxt <= l[c].nxt
    BY <1>2, <1>7, <1>9 DEF LeftOut, l
  <2>2. n.seq <= x /\ x < n.nxt => InList(l, x)
    BY <1>3, <1>4, <1>7, <1>8, <2>1
  <2> QED
    BY <2>1, <2>2
<1>10. ASSUME NEW m \in NodesOf(P, F), Put(l, q.list, c, n, m)
       PROVE  InList(q.list, x) <=> InList(l, x) \/ (n.seq <= x /\ x < n.nxt)
  <2> DEFINE s == q.list
  <2>1. /\ InsertedAt(l, s, c, m)
        /\ l[c].nxt <= m.seq /\ m.seq <= m.nxt /\ (c < Len(l) => m.nxt <= l[c + 1].seq)
        /\ m.seq = IF n.seq < l[c].nxt THEN l[c].nxt ELSE n.seq
        /\ m.nxt = IF c < Len(l) /\ n.nxt > l[c + 1].seq THEN l[c + 1].seq ELSE n.nxt
    BY <1>10 DEF Put
  <2> HIDE DEF s
  <2>2. /\ \A i \in 1 .. Len(s) : s[i] = m \/ \E j \in 1 .. Len(l) : s[i] = l[j]
        /\ \E i \in 1 .. Len(s) : s[i] = m
        /\ \A j \in 1 .. Len(l) : \E i \in 1 .. Len(s) : s[i] = l[j]
    BY <1>1, <1>7, <2>1, GrownNodes
  <2>3. InList(s, x) <=> InList(l, x) \/ (m.seq <= x /\ x < m.nxt)
    BY <2>2 DEF InList
  <2>4. m.seq \in Nat /\ m.nxt \in Nat /\ n.seq <= m.seq
    <3>1. m.seq \in Nat /\ n.seq <= m.seq
      BY <1>3, <1>4, <1>7, <2>1
    <3>2. c < Len(l) => c + 1 \in 1 .. Len(l)
      BY <1>1, <1>7
    <3>3. m.nxt \in Nat
      BY <1>3, <1>4, <2>1, <3>2
    <3> QED
      BY <3>1, <3>3
  <2>5. m.nxt <= n.nxt
    <3>1. c < Len(l) => c + 1 \in 1 .. Len(l)
      BY <1>1, <1>7
    <3> QED
      BY <1>3, <1>4, <2>1, <3>1
  <2>6. m.seq <= x /\ x < m.nxt => n.seq <= x /\ x < n.nxt
    BY <1>3, <2>4, <2>5
  <2>7. ASSUME n.seq <= x, x < n.nxt, ~ (m.seq <= x /\ x < m.nxt) PROVE InList(l, x)
    <3>1. CASE x < m.seq
      <4>1. x < l[c].nxt
        BY <1>3, <1>4, <1>7, <2>1, <2>7, <3>1
      <4> QED
        BY <1>8, <2>7, <4>1
    <3>2. CASE m.nxt <= x
      <4>1. c < Len(l) /\ n.nxt > l[c + 1].seq /\ m.nxt = l[c + 1].seq
        BY <1>3, <2>1, <2>4, <2>7, <3>2
      <4>2. c + 1 \in 2 .. Len(l) /\ c + 1 - 1 = c /\ c + 1 \in 1 .. Len(l)
        BY <1>1, <1>7, <4>1
      <4>3. ~ Joined(l, c) /\ n.seq < l[c + 1].nxt
        BY <1>6, <4>1
      <4>4. n.seq <= l[c + 1].seq /\ l[c + 1].seq <= x
        BY <1>3, <1>4, <2>1, <2>4, <3>2, <4>1, <4>2
      <4> DEFINE i == c + 1
      <4>5. i \in 2 .. Len(l) /\ ~ Joined(l, i - 1) /\ n.seq <= l[i].seq /\ n.seq < l[i].nxt
        BY <4>2, <4>3, <4>4
      <4> HIDE DEF i
      <4>6. \A y \in Nat : l[i].seq <= y /\ y < n.nxt => InList(l, y)
        BY <1>2, <4>5
      <4> QED
        BY <2>7, <4>4, <4>6 DEF i
    <3> QED
      BY <2>4, <2>7, <3>1, <3>2
  <2> QED
    BY <2>3, <2>6, <2>7 DEF s
<1> QED
  BY <1>6, <1>9, <1>10

\* n overlaps no node.
Apart(l, n) == \A i \in 1 .. Len(l) : l[i].nxt <= n.seq \/ n.nxt <= l[i].seq

\* m is a piece of n, all of it if n overlaps no node, and its length is right.
Piece(l, n, m) ==
  /\ m.seq = n.seq \/ (n.seq < m.seq /\ m.seq < n.nxt)
  /\ m.nxt <= n.nxt /\ m.nxt > 0
  /\ Apart(l, n) => m.seq = n.seq /\ m.nxt = n.nxt
  /\ n.dl = n.nxt - n.seq => m.dl = m.nxt - m.seq

\* The nodes of the list stay, and what is new is one piece of the segment.
THEOREM NodesAfter ==
  ASSUME NEW P, NEW F, NEW o \in Orders(P, F), NEW n \in NodesOf(P, F), Fits(o.list, n)
  PROVE  LET l == o.list
             s == tcp_order(o, n).list
         IN /\ s # <<>> /\ Monotone(s) /\ s[1] = l[1]
            /\ \A j \in 1 .. Len(l) : \E i \in 1 .. Len(s) : s[i] = l[j]
            /\ \A i \in 1 .. Len(s) : Piece(l, n, s[i]) \/ \E j \in 1 .. Len(l) : s[i] = l[j]
            /\ \E i \in 1 .. Len(s) : n.nxt <= s[i].nxt
<1> DEFINE l == o.list
           q == tcp_order(o, n)
           s == q.list
<1>1. l \in Seq(NodesOf(P, F)) /\ Len(l) \in Nat
  BY LenProperties DEF Orders
<1>2. /\ l # <<>> /\ Monotone(l) /\ n.seq <= n.nxt /\ n.nxt > 0 /\ l[1].seq <= n.seq
      /\ \A i \in 1 .. Len(l) : l[i].nxt > 0
      /\ \A i \in 2 .. Len(l) :
           ~ Joined(l, i - 1) => ~ (l[i].seq < n.seq /\ n.seq < l[i].nxt)
  BY DEF Fits
<1>3. n.seq \in Nat /\ n.nxt \in Nat
  <2>1. n.seq \in 0 .. SeqWord - 1 /\ n.nxt \in 0 .. SeqWord - 1
    BY DEF NodesOf
  <2> QED
    BY <2>1, WordAssumption
<1>4. \A i \in 1 .. Len(l) : l[i].seq \in Nat /\ l[i].nxt \in Nat /\ l[i].seq <= l[i].nxt
  BY <1>1, <1>2, NodeNumbers DEF Monotone
<1>5. s \in Seq(NodesOf(P, F)) /\ Len(s) \in Nat
  <2>1. q \in Orders(P, F)
    BY Insertion
  <2> HIDE DEF q
  <2> QED
    BY <2>1, LenProperties DEF Orders
<1>6. Monotone(s)
  BY <1>2, KeepsOrder
<1>7. PICK a \in 1 .. Len(l) : \E c \in a .. Len(l) :
        /\ c < Len(l) => n.seq < l[c + 1].nxt
        /\ \/ LeftOut(o, q, c, n)
           \/ \E m \in NodesOf(P, F) : Put(l, q.list, c, n, m)
  BY <1>2, Effect
<1>8. PICK c \in a .. Len(l) :
        /\ c < Len(l) => n.seq < l[c + 1].nxt
        /\ \/ LeftOut(o, q, c, n)
           \/ \E m \in NodesOf(P, F) : Put(l, q.list, c, n, m)
  BY <1>7
<1>9. c \in 1 .. Len(l) /\ (c < Len(l) => c + 1 \in 1 .. Len(l))
  BY <1>1
<1>10. \A x \in Nat : n.seq <= x /\ x < n.nxt => InList(s, x)
  BY CoversBytes
<1> HIDE DEF q, l, s
<1> DEFINE Goal == /\ s # <<>> /\ s[1] = l[1]
                   /\ \A j \in 1 .. Len(l) : \E i \in 1 .. Len(s) : s[i] = l[j]
                   /\ \A i \in 1 .. Len(s) : \/ Piece(l, n, s[i])
                                             \/ \E j \in 1 .. Len(l) : s[i] = l[j]
                   /\ \E i \in 1 .. Len(s) : n.nxt <= s[i].nxt
<1>11. ASSUME LeftOut(o, q, c, n) PROVE Goal
  <2>1. s = l /\ n.nxt <= l[c].nxt
    BY <1>2, <1>9, <1>11 DEF LeftOut, l, s
  <2> QED
    BY <1>2, <1>9, <2>1
<1>12. ASSUME NEW m \in NodesOf(P, F), Put(l, s, c, n, m) PROVE Goal
  <2>1. /\ InsertedAt(l, s, c, m)
        /\ l[c].nxt <= m.seq /\ m.seq <= m.nxt /\ (c < Len(l) => m.nxt <= l[c + 1].seq)
        /\ m.seq = IF n.seq < l[c].nxt THEN l[c].nxt ELSE n.seq
        /\ n.seq < l[c].nxt => l[c].nxt < n.nxt
        /\ m.nxt = IF c < Len(l) /\ n.nxt > l[c + 1].seq THEN l[c + 1].seq ELSE n.nxt
        /\ n.dl = n.nxt - n.seq => m.dl = m.nxt - m.seq
    BY <1>12 DEF Put
  <2>2. /\ \A i \in 1 .. Len(s) : s[i] = m \/ \E j \in 1 .. Len(l) : s[i] = l[j]
        /\ \E i \in 1 .. Len(s) : s[i] = m
        /\ \A j \in 1 .. Len(l) : \E i \in 1 .. Len(s) : s[i] = l[j]
        /\ s[1] = l[1]
    BY <1>1, <1>9, <2>1, GrownNodes
  <2>3. s # <<>>
    <3>1. Len(s) # 0
      BY <1>5, <2>2
    <3> QED
      BY <3>1, EmptySeq
  <2>4. m.seq = n.seq \/ (n.seq < m.seq /\ m.seq < n.nxt)
    BY <1>3, <1>4, <1>9, <2>1
  <2>5. m.nxt \in Nat /\ m.nxt <= n.nxt /\ m.nxt > 0
    <3>1. CASE c < Len(l) /\ n.nxt > l[c + 1].seq
      <4>1. m.nxt = l[c + 1].seq /\ l[c].nxt > 0 /\ l[c].nxt <= m.seq /\ m.seq <= m.nxt
        BY <1>2, <1>9, <2>1, <3>1
      <4>2. m.seq \in Nat
        BY <1>3, <1>4, <1>9, <2>1
      <4> QED
        BY <1>3, <1>4, <1>9, <3>1, <4>1, <4>2
    <3>2. CASE ~ (c < Len(l) /\ n.nxt > l[c + 1].seq)
      BY <1>2, <1>3, <2>1, <3>2
    <3> QED
      BY <3>1, <3>2
  <2>6. ASSUME Apart(l, n) PROVE m.seq = n.seq /\ m.nxt = n.nxt
    <3>1. ~ (n.seq < l[c].nxt)
      <4>1. l[c].nxt <= n.seq \/ n.nxt <= l[c].seq
        BY <1>9, <2>6 DEF Apart
      <4> QED
        BY <1>3, <1>4, <1>9, <2>1, <4>1
    <3>2. ~ (c < Len(l) /\ n.nxt > l[c + 1].seq)
      <4>1. c < Len(l) => l[c + 1].nxt <= n.seq \/ n.nxt <= l[c + 1].seq
        BY <1>9, <2>6 DEF Apart
      <4> QED
        BY <1>3, <1>4, <1>8, <1>9, <4>1
    <3> QED
      BY <2>1, <3>1, <3>2
  <2>7. Piece(l, n, m)
    BY <2>1, <2>4, <2>5, <2>6 DEF Piece
  <2>8. \E i \in 1 .. Len(s) : n.nxt <= s[i].nxt
    <3>1. CASE c < Len(l) /\ n.nxt > l[c + 1].seq
      <4> DEFINE x == n.nxt - 1
      <4>1. x \in Nat /\ n.seq <= x /\ x < n.nxt
        <5>1. m.nxt = l[c + 1].seq /\ m.nxt < n.nxt /\ m.seq <= m.nxt /\ n.seq <= m.seq
          <6>1. n.seq <= m.seq
            BY <1>3, <1>4, <1>9, <2>1
          <6> QED
            BY <2>1, <3>1, <6>1
        <5>2. m.seq \in Nat
          BY <1>3, <1>4, <1>9, <2>1
        <5> QED
          BY <1>3, <2>5, <5>1, <5>2
      <4> HIDE DEF x
      <4>2. PICK i \in 1 .. Len(s) : s[i].seq <= x /\ x < s[i].nxt
        BY <1>10, <4>1 DEF InList
      <4>3. s[i].nxt \in Nat
        BY <1>5, NodeNumbers
      <4> QED
        BY <1>3, <4>1, <4>2, <4>3 DEF x
    <3>2. CASE ~ (c < Len(l) /\ n.nxt > l[c + 1].seq)
      <4>1. m.nxt = n.nxt
        BY <2>1, <3>2
      <4>2. PICK i \in 1 .. Len(s) : s[i] = m
        BY <2>2
      <4>3. n.nxt <= s[i].nxt
        BY <1>3, <4>1, <4>2
      <4> QED
        BY <4>3
    <3> QED
      BY <3>1, <3>2
  <2>9. \A i \in 1 .. Len(s) : Piece(l, n, s[i]) \/ \E j \in 1 .. Len(l) : s[i] = l[j]
    BY <2>2, <2>7
  <2> QED
    BY <2>2, <2>3, <2>8, <2>9
<1>13. Goal
  BY <1>8, <1>11, <1>12 DEF s
<1> QED
  BY <1>6, <1>13 DEF q, l, s

\* A segment of which every byte is in the list changes nothing, if it does not begin
\* behind a gap.
THEOREM KnownDropped ==
  ASSUME NEW P, NEW F, NEW o \in Orders(P, F), NEW n \in NodesOf(P, F), Fits(o.list, n),
         n.seq < n.nxt, \A x \in Nat : n.seq <= x /\ x < n.nxt => InList(o.list, x),
         \A i \in 1 .. Len(o.list) - 1 : ~ Joined(o.list, i) => n.seq <= o.list[i].nxt
  PROVE  tcp_order(o, n) = o
<1> DEFINE l == o.list
           q == tcp_order(o, n)
<1>1. l \in Seq(NodesOf(P, F)) /\ Len(l) \in Nat
  BY LenProperties DEF Orders
<1>2. /\ l # <<>> /\ Monotone(l) /\ n.seq <= n.nxt /\ n.nxt > 0 /\ l[1].seq <= n.seq
      /\ \A i \in 2 .. Len(l) :
           ~ Joined(l, i - 1) => ~ (l[i].seq < n.seq /\ n.seq < l[i].nxt)
  BY DEF Fits
<1>3. n.seq \in Nat /\ n.nxt \in Nat
  <2>1. n.seq \in 0 .. SeqWord - 1 /\ n.nxt \in 0 .. SeqWord - 1
    BY DEF NodesOf
  <2> QED
    BY <2>1, WordAssumption
<1>4. \A i \in 1 .. Len(l) : l[i].seq \in Nat /\ l[i].nxt \in Nat
  BY <1>1, NodeNumbers
<1>5. PICK a \in 1 .. Len(l) : \E c \in a .. Len(l) :
        /\ c < Len(l) => ~ Joined(l, c)
        /\ \/ LeftOut(o, q, c, n)
           \/ \E m \in NodesOf(P, F) : Put(l, q.list, c, n, m)
  BY <1>2, Effect
<1>6. PICK c \in a .. Len(l) :
        /\ c < Len(l) => ~ Joined(l, c)
        /\ \/ LeftOut(o, q, c, n)
           \/ \E m \in NodesOf(P, F) : Put(l, q.list, c, n, m)
  BY <1>5
<1>7. c \in 1 .. Len(l) /\ (c < Len(l) => c \in 1 .. Len(l) - 1)
  BY <1>1
<1>8. c < Len(l) => n.seq <= l[c].nxt /\ ~ InList(l, l[c].nxt)
  BY <1>1, <1>2, <1>6, <1>7, GapIsOpen
<1>9. \A x \in Nat : InList(l, x) /\ ~ (c < Len(l)) => x < l[c].nxt
  <2> SUFFICES ASSUME NEW x \in Nat, NEW j \in 1 .. Len(l), x < l[j].nxt, ~ (c < Len(l))
               PROVE  x < l[c].nxt
    BY DEF InList
  <2>1. j <= c
    BY <1>1, <1>7
  <2>2. l[j].nxt <= l[c].nxt
    BY <1>1, <1>2, <1>7, <2>1, MonotoneNodes
  <2> QED
    BY <1>4, <1>7, <2>2
<1>10. InList(l, n.seq) /\ (n.seq < l[c].nxt /\ l[c].nxt < n.nxt => InList(l, l[c].nxt))
  <2>1. \A x \in Nat : n.seq <= x /\ x < n.nxt => InList(l, x)
    OBVIOUS
  <2>2. n.seq <= n.seq
    BY <1>3
  <2>3. l[c].nxt \in Nat
    BY <1>4, <1>7
  <2>4. n.seq < l[c].nxt => n.seq <= l[c].nxt
    BY <1>3, <2>3
  <2> QED
    BY <1>3, <2>1, <2>2, <2>3, <2>4
<1> HIDE DEF q
<1>11. ASSUME NEW m \in NodesOf(P, F), Put(l, q.list, c, n, m) PROVE FALSE
  <2>1. n.seq < l[c].nxt => l[c].nxt < n.nxt
    BY <1>11 DEF Put
  <2>2. CASE n.seq < l[c].nxt
    <3>1. InList(l, l[c].nxt)
      BY <1>10, <2>1, <2>2
    <3>2. ~ (c < Len(l))
      BY <1>8, <3>1
    <3>3. l[c].nxt \in Nat
      BY <1>4, <1>7
    <3>4. l[c].nxt < l[c].nxt
      BY <1>9, <3>1, <3>2, <3>3
    <3> QED
      BY <3>3, <3>4
  <2>3. CASE ~ (n.seq < l[c].nxt)
    <3>1. CASE c < Len(l)
      <4>1. n.seq = l[c].nxt
        BY <1>3, <1>4, <1>7, <1>8, <2>3, <3>1
      <4> QED
        BY <1>8, <1>10, <3>1, <4>1
    <3>2. CASE ~ (c < Len(l))
      BY <1>3, <1>9, <1>10, <2>3, <3>2
    <3> QED
      BY <3>1, <3>2
  <2> QED
    BY <2>2, <2>3
<1> QED
  BY <1>6, <1>11 DEF q, LeftOut

\* A segment that begins at the end of the list or behind it becomes its last node.
THEOREM GoesLast ==
  ASSUME NEW P, NEW F, NEW o \in Orders(P, F), NEW n \in NodesOf(P, F),
         o.list # <<>>, Monotone(o.list), \A i \in 1 .. Len(o.list) : o.list[i].nxt > 0,
         n.seq <= n.nxt, o.list[Len(o.list)].nxt <= n.seq
  PROVE  LET l == o.list
             s == tcp_order(o, n).list
         IN /\ Len(s) = Len(l) + 1 /\ Monotone(s)
            /\ \A i \in 1 .. Len(s) : s[i].nxt = n.nxt \/ \E j \in 1 .. Len(l) : s[i] = l[j]
            /\ \A j \in 1 .. Len(l) : \E i \in 1 .. Len(s) : s[i] = l[j]
            /\ \E i \in 1 .. Len(s) : s[i].pkt = n.pkt
<1> DEFINE l == o.list
           q == tcp_order(o, n)
           s == q.list
           e == Len(l)
<1>1. l \in Seq(NodesOf(P, F)) /\ e \in Nat /\ e \in 1 .. e
  <2>1. l \in Seq(NodesOf(P, F)) /\ l # <<>>
    BY DEF Orders
  <2> HIDE DEF l
  <2> QED
    BY <2>1, LenProperties, EmptySeq
<1>2. n.seq \in Nat /\ n.nxt \in Nat
  <2>1. n.seq \in 0 .. SeqWord - 1 /\ n.nxt \in 0 .. SeqWord - 1
    BY DEF NodesOf
  <2> QED
    BY <2>1, WordAssumption
<1>3. \A i \in 1 .. e : l[i].seq \in Nat /\ l[i].nxt \in Nat /\ l[i].seq <= l[i].nxt
  BY <1>1, NodeNumbers DEF Monotone
<1>4. ASSUME NEW i \in 1 .. e PROVE l[i].nxt <= n.seq
  <2>1. l[i].nxt <= l[e].nxt
    BY <1>1, MonotoneNodes
  <2>2. l[e].nxt <= n.seq
    OBVIOUS
  <2> DEFINE a == l[i].nxt
             b == l[e].nxt
  <2>3. a \in Nat /\ b \in Nat /\ a <= b /\ b <= n.seq
    BY <1>1, <1>3, <2>1, <2>2
  <2> HIDE DEF a, b
  <2>4. a <= n.seq
    BY <1>2, <2>3
  <2> QED
    BY <2>4 DEF a
<1>5. n.nxt > 0 /\ l[1].seq <= n.seq
  <2>1. 1 \in 1 .. e
    BY <1>1
  <2> DEFINE a == l[1].seq
             b == l[1].nxt
  <2>2. a \in Nat /\ b \in Nat /\ a <= b /\ b <= n.seq /\ b > 0
    BY <1>3, <1>4, <2>1
  <2> HIDE DEF a, b
  <2>3. n.nxt > 0 /\ a <= n.seq
    BY <1>2, <2>2
  <2> QED
    BY <2>3 DEF a
<1>6. \A i \in 2 .. e : ~ (l[i].seq < n.seq /\ n.seq < l[i].nxt)
  <2> SUFFICES ASSUME NEW i \in 2 .. e, n.seq < l[i].nxt PROVE FALSE
    OBVIOUS
  <2>1. i \in 1 .. e
    BY <1>1
  <2> QED
    BY <1>2, <1>3, <1>4, <2>1
<1>7. Monotone(s)
  BY <1>5, <1>6, KeepsOrder
<1>8. PICK a \in 1 .. e : \E c \in a .. e :
        /\ c < e => n.seq < l[c + 1].nxt
        /\ \/ LeftOut(o, q, c, n)
           \/ \E m \in NodesOf(P, F) : Put(l, q.list, c, n, m)
  BY <1>5, <1>6, Effect
<1>9. PICK c \in a .. e :
        /\ c < e => n.seq < l[c + 1].nxt
        /\ \/ LeftOut(o, q, c, n)
           \/ \E m \in NodesOf(P, F) : Put(l, q.list, c, n, m)
  BY <1>8
<1>10. c \in 1 .. e /\ (c < e => c + 1 \in 1 .. e)
  BY <1>1
<1>11. ~ (c < e)
  <2> SUFFICES ASSUME c < e PROVE FALSE
    OBVIOUS
  <2>1. n.seq < l[c + 1].nxt /\ l[c + 1].nxt <= n.seq /\ l[c + 1].nxt \in Nat
    BY <1>3, <1>4, <1>9, <1>10
  <2> QED
    BY <1>2, <2>1
<1>12. ~ LeftOut(o, q, c, n)
  <2> SUFFICES ASSUME LeftOut(o, q, c, n) PROVE FALSE
    OBVIOUS
  <2>1. n.seq < l[c].nxt /\ l[c].nxt <= n.seq /\ l[c].nxt \in Nat
    BY <1>3, <1>4, <1>10 DEF LeftOut
  <2> QED
    BY <1>2, <2>1
<1>13. PICK m \in NodesOf(P, F) : Put(l, s, c, n, m)
  BY <1>9, <1>12
<1>14. s = l \/ \E k \in 0 .. Len(l), d \in NodesOf(P, F) :
                  InsertedAt(l, s, k, d) /\ d.pkt = n.pkt
  BY Insertion
<1> HIDE DEF q, l, s, e
<1>15. InsertedAt(l, s, c, m) /\ m.nxt = n.nxt
  BY <1>11, <1>13 DEF Put, e
<1>16. /\ \A i \in 1 .. Len(s) : s[i] = m \/ \E j \in 1 .. Len(l) : s[i] = l[j]
       /\ \A j \in 1 .. Len(l) : \E i \in 1 .. Len(s) : s[i] = l[j]
  BY <1>1, <1>10, <1>15, GrownNodes DEF e
<1>17. Len(s) = Len(l) + 1
  BY <1>15 DEF InsertedAt
<1>18. s # l
  BY <1>1, <1>17 DEF e
<1>19. \E i \in 1 .. Len(s) : s[i].pkt = n.pkt
  <2>1. PICK k \in 0 .. Len(l), d \in NodesOf(P, F) : InsertedAt(l, s, k, d) /\ d.pkt = n.pkt
    BY <1>14, <1>18
  <2>2. k + 1 \in 1 .. Len(s) /\ ~ (k + 1 <= k)
    BY <1>1, <1>17 DEF e
  <2>3. s[k + 1] = d
    BY <2>1, <2>2 DEF InsertedAt
  <2> QED
    BY <2>1, <2>2, <2>3
<1> QED
  BY <1>7, <1>15, <1>16, <1>17, <1>19 DEF q, l, s

=============================================================================
