--------------------------- MODULE HashTableProofs ---------------------------
(***************************************************************************)
(* Theorems about HashTable for any number of flows, sockets and buckets:  *)
(* its type, the shape of its lists, mutual exclusion, when its counter is *)
(* right, and that it implements the set of flows of module FlowTable.     *)
(***************************************************************************)
EXTENDS HashTable, SequenceTheorems, FiniteSetTheorems, TLAPS

Lists == TypeOK /\ WellLinked /\ Apart /\ Home

\* The length, the domain and the elements of each list.
LEMMA Chains ==
  ASSUME TypeOK, NEW b \in Buckets
  PROVE  /\ chain[b] \in Seq(Flows)
         /\ Len(chain[b]) \in Nat
         /\ DOMAIN chain[b] = 1 .. Len(chain[b])
         /\ \A i \in 1 .. Len(chain[b]) : chain[b][i] \in Flows
         /\ chain[b] = <<>> <=> Len(chain[b]) = 0
<1>1. chain[b] \in Seq(Flows)
  BY DEF TypeOK
<1> QED
  BY <1>1, LenProperties, ElementOfSeq, EmptySeq

\* Without takes one element out of a sequence and moves the rest up.
LEMMA WithoutProperties ==
  ASSUME NEW S, NEW c \in Seq(S), NEW k \in 1 .. Len(c)
  PROVE  /\ Without(c, k) \in Seq(S)
         /\ Len(Without(c, k)) = Len(c) - 1
         /\ \A i \in 1 .. Len(c) - 1 :
              Without(c, k)[i] = IF i < k THEN c[i] ELSE c[i + 1]
<1>1. Len(c) \in Nat \ {0} /\ Len(c) - 1 \in Nat
  BY LenProperties
<1>2. \A i \in 1 .. Len(c) : c[i] \in S
  BY ElementOfSeq
<1>3. Without(c, k) \in [1 .. Len(c) - 1 -> S]
  BY <1>1, <1>2 DEF Without
<1>4. Without(c, k) \in Seq(S)
  BY <1>1, <1>3, SeqDef
<1>5. DOMAIN Without(c, k) = 1 .. Len(c) - 1
  BY DEF Without
<1>6. Len(Without(c, k)) = Len(c) - 1
  BY <1>1, <1>4, <1>5, LenProperties
<1> QED
  BY <1>4, <1>6 DEF Without

\* The buckets whose list f is not in keep their list when f is put into or
\* taken out of another one.
LEMMA OtherLists ==
  ASSUME Lists, NEW b \in Buckets, NEW d \in Buckets, d # b,
         chain'[d] = chain[d], elm_cnt'[d] = elm_cnt[d],
         first'[d] = first[d], last'[d] = last[d],
         \A f \in Flows : (\A i \in 1 .. Len(chain[d]) : chain[d][i] # f)
                            \/ (next'[f] = next[f] /\ prev'[f] = prev[f])
  PROVE  LET c == chain'[d] IN
         /\ elm_cnt'[d] = Len(c)
         /\ first'[d] = IF c = <<>> THEN NULL ELSE c[1]
         /\ last'[d] = IF c = <<>> THEN NULL ELSE c[Len(c)]
         /\ \A i \in DOMAIN c :
              /\ next'[c[i]] = IF i = Len(c) THEN NULL ELSE c[i + 1]
              /\ prev'[c[i]] = IF i = 1 THEN NULL ELSE c[i - 1]
<1> USE DEF Lists
<1>1. \A i \in DOMAIN chain[d] :
        next'[chain[d][i]] = next[chain[d][i]] /\ prev'[chain[d][i]] = prev[chain[d][i]]
  BY Chains
<1> QED
  BY <1>1 DEF WellLinked

\* flow_hash_new keeps every list a list and adds one flow to one of them.
LEMMA Insertion ==
  ASSUME Lists, NEW b \in Buckets, NEW f \in Flows, f \notin Linked,
         NEW s \in Sockets, Hash[s] = b,
         AppendTo(f, b), socket' = [socket EXCEPT ![f] = s]
  PROVE  /\ chain' \in [Buckets -> Seq(Flows)]
         /\ \A d \in Buckets : d # b => chain'[d] = chain[d]
         /\ Len(chain'[b]) = Len(chain[b]) + 1
         /\ \A i \in 1 .. Len(chain[b]) : chain'[b][i] = chain[b][i]
         /\ chain'[b][Len(chain[b]) + 1] = f
         /\ Linked' = Linked \cup {f}
         /\ WellLinked' /\ Apart' /\ Home'
         /\ first' \in [Buckets -> Flows \cup {NULL}]
         /\ last' \in [Buckets -> Flows \cup {NULL}]
         /\ next' \in [Flows -> Flows \cup {NULL}]
         /\ prev' \in [Flows -> Flows \cup {NULL}]
         /\ elm_cnt' \in [Buckets -> Nat]
<1> USE HashTableAssumption DEF Lists
<1> DEFINE c == chain[b]
<1> DEFINE n == Len(c)
<1>1. /\ c \in Seq(Flows) /\ n \in Nat /\ DOMAIN c = 1 .. n
      /\ \A i \in 1 .. n : c[i] \in Flows
      /\ c = <<>> <=> n = 0
  BY Chains
<1>2. chain'[b] = Append(c, f) /\ \A d \in Buckets : d # b => chain'[d] = chain[d]
  BY DEF AppendTo, TypeOK
<1>3. /\ chain'[b] \in Seq(Flows) /\ Len(chain'[b]) = n + 1
      /\ \A i \in 1 .. n : chain'[b][i] = c[i]
      /\ chain'[b][n + 1] = f
      /\ DOMAIN chain'[b] = 1 .. n + 1
  BY <1>1, <1>2, AppendProperties, LenProperties
<1>4. chain' \in [Buckets -> Seq(Flows)]
  BY <1>3, <1>1 DEF AppendTo, TypeOK
<1>5. \A d \in Buckets : \A i \in DOMAIN chain[d] : chain[d][i] # f
  BY DEF Linked
<1>6. elm_cnt[b] = n /\ (n # 0 => last[b] = c[n] /\ last[b] \in Flows /\ last[b] # f)
  BY <1>1, <1>5 DEF WellLinked
<1>7. /\ \A g \in Flows : next'[g] = IF g = f THEN NULL
                                     ELSE IF n # 0 /\ g = last[b] THEN f ELSE next[g]
      /\ \A g \in Flows : prev'[g] = IF g = f THEN IF n = 0 THEN NULL ELSE last[b]
                                     ELSE prev[g]
  BY <1>6 DEF AppendTo, TypeOK
<1>12. ASSUME NEW d \in Buckets, NEW i \in DOMAIN chain'[d]
       PROVE  \/ d = b /\ i = n + 1 /\ chain'[d][i] = f
              \/ i \in DOMAIN chain[d] /\ chain'[d][i] = chain[d][i] /\ chain[d][i] # f
  BY <1>1, <1>2, <1>3, <1>5
<1>8. Apart'
  <2>1. ASSUME NEW d \in Buckets, NEW e \in Buckets,
               NEW i \in DOMAIN chain'[d], NEW j \in DOMAIN chain'[e],
               chain'[d][i] = chain'[e][j]
        PROVE  d = e /\ i = j
    <3>1. CASE i \in DOMAIN chain[d] /\ chain'[d][i] = chain[d][i] /\ chain[d][i] # f
      <4>1. j \in DOMAIN chain[e] /\ chain'[e][j] = chain[e][j]
        BY <1>12, <2>1, <3>1
      <4>2. chain[d][i] = chain[e][j]
        BY <2>1, <3>1, <4>1
      <4> QED
        BY <3>1, <4>1, <4>2 DEF Apart
    <3>2. CASE d = b /\ i = n + 1 /\ chain'[d][i] = f
      BY <1>12, <2>1, <3>2
    <3> QED
      BY <1>12, <3>1, <3>2
  <2> QED
    BY <2>1 DEF Apart
<1>9. Linked' = Linked \cup {f}
  <2>1. ASSUME NEW g \in Linked PROVE g \in Linked'
    <3>1. PICK d \in Buckets : \E i \in DOMAIN chain[d] : chain[d][i] = g
      BY DEF Linked
    <3> QED
      BY <3>1, <1>1, <1>2, <1>3 DEF Linked
  <2>2. f \in Linked'
    <3>1. n + 1 \in DOMAIN chain'[b]
      BY <1>1, <1>3
    <3> QED
      BY <1>3, <3>1 DEF Linked
  <2>3. ASSUME NEW g \in Linked' PROVE g \in Linked \cup {f}
    <3>1. PICK d \in Buckets : \E i \in DOMAIN chain'[d] : chain'[d][i] = g
      BY DEF Linked
    <3>2. PICK i \in DOMAIN chain'[d] : chain'[d][i] = g
      BY <3>1
    <3> QED
      BY <1>12, <3>2 DEF Linked
  <2> QED
    BY <2>1, <2>2, <2>3
<1>10. Home'
  <2>1. hmb' = [hmb EXCEPT ![f] = b]
    BY DEF AppendTo
  <2>2. ASSUME NEW d \in Buckets, NEW i \in DOMAIN chain'[d]
        PROVE  /\ hmb'[chain'[d][i]] = d
               /\ socket'[chain'[d][i]] \in Sockets /\ Hash[socket'[chain'[d][i]]] = d
    <3>1. CASE d = b /\ i = n + 1 /\ chain'[d][i] = f
      BY <2>1, <3>1 DEF TypeOK
    <3>2. CASE i \in DOMAIN chain[d] /\ chain'[d][i] = chain[d][i] /\ chain[d][i] # f
      <4>1. chain[d][i] \in Flows
        BY <3>2, Chains
      <4> QED
        BY <2>1, <3>2, <4>1 DEF Home, TypeOK
    <3> QED
      BY <1>12, <3>1, <3>2
  <2> QED
    BY <2>2 DEF Home
<1>11. WellLinked'
  <2>1. ASSUME NEW d \in Buckets, d # b
        PROVE  \A g \in Flows : (\A i \in 1 .. Len(chain[d]) : chain[d][i] # g)
                                  \/ (next'[g] = next[g] /\ prev'[g] = prev[g])
    <3>1. n # 0 => \A i \in 1 .. Len(chain[d]) : chain[d][i] # last[b]
      BY <1>1, <1>6, <2>1, Chains DEF Apart
    <3> QED
      BY <1>5, <1>7, <2>1, <3>1, Chains
  <2>2. \A d \in Buckets : d # b => elm_cnt'[d] = elm_cnt[d] /\ first'[d] = first[d]
                                      /\ last'[d] = last[d]
    BY DEF AppendTo, TypeOK
  <2>3. first'[b] = chain'[b][1] /\ last'[b] = f /\ elm_cnt'[b] = n + 1
    BY <1>1, <1>3, <1>6 DEF AppendTo, TypeOK, WellLinked
  <2>4. \A i \in 1 .. n + 1 :
          /\ next'[chain'[b][i]] = IF i = n + 1 THEN NULL ELSE chain'[b][i + 1]
          /\ prev'[chain'[b][i]] = IF i = 1 THEN NULL ELSE chain'[b][i - 1]
    <3>1. CASE n = 0
      BY <1>1, <1>3, <1>7, <3>1
    <3>2. CASE n # 0
      <4>1. \A i \in 1 .. n : c[i] # f /\ (c[i] = last[b] <=> i = n)
        BY <1>1, <1>5, <1>6, <3>2 DEF Apart
      <4>2. \A i \in 1 .. n : /\ next[c[i]] = IF i = n THEN NULL ELSE c[i + 1]
                              /\ prev[c[i]] = IF i = 1 THEN NULL ELSE c[i - 1]
        BY <1>1 DEF WellLinked
      <4>3. ASSUME NEW i \in 1 .. n
            PROVE  /\ next'[chain'[b][i]] = chain'[b][i + 1]
                   /\ prev'[chain'[b][i]] = IF i = 1 THEN NULL ELSE chain'[b][i - 1]
        <5>1. c[i] \in Flows /\ c[i] # f /\ chain'[b][i] = c[i]
          BY <1>1, <1>3, <4>1
        <5>3. i # 1 => chain'[b][i - 1] = c[i - 1]
          <6>1. i # 1 => i - 1 \in 1 .. n
            BY <1>1
          <6> QED
            BY <1>3, <6>1
        <5>2. chain'[b][i + 1] = IF i = n THEN f ELSE c[i + 1]
          <6>1. CASE i = n
            BY <1>3, <6>1
          <6>2. CASE i # n
            <7>1. i + 1 \in 1 .. n
              BY <1>1, <6>2
            <7> QED
              BY <1>3, <6>2, <7>1
          <6> QED
            BY <6>1, <6>2
        <5> QED
          BY <1>7, <3>2, <4>1, <4>2, <5>1, <5>2, <5>3
      <4>4. next'[f] = NULL /\ prev'[f] = chain'[b][n]
        BY <1>1, <1>3, <1>6, <1>7, <3>2
      <4>5. \A i \in 1 .. n + 1 : i \in 1 .. n \/ i = n + 1
        BY <1>1
      <4>6. n + 1 - 1 = n /\ n + 1 # 1 /\ \A i \in 1 .. n : i # n + 1
        BY <1>1, <3>2
      <4> QED
        BY <1>3, <4>3, <4>4, <4>5, <4>6
    <3> QED
      BY <3>1, <3>2
  <2>5. chain'[b] # <<>>
    BY <1>1, <1>3, EmptySeq
  <2>6. ASSUME NEW d \in Buckets
        PROVE  LET e == chain'[d] IN
               /\ elm_cnt'[d] = Len(e)
               /\ first'[d] = IF e = <<>> THEN NULL ELSE e[1]
               /\ last'[d] = IF e = <<>> THEN NULL ELSE e[Len(e)]
               /\ \A i \in DOMAIN e :
                    /\ next'[e[i]] = IF i = Len(e) THEN NULL ELSE e[i + 1]
                    /\ prev'[e[i]] = IF i = 1 THEN NULL ELSE e[i - 1]
    <3>1. CASE d = b
      <4>1. \A i \in DOMAIN chain'[b] :
              /\ next'[chain'[b][i]] = IF i = Len(chain'[b]) THEN NULL ELSE chain'[b][i + 1]
              /\ prev'[chain'[b][i]] = IF i = 1 THEN NULL ELSE chain'[b][i - 1]
        BY <1>3, <2>4
      <4>2. /\ elm_cnt'[b] = Len(chain'[b]) /\ first'[b] = chain'[b][1]
            /\ last'[b] = chain'[b][Len(chain'[b])]
        BY <1>3, <2>3
      <4> QED
        BY <2>5, <3>1, <4>1, <4>2
    <3>2. CASE d # b
      BY <1>2, <2>1, <2>2, <3>2, OtherLists
    <3> QED
      BY <3>1, <3>2
  <2> QED
    BY <2>6 DEF WellLinked
<1>13. /\ first' \in [Buckets -> Flows \cup {NULL}]
       /\ last' \in [Buckets -> Flows \cup {NULL}]
       /\ elm_cnt' \in [Buckets -> Nat]
  BY DEF AppendTo, TypeOK
<1>14. /\ next' \in [Flows -> Flows \cup {NULL}]
       /\ prev' \in [Flows -> Flows \cup {NULL}]
  BY <1>6 DEF AppendTo, TypeOK
<1> QED
  BY <1>2, <1>3, <1>4, <1>8, <1>9, <1>10, <1>11, <1>13, <1>14

\* The four cases of flow_hash_delete are one: the neighbours of the flow, and
\* the bucket at either end of the list, are linked past it.
LEMMA Bypass ==
  ASSUME Lists, NEW b \in Buckets, NEW k \in 1 .. Len(chain[b]),
         NEW f \in Flows, chain[b][k] = f, Unlink(f)
  PROVE  LET c == chain[b]
             n == Len(c) IN
         /\ hmb[f] = b
         /\ chain' = [chain EXCEPT ![b] = Without(c, k)]
         /\ elm_cnt' = [elm_cnt EXCEPT ![b] = n - 1]
         /\ first' = [first EXCEPT ![b] = IF k = 1 THEN next[f] ELSE @]
         /\ last' = [last EXCEPT ![b] = IF k = n THEN prev[f] ELSE @]
         /\ next' \in [Flows -> Flows \cup {NULL}]
         /\ prev' \in [Flows -> Flows \cup {NULL}]
         /\ \A g \in Flows :
              /\ next'[g] = IF g = f THEN NULL
                            ELSE IF k # 1 /\ g = c[k - 1] THEN next[f] ELSE next[g]
              /\ prev'[g] = IF g = f THEN NULL
                            ELSE IF k # n /\ g = c[k + 1] THEN prev[f] ELSE prev[g]
         /\ next[f] = IF k = n THEN NULL ELSE c[k + 1]
         /\ prev[f] = IF k = 1 THEN NULL ELSE c[k - 1]
<1> USE DEF Lists
<1> DEFINE c == chain[b]
<1> DEFINE n == Len(c)
<1>1. /\ c \in Seq(Flows) /\ n \in Nat /\ DOMAIN c = 1 .. n
      /\ \A i \in 1 .. n : c[i] \in Flows
  BY Chains
<1>2. hmb[f] = b
  BY <1>1 DEF Home
<1>3. \A j \in DOMAIN c : c[j] = f => j = k
  BY <1>1 DEF Apart
<1>4. chain' = [chain EXCEPT ![b] = Without(c, k)]
  BY <1>2, <1>3 DEF Unlink
<1>5. elm_cnt[b] = n /\ elm_cnt' = [elm_cnt EXCEPT ![b] = n - 1]
  BY <1>2 DEF Unlink, WellLinked
<1>6. /\ next[f] = IF k = n THEN NULL ELSE c[k + 1]
      /\ prev[f] = IF k = 1 THEN NULL ELSE c[k - 1]
  BY <1>1 DEF WellLinked
<1>7. /\ k # n => k + 1 \in 1 .. n /\ c[k + 1] \in Flows /\ c[k + 1] # f /\ c[k + 1] # NULL
      /\ k # 1 => k - 1 \in 1 .. n /\ c[k - 1] \in Flows /\ c[k - 1] # f /\ c[k - 1] # NULL
  <2>1. (k # n => k + 1 \in 1 .. n) /\ (k # 1 => k - 1 \in 1 .. n)
    BY <1>1
  <2> QED
    BY <1>1, <1>3, <2>1, HashTableAssumption
<1>8. k = 1 <=> f = first[b]
  <2>1. c # <<>> /\ 1 \in 1 .. n
    BY <1>1
  <2>2. first[b] = c[1]
    BY <2>1 DEF WellLinked
  <2> QED
    BY <1>1, <1>3, <2>1, <2>2
<1>9. /\ first \in [Buckets -> Flows \cup {NULL}] /\ last \in [Buckets -> Flows \cup {NULL}]
      /\ next \in [Flows -> Flows \cup {NULL}] /\ prev \in [Flows -> Flows \cup {NULL}]
  BY DEF TypeOK
<1> DEFINE Links ==
      /\ first' = [first EXCEPT ![b] = IF k = 1 THEN next[f] ELSE @]
      /\ last' = [last EXCEPT ![b] = IF k = n THEN prev[f] ELSE @]
      /\ next' \in [Flows -> Flows \cup {NULL}]
      /\ prev' \in [Flows -> Flows \cup {NULL}]
      /\ \A g \in Flows :
           /\ next'[g] = IF g = f THEN NULL
                         ELSE IF k # 1 /\ g = c[k - 1] THEN next[f] ELSE next[g]
           /\ prev'[g] = IF g = f THEN NULL
                         ELSE IF k # n /\ g = c[k + 1] THEN prev[f] ELSE prev[g]
<1>10. ASSUME UnlinkOnly(f, b) PROVE Links
  <2>1. n = 1 /\ k = 1
    BY <1>5, <1>10 DEF UnlinkOnly
  <2> QED
    BY <1>6, <1>9, <1>10, <2>1 DEF UnlinkOnly
<1>11. ASSUME UnlinkFirst(f, b) PROVE Links
  <2>1. k = 1 /\ n # 1
    BY <1>5, <1>6, <1>7, <1>8, <1>11 DEF UnlinkFirst
  <2>2. next[f] = c[k + 1] /\ prev[f] = NULL
    BY <1>6, <2>1
  <2> QED
    BY <1>7, <1>9, <1>11, <2>1, <2>2 DEF UnlinkFirst
<1>12. ASSUME UnlinkLast(f, b) PROVE Links
  <2>1. k # 1 /\ k = n
    BY <1>6, <1>7, <1>12 DEF UnlinkLast
  <2>2. prev[f] = c[k - 1] /\ next[f] = NULL
    BY <1>6, <2>1
  <2> QED
    BY <1>7, <1>9, <1>12, <2>1, <2>2 DEF UnlinkLast
<1>13. ASSUME UnlinkMiddle(f, b) PROVE Links
  <2>1. k # 1 /\ k # n
    BY <1>6, <1>13 DEF UnlinkMiddle
  <2>2. prev[f] = c[k - 1] /\ next[f] = c[k + 1]
    BY <1>6, <2>1
  <2> QED
    BY <1>7, <1>9, <1>13, <2>1, <2>2 DEF UnlinkMiddle
<1>14. Links
  BY <1>2, <1>10, <1>11, <1>12, <1>13 DEF Unlink
<1> QED
  BY <1>2, <1>4, <1>5, <1>6, <1>14

\* flow_hash_delete keeps every list a list and takes one flow out of one of them.
LEMMA Deletion ==
  ASSUME Lists, NEW f \in Flows, f \in Linked, Unlink(f)
  PROVE  /\ hmb[f] \in Buckets
         /\ chain' \in [Buckets -> Seq(Flows)]
         /\ \A d \in Buckets : d # hmb[f] => chain'[d] = chain[d]
         /\ \A d \in Buckets : \A g \in Flows :
              g # f /\ Among(g, chain[d]) => Among(g, chain'[d])
         /\ Linked' = Linked \ {f}
         /\ WellLinked' /\ Apart' /\ Home'
         /\ first' \in [Buckets -> Flows \cup {NULL}]
         /\ last' \in [Buckets -> Flows \cup {NULL}]
         /\ next' \in [Flows -> Flows \cup {NULL}]
         /\ prev' \in [Flows -> Flows \cup {NULL}]
         /\ elm_cnt' \in [Buckets -> Nat]
<1> USE DEF Lists
<1>1. PICK b \in Buckets : \E i \in DOMAIN chain[b] : chain[b][i] = f
  BY DEF Linked
<1>2. PICK k \in DOMAIN chain[b] : chain[b][k] = f
  BY <1>1
<1> DEFINE c == chain[b]
<1> DEFINE n == Len(c)
<1>3. /\ c \in Seq(Flows) /\ n \in Nat /\ DOMAIN c = 1 .. n
      /\ \A i \in 1 .. n : c[i] \in Flows
  BY Chains
<1>4. k \in 1 .. n /\ n \in Nat \ {0} /\ n - 1 \in Nat
  BY <1>3
<1>5. /\ hmb[f] = b
      /\ chain' = [chain EXCEPT ![b] = Without(c, k)]
      /\ elm_cnt' = [elm_cnt EXCEPT ![b] = n - 1]
      /\ first' = [first EXCEPT ![b] = IF k = 1 THEN next[f] ELSE @]
      /\ last' = [last EXCEPT ![b] = IF k = n THEN prev[f] ELSE @]
      /\ next' \in [Flows -> Flows \cup {NULL}]
      /\ prev' \in [Flows -> Flows \cup {NULL}]
      /\ \A g \in Flows :
           /\ next'[g] = IF g = f THEN NULL
                         ELSE IF k # 1 /\ g = c[k - 1] THEN next[f] ELSE next[g]
           /\ prev'[g] = IF g = f THEN NULL
                         ELSE IF k # n /\ g = c[k + 1] THEN prev[f] ELSE prev[g]
      /\ next[f] = IF k = n THEN NULL ELSE c[k + 1]
      /\ prev[f] = IF k = 1 THEN NULL ELSE c[k - 1]
  BY <1>2, <1>4, Bypass
<1> DEFINE e == chain'[b]
<1>6. /\ e \in Seq(Flows) /\ Len(e) = n - 1 /\ DOMAIN e = 1 .. n - 1
      /\ \A i \in 1 .. n - 1 : e[i] = IF i < k THEN c[i] ELSE c[i + 1]
      /\ \A d \in Buckets : d # b => chain'[d] = chain[d]
  <2>1. chain'[b] = Without(c, k) /\ \A d \in Buckets : d # b => chain'[d] = chain[d]
    BY <1>5 DEF TypeOK
  <2> QED
    BY <1>3, <1>4, <2>1, WithoutProperties, LenProperties
<1>7. chain' \in [Buckets -> Seq(Flows)]
  BY <1>5, <1>6 DEF TypeOK
<1>8. ASSUME NEW d \in Buckets, NEW i \in DOMAIN chain'[d]
      PROVE  \E j \in DOMAIN chain[d] :
               /\ chain'[d][i] = chain[d][j] /\ chain[d][j] # f
               /\ j = IF d = b /\ i >= k THEN i + 1 ELSE i
  <2>1. CASE d = b
    <3>1. i \in 1 .. n - 1 /\ i \in 1 .. n /\ i + 1 \in 1 .. n
      BY <1>3, <1>6, <2>1
    <3>2. CASE i < k
      <4>1. e[i] = c[i]
        BY <1>6, <3>1, <3>2
      <4>2. c[i] # f
        BY <1>2, <1>3, <1>4, <3>1, <3>2 DEF Apart
      <4> QED
        BY <1>3, <1>4, <2>1, <3>1, <3>2, <4>1, <4>2
    <3>3. CASE ~ (i < k)
      <4>1. e[i] = c[i + 1] /\ i + 1 # k
        BY <1>4, <1>6, <3>1, <3>3
      <4>2. c[i + 1] # f
        BY <1>2, <1>3, <3>1, <4>1 DEF Apart
      <4> QED
        BY <1>3, <1>4, <2>1, <3>1, <3>3, <4>1, <4>2
    <3> QED
      BY <3>2, <3>3
  <2>2. CASE d # b
    <3>1. chain'[d] = chain[d] /\ \A j \in DOMAIN chain[d] : chain[d][j] # f
      BY <1>2, <1>6, <2>2 DEF Apart
    <3> QED
      BY <2>2, <3>1
  <2> QED
    BY <2>1, <2>2
<1>9. Apart'
  <2>1. ASSUME NEW d \in Buckets, NEW g \in Buckets,
               NEW i \in DOMAIN chain'[d], NEW j \in DOMAIN chain'[g],
               chain'[d][i] = chain'[g][j]
        PROVE  d = g /\ i = j
    <3>1. PICK p \in DOMAIN chain[d] :
            chain'[d][i] = chain[d][p] /\ p = IF d = b /\ i >= k THEN i + 1 ELSE i
      BY <1>8
    <3>2. PICK q \in DOMAIN chain[g] :
            chain'[g][j] = chain[g][q] /\ q = IF g = b /\ j >= k THEN j + 1 ELSE j
      BY <1>8
    <3>3. d = g /\ p = q
      <4>1. chain[d][p] = chain[g][q]
        BY <2>1, <3>1, <3>2
      <4> QED
        BY <4>1 DEF Apart
    <3>4. CASE d = b
      <4>1. i \in Int /\ j \in Int
        BY <1>6, <3>3, <3>4
      <4> QED
        BY <1>4, <3>1, <3>2, <3>3, <3>4, <4>1
    <3> QED
      BY <3>1, <3>2, <3>3, <3>4
  <2> QED
    BY <2>1 DEF Apart
<1>10. \A d \in Buckets : \A g \in Flows :
         g # f /\ Among(g, chain[d]) => Among(g, chain'[d])
  <2> SUFFICES ASSUME NEW d \in Buckets, NEW g \in Flows, g # f, g # NULL,
                      NEW j \in DOMAIN chain[d], chain[d][j] = g
               PROVE  \E i \in DOMAIN chain'[d] : chain'[d][i] = g
    BY DEF Among
  <2>1. CASE d # b
    BY <1>6, <2>1
  <2>2. CASE d = b /\ j < k
    <3>1. j \in 1 .. n - 1
      BY <1>3, <1>4, <2>2
    <3>2. j \in DOMAIN e /\ e[j] = c[j]
      BY <1>6, <2>2, <3>1
    <3> HIDE DEF c
    <3> QED
      BY <2>2, <3>2 DEF c
  <2>3. CASE d = b /\ ~ (j < k)
    <3>1. j - 1 \in 1 .. n - 1 /\ ~ (j - 1 < k) /\ j - 1 + 1 = j
      BY <1>2, <1>3, <1>4, <2>3
    <3>2. j - 1 \in DOMAIN e /\ e[j - 1] = c[j]
      BY <1>6, <3>1
    <3> QED
      BY <2>3, <3>2
  <2> QED
    BY <2>1, <2>2, <2>3
<1>11. Linked' = Linked \ {f}
  <2>1. ASSUME NEW g \in Linked' PROVE g \in Linked \ {f}
    <3>1. PICK d \in Buckets : \E i \in DOMAIN chain'[d] : chain'[d][i] = g
      BY DEF Linked
    <3>2. PICK i \in DOMAIN chain'[d] : chain'[d][i] = g
      BY <3>1
    <3> QED
      BY <1>8, <3>2 DEF Linked
  <2>2. ASSUME NEW g \in Linked, g # f PROVE g \in Linked'
    <3>1. PICK d \in Buckets : \E i \in DOMAIN chain[d] : chain[d][i] = g
      BY DEF Linked
    <3>2. g \in Flows /\ g # NULL
      BY HashTableAssumption DEF Linked
    <3>3. Among(g, chain'[d])
      BY <1>10, <2>2, <3>1, <3>2 DEF Among
    <3> QED
      BY <3>2, <3>3 DEF Linked, Among
  <2> QED
    BY <2>1, <2>2
<1>12. Home'
  <2>1. UNCHANGED <<hmb, socket>>
    BY DEF Unlink
  <2> QED
    BY <1>8, <2>1 DEF Home
<1>13. WellLinked'
  <2>1. ASSUME NEW d \in Buckets, d # b
        PROVE  /\ elm_cnt'[d] = elm_cnt[d] /\ first'[d] = first[d] /\ last'[d] = last[d]
               /\ \A g \in Flows : (\A i \in 1 .. Len(chain[d]) : chain[d][i] # g)
                                    \/ (next'[g] = next[g] /\ prev'[g] = prev[g])
    <3>1. \A j \in 1 .. n : \A i \in 1 .. Len(chain[d]) : chain[d][i] # c[j]
      BY <1>3, <2>1, Chains DEF Apart
    <3>2. (k # n => k + 1 \in 1 .. n) /\ (k # 1 => k - 1 \in 1 .. n)
      BY <1>4
    <3>3. \A g \in Flows : (\A i \in 1 .. Len(chain[d]) : chain[d][i] # g)
                                    \/ (next'[g] = next[g] /\ prev'[g] = prev[g])
      BY <1>2, <1>4, <1>5, <3>1, <3>2
    <3> QED
      BY <1>5, <2>1, <3>3 DEF TypeOK
  <2>2. /\ elm_cnt'[b] = n - 1
        /\ first'[b] = IF n = 1 THEN NULL ELSE e[1]
        /\ last'[b] = IF n = 1 THEN NULL ELSE e[n - 1]
    <3>1. c # <<>> /\ first[b] = c[1] /\ last[b] = c[n]
      BY <1>3, <1>4 DEF WellLinked
    <3>2. n # 1 => 1 \in 1 .. n - 1 /\ n - 1 \in 1 .. n - 1
      <4>1. n >= 1 /\ n \in Int
        BY <1>4
      <4> HIDE DEF n
      <4> QED
        BY <4>1
    <3>3. n # 1 => e[1] = (IF k = 1 THEN c[2] ELSE c[1])
      BY <1>4, <1>6, <3>2
    <3>4. n # 1 => e[n - 1] = (IF k = n THEN c[n - 1] ELSE c[n])
      BY <1>4, <1>6, <3>2
    <3>5. first'[b] = IF k = 1 THEN next[f] ELSE first[b]
      BY <1>5 DEF TypeOK
    <3>6. last'[b] = IF k = n THEN prev[f] ELSE last[b]
      BY <1>5 DEF TypeOK
    <3>7. elm_cnt'[b] = n - 1
      BY <1>5 DEF TypeOK
    <3>8. next[f] = (IF n = 1 THEN NULL ELSE c[2]) \/ k # 1
      <4>1. k = 1 => k + 1 = 2
        OBVIOUS
      <4> QED
        BY <1>5, <4>1
    <3>9. prev[f] = (IF n = 1 THEN NULL ELSE c[n - 1]) \/ k # n
      BY <1>4, <1>5
    <3>10. n = 1 => k = 1
      BY <1>4
    <3> QED
      BY <1>4, <3>1, <3>3, <3>4, <3>5, <3>6, <3>7, <3>8, <3>9, <3>10
  <2>3. ASSUME NEW i \in 1 .. n - 1
        PROVE  /\ next'[e[i]] = IF i = n - 1 THEN NULL ELSE e[i + 1]
               /\ prev'[e[i]] = IF i = 1 THEN NULL ELSE e[i - 1]
    <3>1. \A j \in 1 .. n : /\ next[c[j]] = IF j = n THEN NULL ELSE c[j + 1]
                            /\ prev[c[j]] = IF j = 1 THEN NULL ELSE c[j - 1]
      <4>1. \A j \in DOMAIN chain[b] :
              /\ next[chain[b][j]] = IF j = Len(chain[b]) THEN NULL ELSE chain[b][j + 1]
              /\ prev[chain[b][j]] = IF j = 1 THEN NULL ELSE chain[b][j - 1]
        BY DEF WellLinked
      <4> QED
        BY <1>3, <4>1
    <3>2. \A j, l \in 1 .. n : c[j] = c[l] => j = l
      BY <1>3 DEF Apart
    <3>3. /\ i # n - 1 => e[i + 1] = IF i + 1 < k THEN c[i + 1] ELSE c[i + 2]
          /\ i # 1 => e[i - 1] = IF i - 1 < k THEN c[i - 1] ELSE c[i]
      <4>1. (i # n - 1 => i + 1 \in 1 .. n - 1) /\ (i # 1 => i - 1 \in 1 .. n - 1)
        BY <1>4
      <4>2. i + 1 + 1 = i + 2 /\ i - 1 + 1 = i
        OBVIOUS
      <4> QED
        BY <1>6, <4>1, <4>2
    <3> DEFINE j == IF i < k THEN i ELSE i + 1
    <3>4. e[i] = c[j] /\ j \in 1 .. n /\ j # k /\ c[j] \in Flows /\ c[j] # f
      <4>1. e[i] = c[j]
        BY <1>6
      <4>2. j \in 1 .. n /\ j # k
        BY <1>4
      <4> QED
        BY <1>2, <1>3, <1>4, <3>2, <4>1, <4>2
    <3>5. /\ next'[c[j]] = IF j = k - 1 THEN next[f] ELSE next[c[j]]
          /\ prev'[c[j]] = IF j = k + 1 THEN prev[f] ELSE prev[c[j]]
      <4>1. (k # n => k + 1 \in 1 .. n) /\ (k # 1 => k - 1 \in 1 .. n)
        BY <1>4
      <4>2. (k # 1 /\ c[j] = c[k - 1]) <=> j = k - 1
        BY <1>4, <3>2, <3>4, <4>1
      <4>3. (k # n /\ c[j] = c[k + 1]) <=> j = k + 1
        BY <1>4, <3>2, <3>4, <4>1
      <4> QED
        BY <1>5, <3>4, <4>2, <4>3
    <3>6. next'[e[i]] = IF i = n - 1 THEN NULL ELSE e[i + 1]
      <4>1. CASE i < k
        <5>1. j = i /\ next[c[i]] = c[i + 1]
          BY <1>4, <3>1, <3>4, <4>1
        <5>2. i = k - 1 => next[f] = (IF i = n - 1 THEN NULL ELSE c[i + 2])
          <6>1. i = k - 1 => (k = n <=> i = n - 1) /\ k + 1 = i + 2
            BY <1>4
          <6> QED
            BY <1>5, <6>1
        <5> QED
          BY <1>4, <3>3, <3>4, <3>5, <4>1, <5>1, <5>2
      <4>2. CASE ~ (i < k)
        <5>1. j = i + 1 /\ j # k - 1 /\ j + 1 = i + 2 /\ (j = n <=> i = n - 1)
          BY <1>4, <4>2
        <5> QED
          BY <1>4, <3>1, <3>3, <3>4, <3>5, <4>2, <5>1
      <4> QED
        BY <4>1, <4>2
    <3>7. prev'[e[i]] = IF i = 1 THEN NULL ELSE e[i - 1]
      <4>1. CASE i < k
        <5>1. j = i /\ j # k + 1 /\ i - 1 < k
          BY <1>4, <4>1
        <5> QED
          BY <1>4, <3>1, <3>3, <3>4, <3>5, <4>1, <5>1
      <4>2. CASE ~ (i < k)
        <5>1. j = i + 1 /\ j - 1 = i /\ j # 1
          BY <1>4, <4>2
        <5>2. prev[c[j]] = c[i]
          BY <3>1, <3>4, <5>1
        <5>3. i = k => prev'[e[i]] = (IF i = 1 THEN NULL ELSE c[i - 1])
          BY <1>5, <3>4, <3>5, <5>1
        <5>4. i # k => prev'[e[i]] = c[i]
          BY <1>4, <3>4, <3>5, <5>1, <5>2
        <5>5. i # k => i # 1 /\ ~ (i - 1 < k)
          BY <1>4, <4>2
        <5>6. i = k => i - 1 < k
          BY <1>4
        <5> QED
          BY <3>3, <5>3, <5>4, <5>5, <5>6
      <4> QED
        BY <4>1, <4>2
    <3> QED
      BY <3>6, <3>7
  <2>4. e = <<>> <=> n = 1
    <3>1. e = <<>> <=> Len(e) = 0
      BY <1>6, EmptySeq, LenProperties
    <3> QED
      BY <1>4, <1>6, <3>1
  <2>5. ASSUME NEW d \in Buckets
        PROVE  LET l == chain'[d] IN
               /\ elm_cnt'[d] = Len(l)
               /\ first'[d] = IF l = <<>> THEN NULL ELSE l[1]
               /\ last'[d] = IF l = <<>> THEN NULL ELSE l[Len(l)]
               /\ \A i \in DOMAIN l :
                    /\ next'[l[i]] = IF i = Len(l) THEN NULL ELSE l[i + 1]
                    /\ prev'[l[i]] = IF i = 1 THEN NULL ELSE l[i - 1]
    <3>1. CASE d = b
      <4>1. \A i \in DOMAIN e :
              /\ next'[e[i]] = IF i = Len(e) THEN NULL ELSE e[i + 1]
              /\ prev'[e[i]] = IF i = 1 THEN NULL ELSE e[i - 1]
        BY <1>6, <2>3
      <4>2. /\ elm_cnt'[b] = Len(e)
            /\ first'[b] = IF e = <<>> THEN NULL ELSE e[1]
            /\ last'[b] = IF e = <<>> THEN NULL ELSE e[Len(e)]
        BY <1>6, <2>2, <2>4
      <4> QED
        BY <3>1, <4>1, <4>2
    <3>2. CASE d # b
      BY <1>6, <2>1, <3>2, OtherLists
    <3> QED
      BY <3>1, <3>2
  <2> QED
    BY <2>5 DEF WellLinked
<1>14. /\ first' \in [Buckets -> Flows \cup {NULL}]
       /\ last' \in [Buckets -> Flows \cup {NULL}]
       /\ elm_cnt' \in [Buckets -> Nat]
  <2>1. next[f] \in Flows \cup {NULL} /\ prev[f] \in Flows \cup {NULL}
    BY DEF TypeOK
  <2> QED
    BY <1>4, <1>5, <2>1 DEF TypeOK
<1> QED
  BY <1>5, <1>6, <1>7, <1>9, <1>10, <1>11, <1>12, <1>13, <1>14

-----------------------------------------------------------------------------
\* The steps that leave the lists as they are.
Outside ==
  \/ \E s \in Sockets : Arrive(s)
  \/ FindLock \/ WalkOn \/ WalkHit \/ WalkMiss \/ Again \/ Unknown
  \/ AddLock \/ AddKeep \/ AddDeleteAgain \/ Unlock
  \/ ScrubLock \/ ScrubLook \/ ScrubNext \/ ScrubUnlock
  \/ \E t \in Threads : CountRead(t) \/ CountWrite(t)
  \/ UNCHANGED vars

\* Each step leaves the lists alone, makes a flow, or deletes one.
LEMMA Steps ==
  ASSUME [Next]_vars
  PROVE  Outside \/ (\E f \in Flows : New(f)) \/ AddDelete \/ ScrubDelete
BY DEF Next, PacketStep, Lookup, ScrubStep, Count, Stop, Outside

\* Nothing that describes the lists changes in these steps.
LEMMA OutsideFrame ==
  ASSUME Outside
  PROVE  UNCHANGED <<first, last, elm_cnt, next, prev, hmb, socket, chain>>
BY DEF Outside, Arrive, FindLock, WalkOn, WalkHit, WalkMiss, Again, Unknown, Return,
       AddLock, AddKeep, AddDeleteAgain, Unlock, ScrubLock, ScrubLook, ScrubNext,
       ScrubUnlock, CountRead, CountWrite, block, fields, vars

\* What flow_hash_new is given, and what it does.
LEMMA NewFlow ==
  ASSUME IInv, NEW f \in Flows, New(f)
  PROVE  /\ packet \in Sockets /\ Hash[packet] \in Buckets /\ f \notin Linked
         /\ mutex[Hash[packet]] = None
         /\ AppendTo(f, Hash[packet]) /\ socket' = [socket EXCEPT ![f] = packet]
<1>1. pc["packet"] = "new" /\ f \notin Linked
  BY DEF New, At
<1>2. packet \in Sockets
  BY <1>1 DEF IInv, Walking
<1> QED
  BY <1>1, <1>2, HashTableAssumption DEF New, Acquire

\* The flow that the scrubber deletes is in the list that it has locked.
LEMMA ScrubbedFlow ==
  ASSUME IInv, ScrubDelete
  PROVE  flow \in Flows /\ flow \in Linked /\ hmb[flow] = bucket /\ Unlink(flow)
<1>1. flow \in Flows /\ Among(flow, chain[bucket])
  BY DEF IInv, ScrubDelete, At, Scrubbing
<1>2. PICK i \in DOMAIN chain[bucket] : chain[bucket][i] = flow
  BY <1>1, HashTableAssumption DEF Among
<1>3. bucket \in Buckets
  BY DEF IInv, TypeOK
<1> QED
  BY <1>1, <1>2, <1>3 DEF ScrubDelete, IInv, Home, Linked

\* The table starts empty, with both threads outside of it.
LEMMA InvInit == Init => IInv
<1> SUFFICES ASSUME Init PROVE IInv
  OBVIOUS
<1> USE HashTableAssumption DEF Init
<1>1. 0 \in Buckets
  BY DEF Buckets
<1>2. TypeOK
  <2>1. /\ pc \in [Threads -> PacketAt \cup ScrubAt]
        /\ pc["packet"] \in PacketAt /\ pc["scrub"] \in ScrubAt
    BY DEF PacketAt, ScrubAt, Threads
  <2>2. <<>> \in Seq(Flows)
    BY EmptySeq
  <2>3. chain \in [Buckets -> Seq(Flows)]
    BY <2>2
  <2>4. /\ first \in [Buckets -> Flows \cup {NULL}] /\ last \in [Buckets -> Flows \cup {NULL}]
        /\ elm_cnt \in [Buckets -> Nat]
        /\ mutex \in [Buckets -> Threads \cup {None}]
    OBVIOUS
  <2>5. /\ next \in [Flows -> Flows \cup {NULL}] /\ prev \in [Flows -> Flows \cup {NULL}]
        /\ hmb \in [Flows -> Buckets \cup {NULL}]
        /\ socket \in [Flows -> Sockets \cup {None}]
    OBVIOUS
  <2>6. flow_cnt \in Int /\ reg \in [Threads -> Int] /\ bucket \in Buckets
    BY <1>1
  <2>7. /\ packet \in Sockets \cup {None} /\ sought \in Sockets \cup {None}
        /\ cur \in Flows \cup {NULL} /\ found \in Flows \cup {NULL, None}
        /\ flow \in Flows \cup {NULL} /\ flow_next \in Flows \cup {NULL}
        /\ raced \in BOOLEAN
    OBVIOUS
  <2> HIDE DEF Init
  <2> QED
    BY <2>1, <2>3, <2>4, <2>5, <2>6, <2>7 DEF TypeOK
<1>3. \A b \in Buckets : chain[b] = <<>> /\ Len(chain[b]) = 0 /\ DOMAIN chain[b] = {}
  OBVIOUS
<1>4. WellLinked /\ Apart /\ Home
  BY <1>3 DEF WellLinked, Apart, Home
<1>5. Exclusion
  BY DEF Exclusion, PacketHolds, ScrubHolds, At, InAdd, InScan, Threads
<1>6. Walking /\ Scrubbing
  BY DEF Walking, Scrubbing, InAdd, Threads
<1>7. Linked = {}
  BY <1>3 DEF Linked
<1>8. CountExact
  BY <1>7, FS_EmptySet DEF CountExact, Pending, Changing, Threads
<1> QED
  BY <1>2, <1>4, <1>5, <1>6, <1>8 DEF IInv

\* The lists stay lists.
LEMMA ListsNext == IInv /\ [Next]_vars => WellLinked' /\ Apart' /\ Home'
<1> SUFFICES ASSUME IInv, [Next]_vars PROVE WellLinked' /\ Apart' /\ Home'
  OBVIOUS
<1>0. Lists
  BY DEF IInv, Lists
<1>1. CASE Outside
  BY <1>0, <1>1, OutsideFrame DEF Lists, WellLinked, Apart, Home
<1>2. ASSUME NEW f \in Flows, New(f) PROVE WellLinked' /\ Apart' /\ Home'
  BY <1>0, <1>2, NewFlow, Insertion
<1>3. CASE AddDelete
  <2>1. cur \in Flows /\ cur \in Linked /\ Unlink(cur)
    BY <1>3 DEF AddDelete, Linked
  <2> QED
    BY <1>0, <2>1, Deletion
<1>4. CASE ScrubDelete
  BY <1>0, <1>4, ScrubbedFlow, Deletion
<1> QED
  BY <1>1, <1>2, <1>3, <1>4, Steps

\* The type of every variable is preserved by every step.
LEMMA TypeNext == IInv /\ [Next]_vars => TypeOK'
<1> SUFFICES ASSUME IInv, [Next]_vars PROVE TypeOK'
  OBVIOUS
<1>0. Lists /\ TypeOK
  BY DEF IInv, Lists
<1> USE DEF Goto, At, Acquire, Release, Threads, PacketAt, ScrubAt, count, worker, scrub
<1>1. ASSUME NEW s \in Sockets, Arrive(s) PROVE TypeOK'
  BY <1>0, <1>1, HashTableAssumption DEF TypeOK, Arrive, block, fields
<1>2. CASE FindLock
  <2>1. sought \in Sockets /\ Hash[sought] \in Buckets
    BY <1>2, HashTableAssumption DEF IInv, Walking, FindLock
  <2> QED
    BY <1>0, <1>2, <2>1 DEF TypeOK, FindLock, block, fields
<1>3. CASE WalkOn
  BY <1>0, <1>3 DEF TypeOK, WalkOn, block, fields
<1>4. CASE WalkHit \/ WalkMiss
  BY <1>0, <1>4 DEF TypeOK, WalkHit, WalkMiss, block, fields
<1>5. CASE Again \/ Unknown
  BY <1>0, <1>5 DEF TypeOK, Again, Unknown, Return, block, fields
<1>6. ASSUME NEW f \in Flows, New(f) PROVE TypeOK'
  <2>1. /\ packet \in Sockets /\ Hash[packet] \in Buckets /\ f \notin Linked
        /\ AppendTo(f, Hash[packet]) /\ socket' = [socket EXCEPT ![f] = packet]
    BY <1>6, NewFlow
  <2>2. /\ chain' \in [Buckets -> Seq(Flows)]
        /\ first' \in [Buckets -> Flows \cup {NULL}]
        /\ last' \in [Buckets -> Flows \cup {NULL}]
        /\ next' \in [Flows -> Flows \cup {NULL}]
        /\ prev' \in [Flows -> Flows \cup {NULL}]
        /\ elm_cnt' \in [Buckets -> Nat]
    BY <1>0, <2>1, Insertion
  <2>3. hmb' = [hmb EXCEPT ![f] = Hash[packet]]
    BY <2>1 DEF AppendTo
  <2>4. /\ UNCHANGED <<flow_cnt, reg, raced, packet, sought, found, bucket, flow, flow_next>>
        /\ pc' = [pc EXCEPT !["packet"] = "inc"] /\ cur' = f
        /\ mutex' = [mutex EXCEPT ![Hash[packet]] = "packet"]
    BY <1>6 DEF New
  <2>5. /\ hmb' \in [Flows -> Buckets \cup {NULL}]
        /\ socket' \in [Flows -> Sockets \cup {None}]
        /\ mutex' \in [Buckets -> Threads \cup {None}]
    BY <1>0, <2>1, <2>3, <2>4 DEF TypeOK
  <2>6. /\ pc' \in [Threads -> PacketAt \cup ScrubAt]
        /\ pc'["packet"] \in PacketAt /\ pc'["scrub"] \in ScrubAt
    BY <1>0, <2>4 DEF TypeOK
  <2> QED
    BY <1>0, <2>2, <2>4, <2>5, <2>6 DEF TypeOK
<1>7. CASE AddLock \/ AddKeep \/ AddDeleteAgain
  BY <1>0, <1>7 DEF TypeOK, AddLock, AddKeep, AddDeleteAgain, block, fields
<1>8. CASE Unlock
  BY <1>0, <1>8 DEF TypeOK, Unlock, Return, block, fields
<1>9. CASE AddDelete \/ ScrubDelete
  <2>1. PICK f \in Flows : f \in Linked /\ Unlink(f)
    BY <1>9, ScrubbedFlow DEF AddDelete, Linked
  <2>2. /\ chain' \in [Buckets -> Seq(Flows)]
        /\ first' \in [Buckets -> Flows \cup {NULL}]
        /\ last' \in [Buckets -> Flows \cup {NULL}]
        /\ next' \in [Flows -> Flows \cup {NULL}]
        /\ prev' \in [Flows -> Flows \cup {NULL}]
        /\ elm_cnt' \in [Buckets -> Nat]
    BY <1>0, <2>1, Deletion
  <2>3. UNCHANGED <<hmb, socket>>
    BY <2>1 DEF Unlink
  <2>4. UNCHANGED <<mutex, count, worker, scrub>>
    BY <1>9 DEF AddDelete, ScrubDelete
  <2>5. pc' = [pc EXCEPT !["packet"] = "dec"] \/ pc' = [pc EXCEPT !["scrub"] = "dec"]
    BY <1>9 DEF AddDelete, ScrubDelete
  <2> QED
    BY <1>0, <2>2, <2>3, <2>4, <2>5 DEF TypeOK
<1>10. CASE ScrubLock \/ ScrubNext \/ ScrubUnlock
  <2>2. 0 \in Buckets
    BY HashTableAssumption DEF Buckets
  <2>3. CASE ScrubLock
    BY <1>0, <2>3 DEF TypeOK, ScrubLock, block, fields
  <2>4. CASE ScrubNext
    BY <1>0, <2>4 DEF TypeOK, ScrubNext, block, fields
  <2>5. CASE ScrubUnlock
    <3>1. bucket' \in Buckets
      BY <2>2, <2>5 DEF ScrubUnlock
    <3> QED
      BY <1>0, <2>5, <3>1 DEF TypeOK, ScrubUnlock, block, fields
  <2> QED
    BY <1>10, <2>3, <2>4, <2>5
<1>11. CASE ScrubLook
  BY <1>0, <1>11 DEF TypeOK, ScrubLook, block, fields
<1>12. ASSUME NEW t \in Threads, CountRead(t) PROVE TypeOK'
  BY <1>0, <1>12 DEF TypeOK, CountRead, block, fields, IInv
<1>13. ASSUME NEW t \in Threads, CountWrite(t) PROVE TypeOK'
  BY <1>0, <1>13 DEF TypeOK, CountWrite, Changing, block, fields
<1>14. CASE UNCHANGED vars
  BY <1>0, <1>14 DEF TypeOK, vars, block, fields
<1> QED
  BY <1>1, <1>2, <1>3, <1>4, <1>5, <1>6, <1>7, <1>8, <1>9, <1>10, <1>11, <1>12, <1>13,
     <1>14, Steps DEF Outside

\* Where a thread may be decides what it holds.
LEMMA Holders ==
  ASSUME IInv
  PROVE  /\ \A b \in Buckets : PacketHolds(b) => mutex[b] = "packet"
         /\ pc["scrub"] \in InScan => mutex[bucket] = "scrub" /\ bucket \in Buckets
         /\ pc["packet"] = "walk" => /\ sought \in Sockets /\ Hash[sought] \in Buckets
                                    /\ mutex[Hash[sought]] = "packet"
         /\ pc["packet"] \in InAdd => hmb[cur] \in Buckets /\ mutex[hmb[cur]] = "packet"
BY HashTableAssumption DEF IInv, TypeOK, Exclusion, PacketHolds, ScrubHolds, Walking, At

\* A bucket has one owner, and it is the thread that walks or changes its list.
LEMMA ExclusionNext == IInv /\ [Next]_vars => Exclusion'
<1> SUFFICES ASSUME IInv, [Next]_vars, NEW b \in Buckets
             PROVE  /\ mutex'[b] = "packet" <=> PacketHolds(b)'
                    /\ mutex'[b] = "scrub" <=> ScrubHolds(b)'
  BY DEF Exclusion
<1>0. /\ mutex[b] = "packet" <=> PacketHolds(b)
      /\ mutex[b] = "scrub" <=> ScrubHolds(b)
      /\ None \notin {"packet", "scrub"}
      /\ mutex \in [Buckets -> Threads \cup {None}]
      /\ pc \in [Threads -> PacketAt \cup ScrubAt]
  BY HashTableAssumption DEF IInv, Exclusion, TypeOK
<1> USE DEF Goto, At, Acquire, Release, Threads, PacketHolds, ScrubHolds, InAdd, InScan,
            count, worker, scrub, fields, block
<1>1. ASSUME NEW s \in Sockets, Arrive(s)
      PROVE  /\ mutex'[b] = "packet" <=> PacketHolds(b)'
             /\ mutex'[b] = "scrub" <=> ScrubHolds(b)'
  BY <1>0, <1>1 DEF Arrive
<1>2. CASE FindLock
  BY <1>0, <1>2 DEF FindLock
<1>3. CASE WalkOn
  BY <1>0, <1>3 DEF WalkOn
<1>4. CASE WalkHit \/ WalkMiss
  BY <1>0, <1>4, Holders DEF WalkHit, WalkMiss
<1>5. CASE Again \/ Unknown
  BY <1>0, <1>5 DEF Again, Unknown, Return
<1>6. ASSUME NEW f \in Flows, New(f)
      PROVE  /\ mutex'[b] = "packet" <=> PacketHolds(b)'
             /\ mutex'[b] = "scrub" <=> ScrubHolds(b)'
  <2>1. hmb' = [hmb EXCEPT ![f] = Hash[packet]] /\ hmb \in [Flows -> Buckets \cup {NULL}]
    BY <1>6 DEF New, AppendTo, IInv, TypeOK
  <2>2. /\ pc' = [pc EXCEPT !["packet"] = "inc"] /\ pc["packet"] = "new" /\ cur' = f
        /\ mutex[Hash[packet]] = None /\ mutex' = [mutex EXCEPT ![Hash[packet]] = "packet"]
        /\ bucket' = bucket
    BY <1>6 DEF New
  <2>3. hmb'[cur'] = Hash[packet]
    BY <2>1, <2>2
  <2> QED
    BY <1>0, <2>2, <2>3
<1>7. CASE AddLock
  BY <1>0, <1>7 DEF AddLock
<1>8. CASE AddKeep \/ AddDeleteAgain
  BY <1>0, <1>8 DEF AddKeep, AddDeleteAgain
<1>9. CASE Unlock
  BY <1>0, <1>9, Holders DEF Unlock, Return
<1>10. CASE AddDelete \/ ScrubDelete
  <2>1. UNCHANGED <<mutex, hmb, cur, bucket, sought>>
    BY <1>10 DEF AddDelete, ScrubDelete, Unlink
  <2> QED
    BY <1>0, <1>10, <2>1 DEF AddDelete, ScrubDelete
<1>11. CASE ScrubLock
  BY <1>0, <1>11 DEF ScrubLock
<1>12. CASE ScrubLook \/ ScrubNext
  BY <1>0, <1>12 DEF ScrubLook, ScrubNext
<1>13. CASE ScrubUnlock
  BY <1>0, <1>13, Holders DEF ScrubUnlock
<1>14. ASSUME NEW t \in Threads, CountRead(t) \/ CountWrite(t)
       PROVE  /\ mutex'[b] = "packet" <=> PacketHolds(b)'
              /\ mutex'[b] = "scrub" <=> ScrubHolds(b)'
  <2>1. UNCHANGED <<mutex, hmb, cur, bucket, sought>>
    BY <1>14 DEF CountRead, CountWrite
  <2>2. pc["scrub"] \in ScrubAt /\ pc["packet"] \in PacketAt
    BY DEF IInv, TypeOK
  <2> QED
    BY <1>0, <1>14, <2>1, <2>2 DEF CountRead, CountWrite, Changing, ScrubAt, PacketAt
<1>15. CASE UNCHANGED vars
  BY <1>0, <1>15 DEF vars
<1> QED
  BY <1>1, <1>2, <1>3, <1>4, <1>5, <1>6, <1>7, <1>8, <1>9, <1>10, <1>11, <1>12, <1>13,
     <1>14, <1>15, Steps DEF Outside

\* A thread that deletes a flow or makes one leaves the list that the other
\* thread has locked, and the links of its flows, as they are.
LEMMA OtherThread ==
  ASSUME IInv, WellLinked', NEW d \in Buckets,
         \/ mutex[d] # "scrub" /\ ScrubDelete
         \/ mutex[d] = "scrub" /\ (AddDelete \/ \E f \in Flows : New(f))
  PROVE  /\ chain'[d] = chain[d]
         /\ \A f \in Flows : Among(f, chain[d]) => next'[f] = next[f]
<1>0. Lists
  BY DEF IInv, Lists
<1>1. chain'[d] = chain[d]
  <2>1. CASE mutex[d] # "scrub" /\ ScrubDelete
    <3>1. hmb[flow] = bucket /\ mutex[bucket] = "scrub"
      BY <2>1, ScrubbedFlow, Holders DEF ScrubDelete, At, InScan
    <3>2. flow \in Flows /\ flow \in Linked /\ Unlink(flow)
      BY <2>1, ScrubbedFlow
    <3>3. d # hmb[flow]
      BY <2>1, <3>1
    <3> QED
      BY <1>0, <3>2, <3>3, Deletion
  <2>2. CASE mutex[d] = "scrub" /\ AddDelete
    <3>1. cur \in Flows /\ cur \in Linked /\ Unlink(cur)
      BY <2>2 DEF AddDelete, Linked
    <3>2. mutex[hmb[cur]] = "packet"
      BY <2>2, Holders DEF AddDelete, At, InAdd
    <3>3. d # hmb[cur]
      BY <2>2, <3>2
    <3> QED
      BY <1>0, <3>1, <3>3, Deletion
  <2>3. ASSUME NEW f \in Flows, New(f), mutex[d] = "scrub" PROVE chain'[d] = chain[d]
    <3>1. mutex[Hash[packet]] = None /\ None # "scrub"
      BY <2>3, NewFlow, HashTableAssumption
    <3> QED
      BY <1>0, <2>3, <3>1, NewFlow, Insertion
  <2> QED
    BY <2>1, <2>2, <2>3
<1>2. ASSUME NEW f \in Flows, Among(f, chain[d]) PROVE next'[f] = next[f]
  <2>1. PICK i \in DOMAIN chain[d] : chain[d][i] = f
    BY <1>2, HashTableAssumption DEF Among
  <2> QED
    BY <1>0, <1>1, <2>1 DEF Lists, WellLinked
<1> QED
  BY <1>1, <1>2

\* flow_hash_find keeps its place in the list, whatever the other thread does.
LEMMA WalkingNext == IInv /\ [Next]_vars => Walking'
<1> SUFFICES ASSUME IInv, [Next]_vars PROVE Walking'
  OBVIOUS
<1> USE DEF Goto, At, Acquire, Release, Threads, InAdd, count, worker, scrub, fields, block
<1>0. Walking /\ TypeOK /\ WellLinked /\ Home /\ Lists /\ Exclusion
  BY DEF IInv, Lists
<1>1. ASSUME NEW s \in Sockets, Arrive(s) PROVE Walking'
  BY <1>0, <1>1, HashTableAssumption DEF Arrive, Walking, TypeOK
<1>2. CASE FindLock
  <2> DEFINE b == Hash[sought]
  <2>1. sought \in Sockets /\ packet \in Sockets /\ found = None /\ b \in Buckets
    BY <1>0, <1>2, HashTableAssumption DEF FindLock, Walking
  <2>2. /\ cur' = IF elm_cnt[b] > 0 THEN first[b] ELSE NULL
        /\ pc' = [pc EXCEPT !["packet"] = "walk"]
        /\ UNCHANGED <<packet, sought, found, chain, socket, hmb>>
    BY <1>2 DEF FindLock
  <2>3. cur' = IF 1 = Len(chain[b]) + 1 THEN NULL ELSE chain[b][1]
    BY <1>0, <2>1, <2>2, Chains DEF WellLinked
  <2>4. 1 \in 1 .. Len(chain[b]) + 1 /\ 1 .. (1 - 1) = {}
    BY <1>0, <2>1, Chains
  <2>5. \E k \in 1 .. Len(chain[b]) + 1 :
          /\ cur' = IF k = Len(chain[b]) + 1 THEN NULL ELSE chain[b][k]
          /\ \A i \in 1 .. k - 1 : socket[chain[b][i]] # sought
    BY <2>3, <2>4
  <2>6. pc'["packet"] = "walk"
    BY <1>0, <2>2 DEF TypeOK
  <2> QED
    BY <2>1, <2>2, <2>5, <2>6 DEF Walking
<1>3. CASE WalkOn
  <2> DEFINE c == chain[Hash[sought]]
  <2>1. /\ sought \in Sockets /\ packet \in Sockets /\ found = None
        /\ Hash[sought] \in Buckets /\ pc["packet"] = "walk"
    BY <1>0, <1>3, HashTableAssumption DEF WalkOn, Walking
  <2>2. PICK k \in 1 .. Len(c) + 1 :
          /\ cur = IF k = Len(c) + 1 THEN NULL ELSE c[k]
          /\ \A i \in 1 .. k - 1 : socket[c[i]] # sought
    BY <1>0, <2>1 DEF Walking
  <2>3. Len(c) \in Nat /\ DOMAIN c = 1 .. Len(c)
    BY <1>0, <2>1, Chains
  <2>4. k \in 1 .. Len(c) /\ cur = c[k]
    BY <1>3, <2>2, <2>3 DEF WalkOn
  <2>5. cur' = IF k = Len(c) THEN NULL ELSE c[k + 1]
    BY <1>0, <1>3, <2>1, <2>3, <2>4 DEF WalkOn, WellLinked
  <2>6. k + 1 \in 1 .. Len(c) + 1 /\ \A i \in 1 .. (k + 1) - 1 : i \in 1 .. k - 1 \/ i = k
    BY <2>3, <2>4
  <2>7. socket[c[k]] # sought
    BY <1>3, <2>4 DEF WalkOn
  <2>8. cur' = IF k + 1 = Len(c) + 1 THEN NULL ELSE c[k + 1]
    BY <2>3, <2>4, <2>5
  <2>9. \E j \in 1 .. Len(c) + 1 :
          /\ cur' = IF j = Len(c) + 1 THEN NULL ELSE c[j]
          /\ \A i \in 1 .. j - 1 : socket[c[i]] # sought
    BY <2>2, <2>6, <2>7, <2>8
  <2> QED
    BY <2>1, <2>9, <1>3 DEF Walking, WalkOn
<1>4. CASE WalkHit \/ WalkMiss
  <2>1. /\ sought \in Sockets /\ packet \in Sockets /\ Hash[sought] \in Buckets
        /\ pc["packet"] = "walk"
    BY <1>0, <1>4, HashTableAssumption DEF WalkHit, WalkMiss, Walking
  <2>2. UNCHANGED <<packet, sought, cur, chain, socket, hmb>>
    BY <1>4 DEF WalkHit, WalkMiss
  <2>3. CASE WalkMiss
    BY <1>0, <2>1, <2>2, <2>3 DEF WalkMiss, Walking, TypeOK
  <2>4. CASE WalkHit
    <3>1. \E i \in DOMAIN chain[Hash[sought]] : chain[Hash[sought]][i] = cur
      BY <1>0, <2>1, <2>4, Chains DEF WalkHit, Walking
    <3>2. cur \in Flows /\ hmb[cur] \in Buckets
      BY <1>0, <2>1, <3>1, Chains DEF Home
    <3> QED
      BY <1>0, <2>1, <2>2, <2>4, <3>2 DEF WalkHit, Walking, TypeOK
  <2> QED
    BY <1>4, <2>3, <2>4
<1>5. CASE Again \/ Unknown
  BY <1>0, <1>5 DEF Again, Unknown, Return, Walking, TypeOK
<1>6. ASSUME NEW f \in Flows, New(f) PROVE Walking'
  <2>1. hmb' = [hmb EXCEPT ![f] = Hash[packet]] /\ Hash[packet] \in Buckets
    BY <1>6, NewFlow DEF AppendTo
  <2>2. cur' = f /\ pc' = [pc EXCEPT !["packet"] = "inc"]
    BY <1>6 DEF New
  <2>3. hmb'[cur'] \in Buckets /\ pc'["packet"] = "inc"
    BY <1>0, <2>1, <2>2 DEF TypeOK
  <2> QED
    BY <2>2, <2>3 DEF Walking
<1>7. CASE AddLock \/ AddKeep \/ AddDeleteAgain
  BY <1>0, <1>7 DEF AddLock, AddKeep, AddDeleteAgain, Walking, TypeOK
<1>8. CASE Unlock
  BY <1>0, <1>8 DEF Unlock, Return, Walking, TypeOK
<1>9. CASE AddDelete
  BY <1>0, <1>9 DEF AddDelete, Unlink, Walking, TypeOK
<1>10. CASE ScrubDelete
  <2>1. UNCHANGED <<hmb, socket, packet, sought, cur, found>> /\ pc'["packet"] = pc["packet"]
    BY <1>0, <1>10 DEF ScrubDelete, Unlink, TypeOK
  <2>2. ASSUME pc["packet"] = "walk"
        PROVE  chain'[Hash[sought]] = chain[Hash[sought]]
    <3>1. Hash[sought] \in Buckets /\ mutex[Hash[sought]] # "scrub"
      BY <2>2, Holders
    <3> QED
      BY <1>10, <3>1, ListsNext, OtherThread
  <2> QED
    BY <1>0, <2>1, <2>2 DEF Walking
<1>11. CASE ScrubLock \/ ScrubLook \/ ScrubNext \/ ScrubUnlock
  <2>1. /\ UNCHANGED <<hmb, socket, packet, sought, cur, found, chain>>
        /\ pc'["packet"] = pc["packet"]
    BY <1>0, <1>11 DEF ScrubLock, ScrubLook, ScrubNext, ScrubUnlock, TypeOK
  <2> QED
    BY <1>0, <2>1 DEF Walking
<1>12. ASSUME NEW t \in Threads, CountRead(t) \/ CountWrite(t) PROVE Walking'
  <2>1. UNCHANGED <<hmb, socket, packet, sought, cur, found, chain>>
    BY <1>12 DEF CountRead, CountWrite
  <2>2. \/ pc'["packet"] = pc["packet"]
        \/ pc["packet"] \in InAdd /\ pc'["packet"] \in InAdd
    BY <1>0, <1>12 DEF CountRead, CountWrite, Changing, TypeOK
  <2> QED
    BY <1>0, <2>1, <2>2 DEF Walking
<1>13. CASE UNCHANGED vars
  BY <1>0, <1>13 DEF Walking, vars
<1> QED
  BY <1>1, <1>2, <1>3, <1>4, <1>5, <1>6, <1>7, <1>8, <1>9, <1>10, <1>11, <1>12, <1>13,
     Steps DEF Outside

\* flow_scrubber keeps its place too, even when it deletes the flow it is at.
LEMMA ScrubbingNext == IInv /\ [Next]_vars => Scrubbing'
<1> SUFFICES ASSUME IInv, [Next]_vars PROVE Scrubbing'
  OBVIOUS
<1> USE DEF Goto, At, Acquire, Release, Threads, count, worker, scrub, fields, block
<1>0. Scrubbing /\ TypeOK /\ WellLinked /\ Home /\ Lists /\ Exclusion
  BY DEF IInv, Lists
<1>1. CASE AddDelete \/ \E f \in Flows : New(f)
  <2>1. UNCHANGED <<bucket, flow, flow_next>> /\ pc'["scrub"] = pc["scrub"]
    BY <1>0, <1>1 DEF AddDelete, New, TypeOK
  <2>2. ASSUME pc["scrub"] \in InScan
        PROVE  /\ chain'[bucket] = chain[bucket]
               /\ \A f \in Flows : Among(f, chain[bucket]) => next'[f] = next[f]
    <3>1. bucket \in Buckets /\ mutex[bucket] = "scrub"
      BY <2>2, Holders
    <3> QED
      BY <1>1, <3>1, ListsNext, OtherThread
  <2> QED
    BY <1>0, <2>1, <2>2 DEF Scrubbing, Among, InScan
<1>2. CASE ScrubDelete
  <2>1. flow \in Flows /\ flow \in Linked /\ hmb[flow] = bucket /\ Unlink(flow)
    BY <1>2, ScrubbedFlow
  <2>2. bucket \in Buckets /\ flow_next = next[flow] /\ Among(flow, chain[bucket])
    BY <1>0, <1>2 DEF ScrubDelete, Scrubbing, TypeOK
  <2>3. flow_next # flow /\ Among(flow_next, chain[bucket])
    <3> DEFINE c == chain[bucket]
    <3>1. PICK i \in DOMAIN c : c[i] = flow
      BY <2>1, <2>2, HashTableAssumption DEF Among
    <3>2. Len(c) \in Nat /\ DOMAIN c = 1 .. Len(c)
      BY <1>0, <2>2, Chains
    <3>3. flow_next = IF i = Len(c) THEN NULL ELSE c[i + 1]
      BY <1>0, <2>2, <3>1 DEF WellLinked
    <3>4. CASE i = Len(c)
      BY <2>1, <3>3, <3>4, HashTableAssumption DEF Among
    <3>5. CASE i # Len(c)
      <4>1. i + 1 \in DOMAIN c /\ i # i + 1
        BY <3>1, <3>2, <3>5
      <4>2. c[i + 1] # c[i]
        BY <2>2, <4>1 DEF IInv, Apart
      <4> QED
        BY <3>1, <3>3, <3>5, <4>1, <4>2 DEF Among
    <3> QED
      BY <3>4, <3>5
  <2>4. flow_next = NULL \/ flow_next \in Flows
    BY <1>0 DEF TypeOK
  <2>5. Among(flow_next, chain'[bucket])
    <3>1. CASE flow_next = NULL
      BY <3>1 DEF Among
    <3>2. CASE flow_next \in Flows
      BY <1>0, <2>1, <2>2, <2>3, <3>2, Deletion
    <3> QED
      BY <2>4, <3>1, <3>2
  <2>6. UNCHANGED <<bucket, flow, flow_next>> /\ pc'["scrub"] = "dec"
    BY <1>0, <1>2 DEF ScrubDelete, TypeOK
  <2> QED
    BY <2>5, <2>6 DEF Scrubbing
<1>3. CASE ScrubLock
  <2> DEFINE c == chain[bucket]
  <2>1. bucket \in Buckets
    BY <1>0 DEF TypeOK
  <2>2. Among(first[bucket], c)
    <3>1. Len(c) \in Nat /\ DOMAIN c = 1 .. Len(c) /\ (c = <<>> <=> Len(c) = 0)
      BY <1>0, <2>1, Chains
    <3>2. first[bucket] = IF c = <<>> THEN NULL ELSE c[1]
      BY <1>0, <2>1 DEF WellLinked
    <3>3. c # <<>> => 1 \in DOMAIN c
      BY <3>1
    <3> QED
      BY <3>2, <3>3 DEF Among
  <2> QED
    BY <1>0, <1>3, <2>2 DEF ScrubLock, Scrubbing, Among, TypeOK
<1>4. CASE ScrubLook
  <2> DEFINE c == chain[bucket]
  <2>1. /\ bucket \in Buckets /\ flow \in Flows /\ Among(flow, c) /\ flow_next' = next[flow]
        /\ UNCHANGED <<bucket, flow, chain, next>>
        /\ pc'["scrub"] \in {"delete", "next"}
    BY <1>0, <1>4 DEF ScrubLook, Scrubbing, TypeOK
  <2>2. PICK i \in DOMAIN c : c[i] = flow
    BY <2>1, HashTableAssumption DEF Among
  <2>3. Len(c) \in Nat /\ DOMAIN c = 1 .. Len(c)
    BY <1>0, <2>1, Chains
  <2>4. next[flow] = IF i = Len(c) THEN NULL ELSE c[i + 1]
    BY <1>0, <2>1, <2>2 DEF WellLinked
  <2>5. i # Len(c) => i + 1 \in DOMAIN c
    BY <2>2, <2>3
  <2>6. Among(next[flow], c)
    BY <2>4, <2>5 DEF Among
  <2> QED
    BY <2>1, <2>6 DEF Scrubbing, Among
<1>5. CASE ScrubNext
  BY <1>0, <1>5 DEF ScrubNext, Scrubbing, Among, TypeOK
<1>6. CASE ScrubUnlock
  BY <1>0, <1>6 DEF ScrubUnlock, Scrubbing, TypeOK
<1>7. ASSUME NEW s \in Sockets, Arrive(s) PROVE Scrubbing'
  BY <1>0, <1>7 DEF Arrive, Scrubbing, Among, TypeOK
<1>8. CASE FindLock \/ WalkOn \/ WalkHit \/ WalkMiss \/ Again \/ Unknown
  BY <1>0, <1>8 DEF FindLock, WalkOn, WalkHit, WalkMiss, Again, Unknown, Return,
                    Scrubbing, Among, TypeOK
<1>9. CASE AddLock \/ AddKeep \/ AddDeleteAgain \/ Unlock
  BY <1>0, <1>9 DEF AddLock, AddKeep, AddDeleteAgain, Unlock, Return, Scrubbing, Among,
                    TypeOK
<1>10. ASSUME NEW t \in Threads, CountRead(t) \/ CountWrite(t) PROVE Scrubbing'
  <2>1. UNCHANGED <<bucket, flow, flow_next, chain, next>>
    BY <1>10 DEF CountRead, CountWrite
  <2>2. \/ pc'["scrub"] = pc["scrub"]
        \/ pc["scrub"] \in {"dec", "dec_store"} /\ pc'["scrub"] \in {"dec_store", "next"}
    BY <1>0, <1>10 DEF CountRead, CountWrite, Changing, TypeOK, ScrubAt
  <2> QED
    BY <1>0, <2>1, <2>2 DEF Scrubbing, Among
<1>11. CASE UNCHANGED vars
  BY <1>0, <1>11 DEF Scrubbing, Among, vars
<1> QED
  BY <1>1, <1>2, <1>3, <1>4, <1>5, <1>6, <1>7, <1>8, <1>9, <1>10, <1>11, Steps DEF Outside

-----------------------------------------------------------------------------
\* How many flows there are in the table after one joins it or leaves it.
LEMMA LinkedSize ==
  /\ Cardinality(Linked) \in Nat
  /\ \A f \in Flows : f \notin Linked /\ Linked' = Linked \cup {f}
                        => Cardinality(Linked') = Cardinality(Linked) + 1
  /\ \A f \in Flows : f \in Linked /\ Linked' = Linked \ {f}
                        => Cardinality(Linked') = Cardinality(Linked) - 1
<1>1. Linked \in SUBSET Flows
  BY DEF Linked
<1>2. IsFiniteSet(Linked)
  BY <1>1, FS_Subset, HashTableAssumption
<1> HIDE DEF Linked
<1>3. Cardinality(Linked) \in Nat
  BY <1>2, FS_CardinalityType
<1>4. \A f \in Flows : f \notin Linked => Cardinality(Linked \cup {f}) = Cardinality(Linked) + 1
  BY <1>2, FS_AddElement
<1>5. \A f \in Flows : f \in Linked => Cardinality(Linked \ {f}) = Cardinality(Linked) - 1
  BY <1>2, FS_RemoveElement
<1> QED
  BY <1>3, <1>4, <1>5

\* flow_cnt is right until two changes of it overlap.
LEMMA CountNext == IInv /\ [Next]_vars => CountExact'
<1> SUFFICES ASSUME IInv, [Next]_vars PROVE CountExact'
  OBVIOUS
<1> USE DEF Goto, At, Threads, Changing, Pending
<1>0. /\ CountExact /\ TypeOK /\ Lists /\ flow_cnt \in Int /\ reg \in [Threads -> Int]
      /\ pc \in [Threads -> PacketAt \cup ScrubAt]
      /\ pc["packet"] \in PacketAt /\ pc["scrub"] \in ScrubAt
  BY DEF IInv, TypeOK, Lists
<1>1. Cardinality(Linked) \in Nat
  BY LinkedSize
<1>2. ASSUME NEW f \in Flows, New(f) PROVE CountExact'
  <2>1. f \notin Linked /\ Linked' = Linked \cup {f}
    BY <1>0, <1>2, NewFlow, Insertion
  <2>2. Cardinality(Linked') = Cardinality(Linked) + 1
    BY <2>1, LinkedSize
  <2>3. /\ UNCHANGED <<flow_cnt, reg, raced>> /\ pc["packet"] = "new"
        /\ pc' = [pc EXCEPT !["packet"] = "inc"]
    BY <1>2 DEF New, count
  <2> QED
    BY <1>0, <1>1, <2>2, <2>3 DEF CountExact
<1>3. CASE AddDelete
  <2>1. cur \in Flows /\ cur \in Linked /\ Linked' = Linked \ {cur}
    BY <1>0, <1>3, Deletion DEF AddDelete, Linked
  <2>2. Cardinality(Linked') = Cardinality(Linked) - 1
    BY <2>1, LinkedSize
  <2>3. /\ UNCHANGED <<flow_cnt, reg, raced>> /\ pc["packet"] = "add"
        /\ pc' = [pc EXCEPT !["packet"] = "dec"]
    BY <1>3 DEF AddDelete, count
  <2> QED
    BY <1>0, <1>1, <2>2, <2>3 DEF CountExact
<1>4. CASE ScrubDelete
  <2>1. flow \in Flows /\ flow \in Linked /\ Linked' = Linked \ {flow}
    BY <1>0, <1>4, ScrubbedFlow, Deletion
  <2>2. Cardinality(Linked') = Cardinality(Linked) - 1
    BY <2>1, LinkedSize
  <2>3. /\ UNCHANGED <<flow_cnt, reg, raced>> /\ pc["scrub"] = "delete"
        /\ pc' = [pc EXCEPT !["scrub"] = "dec"]
    BY <1>4 DEF ScrubDelete, count
  <2> QED
    BY <1>0, <1>1, <2>2, <2>3 DEF CountExact
<1>5. CASE Outside
  <2>1. Linked' = Linked
    BY <1>5, OutsideFrame DEF Linked
  <2> HIDE DEF Changing, Pending
  <2>2. ASSUME NEW t \in Threads, CountRead(t) PROVE CountExact'
    <3>1. /\ UNCHANGED flow_cnt /\ reg' = [reg EXCEPT ![t] = flow_cnt]
          /\ raced' = (raced \/ \E u \in Threads : Changing(u))
          /\ \/ pc[t] = "inc" /\ pc' = [pc EXCEPT ![t] = "inc_store"]
             \/ pc[t] = "dec" /\ pc' = [pc EXCEPT ![t] = "dec_store"]
      BY <2>2 DEF CountRead
    <3>2. Pending("packet")' = Pending("packet") /\ Pending("scrub")' = Pending("scrub")
      BY <1>0, <3>1 DEF Pending
    <3>3. ASSUME ~ raced'
          PROVE  /\ \A u \in Threads : ~ Changing(u)
                 /\ \A u \in Threads : Changing(u)' => u = t
      BY <1>0, <3>1, <3>3 DEF Changing
    <3> QED
      BY <1>0, <2>1, <3>1, <3>2, <3>3 DEF CountExact
  <2>3. ASSUME NEW t \in Threads, CountWrite(t) PROVE CountExact'
    <3>1. /\ pc[t] \in {"inc_store", "dec_store"} /\ UNCHANGED raced
          /\ flow_cnt' = reg[t] + (IF pc[t] = "inc_store" THEN 1 ELSE -1)
          /\ reg' = [reg EXCEPT ![t] = 0]
          /\ pc'[t] \in {"next", "unlock_new", "unlock"}
          /\ \A u \in Threads : u # t => pc'[u] = pc[u]
      BY <1>0, <2>3 DEF CountWrite, Changing
    <3>2. CASE raced
      BY <3>1, <3>2 DEF CountExact
    <3>3. CASE ~ raced
      <4>1. reg[t] = flow_cnt /\ \A u \in Threads : u # t => ~ Changing(u)
        BY <1>0, <3>1, <3>3 DEF CountExact, Changing
      <4>2. \A u \in Threads : ~ Changing(u)'
        BY <3>1, <4>1 DEF Changing
      <4>3. flow_cnt' = flow_cnt + Pending(t) /\ Pending(t)' = 0
        BY <3>1, <4>1 DEF Pending
      <4>4. \A u \in Threads : u # t => Pending(u)' = Pending(u)
        BY <3>1 DEF Pending
      <4>5. Pending("packet") \in Int /\ Pending("scrub") \in Int
        BY DEF Pending
      <4>6. Cardinality(Linked) = flow_cnt' + Pending("packet")' + Pending("scrub")'
        <5>1. Cardinality(Linked) = flow_cnt + Pending("packet") + Pending("scrub")
          BY <1>0, <3>3 DEF CountExact
        <5> QED
          BY <1>0, <4>3, <4>4, <4>5, <5>1
      <4> QED
        BY <2>1, <4>2, <4>6 DEF CountExact
    <3> QED
      BY <3>2, <3>3
  <2>4. ASSUME UNCHANGED <<flow_cnt, reg, raced>>,
               \A u \in Threads : Pending(u)' = Pending(u) /\ Changing(u)' = Changing(u)
        PROVE  CountExact'
    BY <1>0, <2>1, <2>4 DEF CountExact
  <2>5. CASE \/ \E s \in Sockets : Arrive(s)
             \/ FindLock \/ WalkOn \/ WalkHit \/ WalkMiss \/ Again \/ Unknown
             \/ AddLock \/ AddKeep \/ AddDeleteAgain \/ Unlock
    <3>1. /\ UNCHANGED <<flow_cnt, reg, raced>> /\ pc'["scrub"] = pc["scrub"]
          /\ pc["packet"] \notin {"inc", "inc_store", "dec", "dec_store"}
          /\ pc'["packet"] \notin {"inc", "inc_store", "dec", "dec_store"}
      BY <1>0, <2>5 DEF Arrive, FindLock, WalkOn, WalkHit, WalkMiss, Again, Unknown, Return,
                        AddLock, AddKeep, AddDeleteAgain, Unlock, count
    <3> QED
      BY <2>4, <3>1 DEF Pending, Changing
  <2>6. CASE ScrubLock \/ ScrubLook \/ ScrubNext \/ ScrubUnlock
    <3>1. /\ UNCHANGED <<flow_cnt, reg, raced>> /\ pc'["packet"] = pc["packet"]
          /\ pc["scrub"] \notin {"inc", "inc_store", "dec", "dec_store"}
          /\ pc'["scrub"] \notin {"inc", "inc_store", "dec", "dec_store"}
      BY <1>0, <2>6 DEF ScrubLock, ScrubLook, ScrubNext, ScrubUnlock, count
    <3> QED
      BY <2>4, <3>1 DEF Pending, Changing
  <2>7. CASE UNCHANGED vars
    BY <2>4, <2>7 DEF vars, count, Pending, Changing
  <2> QED
    BY <1>5, <2>2, <2>3, <2>5, <2>6, <2>7 DEF Outside
<1> QED
  BY <1>2, <1>3, <1>4, <1>5, Steps

-----------------------------------------------------------------------------
\* Every state satisfies the invariant that the steps preserve.
THEOREM Invariance == Spec => []IInv
<1>1. IInv /\ [Next]_vars => IInv'
  BY TypeNext, ListsNext, ExclusionNext, WalkingNext, ScrubbingNext, CountNext DEF IInv
<1> QED
  BY InvInit, <1>1, PTL DEF Spec

\* The links, the counters and the positions of both threads keep their types.
THEOREM TypeCorrect == Spec => []TypeOK
<1>1. IInv => TypeOK
  BY DEF IInv
<1> QED
  BY Invariance, <1>1, PTL

\* Whatever flow_hash_new and flow_hash_delete interleave with, each bucket is
\* a doubly linked list of the flows in it, and elm_cnt is their number.
THEOREM ListsWellLinked == Spec => []WellLinked
<1>1. IInv => WellLinked
  BY DEF IInv
<1> QED
  BY Invariance, <1>1, PTL

\* flow_cnt can only be wrong after two threads have changed it at once.
THEOREM CountCorrect == Spec => []CountExact
<1>1. IInv => CountExact
  BY DEF IInv
<1> QED
  BY Invariance, <1>1, PTL

\* Every step of the threads is a step of the set of flows or no step of it:
\* a lookup takes effect when it releases the mutex.
LEMMA StepSimulation == IInv /\ [Next]_vars => [Table!Next]_(Table!vars)
<1> SUFFICES ASSUME IInv, [Next]_vars PROVE [Table!Next]_(Table!vars)
  OBVIOUS
<1> USE DEF Table!vars
<1>0. Lists /\ TypeOK /\ Home /\ Walking
  BY DEF IInv, Lists
<1>1. ASSUME NEW s \in Sockets, Arrive(s) PROVE \E r \in Sockets : Table!Ask(r)
  <2>1. UNCHANGED <<chain, socket>> /\ sought' = Reverse(s) /\ found' = None
    BY <1>1 DEF Arrive, fields
  <2>2. Linked' = Linked
    BY <2>1 DEF Linked
  <2>3. Table!Ask(Reverse(s)) /\ Reverse(s) \in Sockets
    BY <2>1, <2>2, HashTableAssumption DEF Table!Ask
  <2> QED
    BY <2>3
<1>2. CASE Again
  <2>1. UNCHANGED <<chain, socket>> /\ sought' = packet /\ found' = None /\ packet \in Sockets
    BY <1>0, <1>2 DEF Again, At, fields, Walking
  <2>2. Linked' = Linked
    BY <2>1 DEF Linked
  <2> QED
    BY <2>1, <2>2 DEF Table!Ask, Table!Next
<1>3. CASE WalkHit
  <2> DEFINE b == Hash[sought]
  <2>1. /\ sought \in Sockets /\ b \in Buckets /\ found = None
        /\ cur # NULL /\ socket[cur] = sought
        /\ UNCHANGED <<chain, socket, sought>> /\ found' = cur
    BY <1>0, <1>3, HashTableAssumption DEF WalkHit, At, fields, Walking
  <2>2. PICK k \in 1 .. Len(chain[b]) + 1 : cur = IF k = Len(chain[b]) + 1 THEN NULL ELSE chain[b][k]
    BY <1>0, <1>3 DEF WalkHit, At, Walking
  <2>3. cur \in Flows /\ cur \in Linked
    BY <1>0, <2>1, <2>2, Chains DEF Linked
  <2>4. Linked' = Linked
    BY <2>1 DEF Linked
  <2>5. Table!Hit(cur)
    BY <2>1, <2>3, <2>4, HashTableAssumption DEF Table!Hit
  <2> QED
    BY <2>3, <2>5 DEF Table!Next
<1>4. CASE WalkMiss
  <2> DEFINE c == chain[Hash[sought]]
  <2>1. /\ sought \in Sockets /\ Hash[sought] \in Buckets /\ found = None /\ cur = NULL
        /\ UNCHANGED <<chain, socket, sought>> /\ found' = NULL
    BY <1>0, <1>4, HashTableAssumption DEF WalkMiss, At, fields, Walking
  <2>2. PICK k \in 1 .. Len(c) + 1 :
          /\ cur = IF k = Len(c) + 1 THEN NULL ELSE c[k]
          /\ \A i \in 1 .. k - 1 : socket[c[i]] # sought
    BY <1>0, <1>4 DEF WalkMiss, At, Walking
  <2>3. Len(c) \in Nat /\ DOMAIN c = 1 .. Len(c) /\ \A i \in 1 .. Len(c) : c[i] \in Flows
    BY <1>0, <2>1, Chains
  <2>4. k = Len(c) + 1
    BY <2>1, <2>2, <2>3, HashTableAssumption
  <2>5. \A i \in 1 .. Len(c) : socket[c[i]] # sought
    <3>1. \A i \in 1 .. Len(c) : i \in 1 .. k - 1
      BY <2>3, <2>4
    <3> QED
      BY <2>2, <3>1
  <2>6. ASSUME NEW f \in Linked PROVE socket[f] # sought
    <3>1. PICK b \in Buckets : \E i \in DOMAIN chain[b] : chain[b][i] = f
      BY DEF Linked
    <3>2. Hash[socket[f]] = b
      BY <1>0, <3>1 DEF Home
    <3> QED
      BY <2>3, <2>5, <3>1, <3>2
  <2>7. Linked' = Linked
    BY <2>1 DEF Linked
  <2> QED
    BY <2>1, <2>6, <2>7, HashTableAssumption DEF Table!Miss, Table!Next
<1>5. ASSUME NEW f \in Flows, New(f) PROVE Table!Insert(f, packet) /\ packet \in Sockets
  <2>1. f \notin Linked /\ Linked' = Linked \cup {f} /\ packet \in Sockets
    BY <1>0, <1>5, NewFlow, Insertion
  <2> QED
    BY <1>5, <2>1 DEF Table!Insert, New
<1>6. CASE AddDelete \/ ScrubDelete
  <2>1. PICK f \in Flows : f \in Linked /\ Unlink(f)
    BY <1>6, ScrubbedFlow DEF AddDelete, Linked
  <2>2. Linked' = Linked \ {f}
    BY <1>0, <2>1, Deletion
  <2>3. UNCHANGED <<socket, sought, found>>
    BY <1>6, <2>1 DEF AddDelete, ScrubDelete, Unlink, worker
  <2> QED
    BY <2>1, <2>2, <2>3 DEF Table!Remove, Table!Next
<1>7. CASE Unknown \/ Unlock
  <2>1. UNCHANGED <<chain, socket>>
    BY <1>7 DEF Unknown, Unlock, fields
  <2>2. Linked' = Linked
    BY <2>1 DEF Linked
  <2>3. UNCHANGED <<sought, found>> \/ (sought' = None /\ found' = None)
    BY <1>7 DEF Unknown, Unlock, Return, worker
  <2> QED
    BY <2>1, <2>2, <2>3 DEF Table!Forget, Table!Next
<1>8. CASE \/ FindLock \/ WalkOn \/ AddLock \/ AddKeep \/ AddDeleteAgain
           \/ ScrubLock \/ ScrubLook \/ ScrubNext \/ ScrubUnlock
           \/ \E t \in Threads : CountRead(t) \/ CountWrite(t)
           \/ UNCHANGED vars
  <2>1. UNCHANGED <<chain, socket, sought, found>>
    BY <1>8 DEF FindLock, WalkOn, AddLock, AddKeep, AddDeleteAgain, ScrubLock, ScrubLook,
                ScrubNext, ScrubUnlock, CountRead, CountWrite, vars, fields, worker
  <2>2. Linked' = Linked
    BY <2>1 DEF Linked
  <2> QED
    BY <2>1, <2>2
<1> QED
  BY <1>1, <1>2, <1>3, <1>4, <1>5, <1>6, <1>7, <1>8, Steps DEF Outside, Table!Next

\* The table of lists and links implements the set of flows of FlowTable.
THEOREM Refinement == Spec => ImplementsTable
<1>1. Init => Table!Init
  <2>1. ASSUME Init PROVE Linked = {}
    BY <2>1 DEF Init, Linked
  <2> QED
    BY <2>1, HashTableAssumption DEF Init, Table!Init
<1> QED
  BY Invariance, <1>1, StepSimulation, PTL DEF Spec, ImplementsTable, Table!Spec
=============================================================================
