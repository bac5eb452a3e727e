----------------------- MODULE HttpConversationProofs ------------------------
(***************************************************************************)
(* Theorems about HttpConversation for every word size, header length,     *)
(* payload and number of segments: what flow_extract_http makes of the     *)
(* lists of a flow is what the two sides said to each other.               *)
(***************************************************************************)
EXTENDS HttpConversation, FiniteSetTheorems, SequenceTheorems, WellFoundedInduction, TLAPS

-----------------------------------------------------------------------------
(* Least and greatest elements. *)

\* A set of natural numbers has a least element.
LEMMA HasLeast ==
  ASSUME NEW S, S \subseteq Nat, S # {}
  PROVE  \E x \in S : \A y \in S : x <= y
<1>1. PICK x \in S : \A y \in S : ~ (<<y, x>> \in OpToRel(<, Nat))
  BY WFMin, NatLessThanWellFounded
<1>2. ASSUME NEW y \in S PROVE x <= y
  <2>1. x \in Nat /\ y \in Nat
    OBVIOUS
  <2>2. ~ (y < x)
    <3>1. <<y, x>> \in Nat \X Nat
      BY <2>1
    <3>2. y < x => <<y, x>> \in OpToRel(<, Nat)
      BY <3>1 DEF OpToRel
    <3> QED
      BY <1>1, <3>2
  <2> QED
    BY <2>1, <2>2
<1> QED
  BY <1>2

\* The least element is found by Least.
LEMMA LeastIs ==
  ASSUME NEW S, S \subseteq Int, NEW x \in S, \A y \in S : x <= y
  PROVE  Least(S) = x
<1>1. Least(S) \in S /\ \A y \in S : Least(S) <= y
  BY DEF Least
<1> HIDE DEF Least
<1>2. Least(S) <= x /\ x <= Least(S)
  BY <1>1
<1>3. Least(S) \in Int /\ x \in Int
  BY <1>1
<1> QED
  BY <1>2, <1>3

\* The greatest element is found by Greatest.
LEMMA GreatestIs ==
  ASSUME NEW S, S \subseteq Int, NEW x \in S, \A y \in S : y <= x
  PROVE  Greatest(S) = x
<1>1. Greatest(S) \in S /\ \A y \in S : y <= Greatest(S)
  BY DEF Greatest
<1> HIDE DEF Greatest
<1>2. Greatest(S) <= x /\ x <= Greatest(S)
  BY <1>1
<1>3. Greatest(S) \in Int /\ x \in Int
  BY <1>1
<1> QED
  BY <1>2, <1>3

\* A bounded set of natural numbers has a greatest element.
LEMMA GreatestIn ==
  ASSUME NEW S, S \subseteq Nat, S # {}, NEW n \in Nat, \A i \in S : i <= n
  PROVE  Greatest(S) \in S /\ \A i \in S : i <= Greatest(S)
<1> DEFINE T == {n - i : i \in S}
<1>1. T \subseteq Nat /\ T # {}
  <2>1. ASSUME NEW i \in S PROVE n - i \in Nat
    <3>1. i \in Nat /\ i <= n
      OBVIOUS
    <3> QED
      BY <3>1
  <2> QED
    BY <2>1
<1>2. PICK x \in T : \A y \in T : x <= y
  BY <1>1, HasLeast
<1>3. PICK m \in S : x = n - m
  BY <1>2
<1>4. ASSUME NEW i \in S PROVE i <= m
  <2>1. n - i \in T
    OBVIOUS
  <2>2. n - m <= n - i
    BY <1>2, <1>3, <2>1
  <2>3. i \in Nat /\ m \in Nat
    OBVIOUS
  <2> QED
    BY <2>2, <2>3
<1>5. m \in S
  OBVIOUS
<1>6. Greatest(S) = m
  <2>1. S \subseteq Int
    OBVIOUS
  <2> QED
    BY <1>4, <1>5, <2>1, GreatestIs
<1> QED
  BY <1>4, <1>5, <1>6

-----------------------------------------------------------------------------
(* The elements of a set of numbers in order. *)

Enumerates(s, S) ==
  /\ s \in Seq(Nat)
  /\ \A k \in 1 .. Len(s) : s[k] \in S
  /\ \A i, j \in 1 .. Len(s) : i < j => s[i] < s[j]
  /\ \A x \in S : \E k \in 1 .. Len(s) : s[k] = x

\* A sequence that enumerates a set in order is the one InOrder gives.
LEMMA InOrderIs ==
  ASSUME NEW S, NEW s, Enumerates(s, S)
  PROVE  InOrder(S) = s
<1> DEFINE m == Len(s)
           upTo(i) == {j \in S : j <= i}
<1>1. /\ m \in Nat
      /\ s \in [1 .. m -> Nat]
      /\ DOMAIN s = 1 .. m
  BY LenProperties DEF Enumerates
<1>2. \A k \in 1 .. m : s[k] \in S
  BY DEF Enumerates
<1>3. \A i, j \in 1 .. m : i < j => s[i] < s[j]
  BY DEF Enumerates
<1>4. \A x \in S : \E k \in 1 .. m : s[k] = x
  BY DEF Enumerates
<1> HIDE DEF m
<1>5. \A i, j \in 1 .. m : s[i] <= s[j] <=> i <= j
  <2> SUFFICES ASSUME NEW i \in 1 .. m, NEW j \in 1 .. m
               PROVE  s[i] <= s[j] <=> i <= j
    OBVIOUS
  <2>1. i \in Nat /\ j \in Nat /\ s[i] \in Nat /\ s[j] \in Nat
    BY <1>1
  <2>2. i < j => s[i] < s[j]
    BY <1>3
  <2>3. j < i => s[j] < s[i]
    BY <1>3
  <2>4. i = j => s[i] = s[j]
    OBVIOUS
  <2> QED
    BY <2>1, <2>2, <2>3, <2>4
<1>6. S \subseteq Nat
  BY <1>1, <1>4
<1>7. Cardinality(S) = m
  <2>1. s \in [1 .. m -> S]
    BY <1>1, <1>2
  <2>2. \A a, b \in 1 .. m : s[a] = s[b] => a = b
    <3> SUFFICES ASSUME NEW a \in 1 .. m, NEW b \in 1 .. m, s[a] = s[b]
                 PROVE  a = b
      OBVIOUS
    <3>1. s[a] <= s[b] /\ s[b] <= s[a]
      BY <1>1
    <3>2. a <= b /\ b <= a
      BY <1>5, <3>1
    <3> QED
      BY <1>1, <3>2
  <2>3. s \in Bijection(1 .. m, S)
    BY <1>4, <2>1, <2>2 DEF Bijection, Injection, Surjection, IsInjective
  <2> QED
    BY <1>1, <2>3, FS_CountingElements DEF ExistsBijection
<1>8. ASSUME NEW k \in 1 .. m PROVE Cardinality(upTo(s[k])) = k
  <2> DEFINE f == [i \in 1 .. k |-> s[i]]
  <2>1. k \in Nat /\ \A i \in 1 .. k : i \in 1 .. m /\ i <= k
    BY <1>1
  <2>2. \A i \in 1 .. k : s[i] \in upTo(s[k])
    BY <1>2, <1>5, <2>1
  <2>3. f \in [1 .. k -> upTo(s[k])]
    BY <2>2
  <2>4. \A a, b \in 1 .. k : f[a] = f[b] => a = b
    <3> SUFFICES ASSUME NEW a \in 1 .. k, NEW b \in 1 .. k, s[a] = s[b]
                 PROVE  a = b
      OBVIOUS
    <3>1. s[a] <= s[b] /\ s[b] <= s[a]
      BY <1>1, <2>1
    <3>2. a <= b /\ b <= a
      BY <1>5, <2>1, <3>1
    <3> QED
      BY <1>1, <2>1, <3>2
  <2>5. \A x \in upTo(s[k]) : \E a \in 1 .. k : f[a] = x
    <3> SUFFICES ASSUME NEW x \in S, x <= s[k]
                 PROVE  \E a \in 1 .. k : f[a] = x
      OBVIOUS
    <3>1. PICK a \in 1 .. m : s[a] = x
      BY <1>4
    <3>2. a <= k
      BY <1>5, <3>1
    <3>3. a \in 1 .. k
      BY <1>1, <2>1, <3>2
    <3> QED
      BY <3>1, <3>3
  <2> HIDE DEF f
  <2>6. f \in Bijection(1 .. k, upTo(s[k]))
    BY <2>3, <2>4, <2>5 DEF Bijection, Injection, Surjection, IsInjective
  <2> QED
    BY <2>1, <2>6, FS_CountingElements DEF ExistsBijection
<1>9. ASSUME NEW k \in 1 .. m
      PROVE  (CHOOSE i \in S : Cardinality(upTo(i)) = k) = s[k]
  <2>1. s[k] \in S /\ Cardinality(upTo(s[k])) = k
    BY <1>2, <1>8
  <2>2. ASSUME NEW i \in S, Cardinality(upTo(i)) = k PROVE i = s[k]
    <3>1. PICK l \in 1 .. m : s[l] = i
      BY <1>4
    <3>2. Cardinality(upTo(i)) = l
      BY <1>8, <3>1
    <3> QED
      BY <2>2, <3>1, <3>2
  <2> QED
    BY <2>1, <2>2
<1>10. s = [k \in 1 .. m |-> s[k]]
  BY <1>1
<1> QED
  BY <1>7, <1>9, <1>10 DEF InOrder

\* With no element there is nothing to enumerate.
LEMMA NoneInOrder == Enumerates(<<>>, {})
BY DEF Enumerates

\* A number greater than all others comes last.
LEMMA NextInOrder ==
  ASSUME NEW S, NEW s, Enumerates(s, S), NEW x \in Nat, \A y \in S : y < x
  PROVE  Enumerates(Append(s, x), S \cup {x})
<1> DEFINE t == Append(s, x)
<1>1. s \in Seq(Nat)
  BY DEF Enumerates
<1>2. /\ Len(s) \in Nat
      /\ t \in Seq(Nat) /\ Len(t) = Len(s) + 1
      /\ \A i \in 1 .. Len(s) : t[i] = s[i]
      /\ t[Len(s) + 1] = x
  BY <1>1, AppendProperties, LenProperties
<1> HIDE DEF t
<1>3. \A k \in 1 .. Len(t) : k = Len(s) + 1 \/ k \in 1 .. Len(s)
  BY <1>2
<1>4. \A k \in 1 .. Len(t) : t[k] \in S \cup {x}
  BY <1>2, <1>3 DEF Enumerates
<1>5. ASSUME NEW i \in 1 .. Len(t), NEW j \in 1 .. Len(t), i < j PROVE t[i] < t[j]
  <2>1. i \in 1 .. Len(s)
    BY <1>2, <1>5
  <2>2. CASE j \in 1 .. Len(s)
    BY <1>2, <1>5, <2>1, <2>2 DEF Enumerates
  <2>3. CASE j = Len(s) + 1
    BY <1>2, <2>1, <2>3 DEF Enumerates
  <2> QED
    BY <1>3, <2>2, <2>3
<1>6. \A y \in S \cup {x} : \E k \in 1 .. Len(t) : t[k] = y
  <2> SUFFICES ASSUME NEW y \in S \cup {x} PROVE \E k \in 1 .. Len(t) : t[k] = y
    OBVIOUS
  <2>1. CASE y = x
    <3>1. Len(s) + 1 \in 1 .. Len(t)
      BY <1>2
    <3> QED
      BY <1>2, <2>1, <3>1
  <2>2. CASE y \in S
    <3>1. PICK k \in 1 .. Len(s) : s[k] = y
      BY <2>2 DEF Enumerates
    <3>2. k \in 1 .. Len(t)
      BY <1>2
    <3> QED
      BY <1>2, <3>1, <3>2
  <2> QED
    BY <2>1, <2>2
<1>7. t = Append(s, x)
  BY DEF t
<1> QED
  BY <1>2, <1>4, <1>5, <1>6, <1>7 DEF Enumerates

\* InOrder enumerates every set of numbers up to n.
LEMMA InOrderEnumerates ==
  ASSUME NEW n \in Nat, NEW S \in SUBSET (1 .. n)
  PROVE  Enumerates(InOrder(S), S)
<1> DEFINE Fine(m) == \A T \in SUBSET (1 .. m) : Enumerates(InOrder(T), T)
           bad == {m \in Nat : ~ Fine(m)}
<1>1. bad = {}
  <2> SUFFICES ASSUME bad # {} PROVE FALSE
    OBVIOUS
  <2>1. PICK m \in bad : \A y \in bad : m <= y
    BY HasLeast
  <2>2. PICK T \in SUBSET (1 .. m) : ~ Enumerates(InOrder(T), T)
    BY <2>1
  <2>3. m # 0
    <3> SUFFICES ASSUME m = 0 PROVE FALSE
      OBVIOUS
    <3>1. T = {}
      OBVIOUS
    <3> QED
      BY <2>2, <3>1, NoneInOrder, InOrderIs
  <2>4. m - 1 \in Nat /\ m - 1 < m
    BY <2>3
  <2>5. Fine(m - 1)
    <3>1. m \in Nat /\ ~ (m <= m - 1)
      BY <2>4
    <3>2. m - 1 \notin bad
      BY <2>1, <3>1
    <3> HIDE DEF Fine
    <3> QED
      BY <2>4, <3>2
  <2> DEFINE U == T \ {m}
  <2>6. U \in SUBSET (1 .. m - 1)
    <3>1. m \in Nat
      OBVIOUS
    <3> QED
      BY <3>1
  <2>7. Enumerates(InOrder(U), U)
    BY <2>5, <2>6
  <2>8. CASE m \in T
    <3>1. \A y \in U : y < m
      BY <2>4, <2>6
    <3>2. T = U \cup {m}
      BY <2>8
    <3>3. Enumerates(Append(InOrder(U), m), T)
      <4> HIDE DEF U
      <4> QED
        BY <2>7, <3>1, <3>2, NextInOrder
    <3> QED
      BY <2>2, <3>3, InOrderIs
  <2>9. CASE m \notin T
    <3>1. T = U
      BY <2>9
    <3> QED
      BY <2>2, <2>7, <3>1
  <2> QED
    BY <2>8, <2>9
<1>2. Fine(n)
  BY <1>1
<1> QED
  BY <1>2
-----------------------------------------------------------------------------
(* Where messages begin. *)

\* Starts gives the nodes of a kind in order.
LEMMA StartsEnumerate ==
  ASSUME NEW list, NEW kind, NEW n \in Nat
  PROVE  /\ Enumerates(Starts(list, kind, n), {i \in 1 .. n : list[i].http = kind})
         /\ Starts(list, kind, n) \in Seq(Nat)
         /\ \A k \in 1 .. Len(Starts(list, kind, n)) :
              /\ Starts(list, kind, n)[k] \in 1 .. n
              /\ list[Starts(list, kind, n)[k]].http = kind
<1>1. {i \in 1 .. n : list[i].http = kind} \in SUBSET (1 .. n)
  OBVIOUS
<1> QED
  BY <1>1, InOrderEnumerates DEF Starts, Enumerates

\* There are none before the first node.
LEMMA StartsNone ==
  ASSUME NEW list, NEW kind
  PROVE  Starts(list, kind, 0) = <<>>
<1>1. {i \in 1 .. 0 : list[i].http = kind} = {}
  OBVIOUS
<1> QED
  BY <1>1, NoneInOrder, InOrderIs DEF Starts

\* The nodes that come after do not matter.
LEMMA StartsSame ==
  ASSUME NEW list, NEW other, NEW kind, NEW n \in Nat,
         \A i \in 1 .. n : list[i] = other[i]
  PROVE  Starts(list, kind, n) = Starts(other, kind, n)
<1>1. {i \in 1 .. n : list[i].http = kind} = {i \in 1 .. n : other[i].http = kind}
  OBVIOUS
<1> QED
  BY <1>1 DEF Starts

\* One more node adds itself if a message begins there.
LEMMA StartsNext ==
  ASSUME NEW list, NEW kind, NEW n \in Nat
  PROVE  Starts(list, kind, n + 1) =
           IF list[n + 1].http = kind THEN Append(Starts(list, kind, n), n + 1)
           ELSE Starts(list, kind, n)
<1> DEFINE S == {i \in 1 .. n : list[i].http = kind}
           T == {i \in 1 .. n + 1 : list[i].http = kind}
<1>1. Enumerates(Starts(list, kind, n), S)
  BY StartsEnumerate
<1>2. CASE list[n + 1].http = kind
  <2>1. T = S \cup {n + 1}
    BY <1>2
  <2>2. \A y \in S : y < n + 1
    OBVIOUS
  <2> HIDE DEF S, T
  <2>3. Enumerates(Append(Starts(list, kind, n), n + 1), T)
    BY <1>1, <2>1, <2>2, NextInOrder
  <2>4. InOrder(T) = Append(Starts(list, kind, n), n + 1)
    BY <2>3, InOrderIs
  <2> QED
    BY <1>2, <2>4 DEF Starts, T
<1>3. CASE list[n + 1].http # kind
  <2>1. T = S
    BY <1>3
  <2> QED
    BY <1>3, <2>1 DEF Starts
<1> QED
  BY <1>2, <1>3

\* Fewer nodes hold the first of the messages: those that begin among them.
LEMMA StartsPrefix ==
  ASSUME NEW list, NEW kind, NEW n \in Nat, NEW v \in 0 .. n
  PROVE  LET few == Starts(list, kind, v)
             all == Starts(list, kind, n)
         IN /\ Len(few) <= Len(all)
            /\ \A k \in 1 .. Len(few) : few[k] = all[k]
            /\ \A k \in 1 .. Len(all) : k <= Len(few) <=> all[k] <= v
<1> DEFINE s == Starts(list, kind, n)
           K == {k \in 1 .. Len(s) : s[k] <= v} \cup {0}
           m == Greatest(K)
           t == [k \in 1 .. m |-> s[k]]
           F == {i \in 1 .. v : list[i].http = kind}
<1>1. /\ s \in Seq(Nat) /\ Len(s) \in Nat
      /\ \A k \in 1 .. Len(s) : s[k] \in 1 .. n /\ list[s[k]].http = kind
      /\ \A i, j \in 1 .. Len(s) : i < j => s[i] < s[j]
      /\ \A x \in 1 .. n : list[x].http = kind => \E k \in 1 .. Len(s) : s[k] = x
  BY StartsEnumerate, LenProperties DEF Enumerates
<1> HIDE DEF s
<1>2. K \subseteq Nat /\ K # {} /\ \A k \in K : k <= Len(s)
  BY <1>1
<1>3. m \in K /\ \A k \in K : k <= m
  <2> HIDE DEF K
  <2> QED
    BY <1>1, <1>2, GreatestIn
<1> HIDE DEF m
<1>4. m \in Nat /\ m <= Len(s)
  BY <1>2, <1>3
<1>5. \A k \in 1 .. Len(s) : k <= m <=> s[k] <= v
  <2> SUFFICES ASSUME NEW k \in 1 .. Len(s) PROVE k <= m <=> s[k] <= v
    OBVIOUS
  <2>1. s[k] <= v => k <= m
    BY <1>3
  <2>2. ASSUME k <= m PROVE s[k] <= v
    <3>1. m \in 1 .. Len(s) /\ s[m] <= v
      BY <1>1, <1>3, <1>4, <2>2
    <3>2. k = m \/ s[k] < s[m]
      BY <1>1, <1>4, <2>2, <3>1
    <3>3. s[k] \in Nat /\ s[m] \in Nat
      BY <1>1, <3>1
    <3> QED
      BY <3>1, <3>2, <3>3
  <2> QED
    BY <2>1, <2>2
<1>6. t \in Seq(Nat) /\ Len(t) = m /\ \A k \in 1 .. m : t[k] = s[k] /\ k \in 1 .. Len(s)
  <2>1. \A k \in 1 .. m : k \in 1 .. Len(s) /\ s[k] \in Nat
    BY <1>1, <1>4
  <2>2. t \in [1 .. m -> Nat]
    BY <2>1
  <2>3. t \in Seq(Nat)
    BY <1>4, <2>2
  <2>4. Len(t) \in Nat /\ DOMAIN t = 1 .. Len(t) /\ DOMAIN t = 1 .. m
    BY <2>3, LenProperties
  <2>5. Len(t) = m
    BY <1>4, <2>4
  <2> QED
    BY <2>1, <2>3, <2>5
<1> HIDE DEF t
<1>7. Enumerates(t, F)
  <2>1. \A k \in 1 .. m : t[k] \in F
    BY <1>1, <1>4, <1>5, <1>6
  <2>2. \A i, j \in 1 .. m : i < j => t[i] < t[j]
    BY <1>1, <1>6
  <2>3. \A x \in F : \E k \in 1 .. m : t[k] = x
    <3> SUFFICES ASSUME NEW x \in F PROVE \E k \in 1 .. m : t[k] = x
      OBVIOUS
    <3>1. PICK k \in 1 .. Len(s) : s[k] = x
      BY <1>1
    <3>2. k \in 1 .. m
      BY <1>4, <1>5, <3>1
    <3> QED
      BY <1>6, <3>1, <3>2
  <2> QED
    BY <1>6, <2>1, <2>2, <2>3 DEF Enumerates
<1>8. Starts(list, kind, v) = t
  BY <1>7, InOrderIs DEF Starts
<1>9. /\ Len(t) <= Len(s)
      /\ \A k \in 1 .. Len(t) : t[k] = s[k]
      /\ \A k \in 1 .. Len(s) : k <= Len(t) <=> s[k] <= v
  BY <1>4, <1>5, <1>6
<1> QED
  BY <1>8, <1>9 DEF s
-----------------------------------------------------------------------------
(* Sequence numbers. *)

\* A number cut to the word is in it, not greater, and the same if it was in it.
LEMMA Cut ==
  ASSUME NEW x \in Int
  PROVE  /\ x % SeqWord \in 0 .. SeqWord - 1
         /\ x \in Nat => x % SeqWord <= x
         /\ x \in 0 .. SeqWord - 1 => x % SeqWord = x
BY WordAssumption

\* Division with quotient and remainder.
LEMMA Quotient ==
  ASSUME NEW x \in Int, NEW q, q = x \div SeqWord, NEW r, r = x % SeqWord
  PROVE  q \in Int /\ r \in 0 .. SeqWord - 1 /\ x = SeqWord * q + r
BY WordAssumption

\* The remainder is the only one.
LEMMA Remainder ==
  ASSUME NEW x \in Int, NEW q \in Int, NEW r \in 0 .. SeqWord - 1, x = SeqWord * q + r
  PROVE  x % SeqWord = r
BY WordAssumption

\* Cutting a part of a sum does not change the cut of the sum.
LEMMA CutAdd ==
  ASSUME NEW a \in Int, NEW b \in Int
  PROVE  ((a % SeqWord) + b) % SeqWord = (a + b) % SeqWord
<1> DEFINE q == a \div SeqWord
           r == a % SeqWord
           p == (r + b) \div SeqWord
           s == (r + b) % SeqWord
<1>1. q \in Int /\ r \in 0 .. SeqWord - 1 /\ a = SeqWord * q + r
  BY Quotient, Zenon
<1> HIDE DEF q, r
<1>2. r + b \in Int
  BY <1>1, WordAssumption
<1>3. p \in Int /\ s \in 0 .. SeqWord - 1 /\ r + b = SeqWord * p + s
  BY <1>2, Quotient, Zenon
<1> HIDE DEF p, s
<1>4. a + b = SeqWord * (q + p) + s
  BY <1>1, <1>3, WordAssumption
<1>5. q + p \in Int /\ a + b \in Int
  BY <1>1, <1>3
<1>6. (a + b) % SeqWord = s
  BY <1>3, <1>4, <1>5, Remainder
<1> QED
  BY <1>6 DEF r, s

\* How far a number is from where it was counted from.
LEMMA Distance ==
  ASSUME NEW a \in Int, NEW p \in Int
  PROVE  (((a + p) % SeqWord) - a) % SeqWord = p % SeqWord
<1>1. (((a + p) % SeqWord) + (- a)) % SeqWord = ((a + p) + (- a)) % SeqWord
  BY CutAdd
<1>2. (a + p) + (- a) = p
  OBVIOUS
<1>3. ((a + p) % SeqWord) + (- a) = ((a + p) % SeqWord) - a
  BY Cut
<1> QED
  BY <1>1, <1>2, <1>3

-----------------------------------------------------------------------------
(* A list with one more node. *)

\* The nodes there were stay where they are.
LEMMA Appended ==
  ASSUME NEW T, NEW list \in Seq(T), NEW x \in T
  PROVE  /\ Append(list, x) \in Seq(T)
         /\ Len(list) \in Nat /\ Len(Append(list, x)) = Len(list) + 1
         /\ DOMAIN list = 1 .. Len(list)
         /\ DOMAIN Append(list, x) = 1 .. Len(list) + 1
         /\ \A i \in 1 .. Len(list) : Append(list, x)[i] = list[i] /\ list[i] \in T
         /\ Append(list, x)[Len(list) + 1] = x
BY AppendProperties, LenProperties

\* The number of nodes before the FIN.
LEMMA BeforeType ==
  ASSUME NEW list \in Seq(Nodes)
  PROVE  /\ Before(list) \in 0 .. Len(list)
         /\ Fins(list) = {} => Before(list) = Len(list)
<1>1. Len(list) \in Nat /\ DOMAIN list = 1 .. Len(list)
  BY LenProperties
<1>2. CASE list = <<>>
  BY <1>1, <1>2 DEF Before
<1>3. CASE list # <<>>
  <2>1. Len(list) \in DOMAIN list /\ Len(list) >= 1
    BY <1>1, <1>3
  <2>2. Before(list) = IF list[Len(list)].fin THEN Len(list) - 1 ELSE Len(list)
    BY <1>3 DEF Before
  <2>3. Fins(list) = {} => ~ list[Len(list)].fin
    BY <2>1 DEF Fins
  <2>4. CASE list[Len(list)].fin
    <3>1. Before(list) = Len(list) - 1
      BY <2>2, <2>4
    <3>2. Before(list) \in 0 .. Len(list)
      BY <1>1, <2>1, <3>1
    <3>3. Fins(list) # {}
      BY <2>3, <2>4
    <3> QED
      BY <3>2, <3>3
  <2>5. CASE ~ list[Len(list)].fin
    <3>1. Before(list) = Len(list)
      BY <2>2, <2>5
    <3> QED
      BY <1>1, <3>1
  <2> QED
    BY <2>4, <2>5
<1> QED
  BY <1>2, <1>3

\* A list that has no FIN gets a node, the FIN or not.
LEMMA BeforeAppended ==
  ASSUME NEW list \in Seq(Nodes), NEW n \in Nodes, Fins(list) = {}
  PROVE  /\ Before(Append(list, n)) = IF n.fin THEN Len(list) ELSE Len(list) + 1
         /\ Fins(Append(list, n)) = IF n.fin THEN {Len(list) + 1} ELSE {}
<1> DEFINE new == Append(list, n)
<1>1. /\ new \in Seq(Nodes) /\ Len(list) \in Nat /\ Len(new) = Len(list) + 1
      /\ DOMAIN list = 1 .. Len(list) /\ DOMAIN new = 1 .. Len(list) + 1
      /\ \A i \in 1 .. Len(list) : new[i] = list[i]
      /\ new[Len(list) + 1] = n
  BY Appended
<1>2. new # <<>>
  BY <1>1
<1> HIDE DEF new
<1>3. \A i \in 1 .. Len(list) : ~ new[i].fin
  BY <1>1 DEF Fins
<1>4. n.fin \in BOOLEAN
  BY DEF Nodes
<1>5. Before(new) = IF n.fin THEN Len(list) ELSE Len(list) + 1
  BY <1>1, <1>2, <1>4 DEF Before
<1>6. \A i \in DOMAIN new : new[i].fin <=> i = Len(list) + 1 /\ n.fin
  BY <1>1, <1>3
<1>7. Len(list) + 1 \in DOMAIN new
  BY <1>1
<1>8. Fins(new) = IF n.fin THEN {Len(list) + 1} ELSE {}
  BY <1>4, <1>6, <1>7 DEF Fins
<1> QED
  BY <1>5, <1>8 DEF new

\* A message begins at the new node if it is one of the kind and not the FIN.
LEMMA StartsAppended ==
  ASSUME NEW list \in Seq(Nodes), NEW n \in Nodes, NEW kind, Fins(list) = {}
  PROVE  Starts(Append(list, n), kind, Before(Append(list, n))) =
           IF n.http = kind /\ ~ n.fin THEN Append(Starts(list, kind, Before(list)), Len(list) + 1)
           ELSE Starts(list, kind, Before(list))
<1> DEFINE new == Append(list, n)
<1>1. /\ Len(list) \in Nat
      /\ \A i \in 1 .. Len(list) : list[i] = new[i]
      /\ new[Len(list) + 1] = n
  BY Appended
<1>2. Before(list) = Len(list)
  BY BeforeType
<1>3. n.fin \in BOOLEAN /\ Before(new) = IF n.fin THEN Len(list) ELSE Len(list) + 1
  BY BeforeAppended DEF Nodes
<1> HIDE DEF new
<1>4. Starts(new, kind, Len(list)) = Starts(list, kind, Len(list))
  BY <1>1, StartsSame
<1>5. Starts(new, kind, Len(list) + 1) =
        IF n.http = kind THEN Append(Starts(list, kind, Len(list)), Len(list) + 1)
        ELSE Starts(list, kind, Len(list))
  BY <1>1, <1>4, StartsNext
<1> QED
  BY <1>2, <1>3, <1>4, <1>5 DEF new
\* A list stays in order when the latest packet is added to it.
LEMMA ListedAppended ==
  ASSUME NEW list \in Seq(Nodes), NEW n \in Nodes, NEW kind,
         NEW t \in Nat, NEW u \in Nat, t <= u, NEW over \in BOOLEAN,
         n.time = u, n.http \in {"none", kind}, n.fin => over,
         Listed(list, kind, t, FALSE)
  PROVE  Listed(Append(list, n), kind, u, over) /\ Fins(list) = {}
<1> DEFINE new == Append(list, n)
<1>1. /\ Len(list) \in Nat /\ Len(new) = Len(list) + 1
      /\ DOMAIN list = 1 .. Len(list) /\ DOMAIN new = 1 .. Len(list) + 1
      /\ \A i \in 1 .. Len(list) : new[i] = list[i] /\ list[i] \in Nodes
      /\ new[Len(list) + 1] = n
  BY Appended
<1>2. \A i \in 1 .. Len(list) :
        /\ list[i].http \in {"none", kind} /\ list[i].time <= t /\ ~ list[i].fin
        /\ list[i].time \in Nat
  BY <1>1 DEF Listed, Nodes
<1>3. \A i, j \in 1 .. Len(list) : i <= j => list[i].time <= list[j].time
  BY <1>1 DEF Listed
<1> HIDE DEF new
<1>4. ASSUME NEW i \in DOMAIN new
      PROVE  /\ new[i].http \in {"none", kind}
             /\ new[i].time <= u
             /\ new[i].fin => over /\ i = Len(new) /\ new[i].time = u
  <2>1. CASE i \in 1 .. Len(list)
    <3>1. new[i] = list[i] /\ list[i].time <= u
      BY <1>1, <1>2, <2>1
    <3> QED
      BY <1>2, <2>1, <3>1
  <2>2. CASE i = Len(list) + 1
    <3>1. new[i] = n /\ i = Len(new)
      BY <1>1, <2>2
    <3>2. u <= u
      OBVIOUS
    <3> QED
      BY <3>1, <3>2
  <2> QED
    BY <1>1, <2>1, <2>2
<1>5. ASSUME NEW i \in DOMAIN new, NEW j \in DOMAIN new, i <= j
      PROVE  new[i].time <= new[j].time
  <2>1. CASE j \in 1 .. Len(list)
    <3>1. i \in 1 .. Len(list)
      BY <1>1, <1>5, <2>1
    <3> QED
      BY <1>1, <1>3, <1>5, <2>1, <3>1
  <2>2. CASE j = Len(list) + 1
    BY <1>1, <1>4, <2>2
  <2> QED
    BY <1>1, <2>1, <2>2
<1>6. Listed(new, kind, u, over)
  BY <1>4, <1>5 DEF Listed
<1>7. Fins(list) = {}
  BY <1>1, <1>2 DEF Fins
<1> QED
  BY <1>6, <1>7 DEF new

\* It stays in order while time passes.
LEMMA ListedWaits ==
  ASSUME NEW list \in Seq(Nodes), NEW kind,
         NEW t \in Nat, NEW u \in Nat, t <= u, NEW over \in BOOLEAN,
         Listed(list, kind, t, FALSE)
  PROVE  Listed(list, kind, u, over) /\ Fins(list) = {}
<1>1. DOMAIN list = 1 .. Len(list) /\ \A i \in DOMAIN list : list[i] \in Nodes
  BY LenProperties
<1>2. \A i \in DOMAIN list :
        /\ list[i].http \in {"none", kind} /\ list[i].time <= t /\ ~ list[i].fin
        /\ list[i].time \in Nat
  BY <1>1 DEF Listed, Nodes
<1>3. \A i \in DOMAIN list : list[i].time <= u
  BY <1>2
<1>4. \A i, j \in DOMAIN list : i <= j => list[i].time <= list[j].time
  BY DEF Listed
<1> QED
  BY <1>2, <1>3, <1>4 DEF Listed, Fins

-----------------------------------------------------------------------------
(* Messages. *)

\* The history of a side when its list gets a node of the given kind.
Grew(messages, new, list, len, http, fin) ==
  \/ http # "none" /\ ~ fin /\ new = Began(messages, list, len)
  \/ http = "none" /\ ~ fin /\ len = 0 /\ new = messages
  \/ http = "none" /\ ~ fin /\ len > 0 /\ messages # <<>> /\ new = Longer(messages, len)
  \/ fin /\ new = messages

\* The same messages begin at the same nodes.
SameStarts(messages, new) ==
  /\ new \in Seq(Messages) /\ Len(new) = Len(messages)
  /\ \A k \in 1 .. Len(messages) : new[k].at = messages[k].at

\* A message begun is the last one.
LEMMA BeganIs ==
  ASSUME NEW messages \in Seq(Messages), NEW at \in Nat, NEW len \in Nat
  PROVE  LET m   == [at |-> at, bytes |-> len]
             new == Append(messages, m)
         IN /\ new \in Seq(Messages) /\ Len(messages) \in Nat
            /\ Len(new) = Len(messages) + 1
            /\ \A k \in 1 .. Len(messages) : new[k] = messages[k]
            /\ new[Len(messages) + 1] = m
<1>1. [at |-> at, bytes |-> len] \in Messages
  BY DEF Messages
<1> QED
  BY <1>1, Appended

\* Only the bytes of the last message change when it gets longer.
LEMMA LongerIs ==
  ASSUME NEW messages \in Seq(Messages), messages # <<>>, NEW len \in Nat
  PROVE  LET new  == Longer(messages, len)
             last == Len(messages)
         IN /\ last \in Nat \ {0} /\ SameStarts(messages, new)
            /\ \A k \in 1 .. last - 1 : new[k] = messages[k]
            /\ new[last].bytes = messages[last].bytes + len
<1> DEFINE last == Len(messages)
           m    == messages[last]
           n    == [m EXCEPT !.bytes = @ + len]
<1>1. last \in Nat \ {0} /\ DOMAIN messages = 1 .. last /\ messages \in [1 .. last -> Messages]
  BY EmptySeq, LenProperties
<1>2. last \in 1 .. last /\ m \in Messages
  BY <1>1
<1>3. n \in Messages /\ n.at = m.at /\ n.bytes = m.bytes + len
  BY <1>2 DEF Messages
<1>4. Longer(messages, len) = [messages EXCEPT ![last] = n]
  BY <1>1, <1>2 DEF Longer
<1> HIDE DEF n
<1>5. /\ [messages EXCEPT ![last] = n] \in Seq(Messages)
      /\ Len([messages EXCEPT ![last] = n]) = last
  BY <1>2, <1>3, ExceptSeq
<1> DEFINE new == Longer(messages, len)
<1>6. new \in Seq(Messages) /\ Len(new) = last
  BY <1>4, <1>5
<1>7. \A k \in 1 .. last : new[k] = IF k = last THEN n ELSE messages[k]
  BY <1>1, <1>4
<1> HIDE DEF new, last
<1>8. \A k \in 1 .. last : new[k].at = messages[k].at
  BY <1>3, <1>7
<1>9. \A k \in 1 .. last - 1 : new[k] = messages[k]
  BY <1>1, <1>7
<1>10. new[last].bytes = m.bytes + len
  BY <1>2, <1>3, <1>7
<1> QED
  BY <1>1, <1>6, <1>8, <1>9, <1>10 DEF SameStarts, new, last
\* Messages that begin where they did still match the list.
LEMMA BeginKept ==
  ASSUME NEW s \in Seq(Nat), NEW messages, NEW new,
         Begin(s, messages), SameStarts(messages, new)
  PROVE  Begin(s, new)
<1>1. Len(s) \in Nat /\ DOMAIN s = 1 .. Len(s)
  BY LenProperties
<1> QED
  BY <1>1 DEF Begin, SameStarts

\* A message begun at the new node matches the list.
LEMMA BeginBegun ==
  ASSUME NEW s \in Seq(Nat), NEW messages \in Seq(Messages),
         NEW at \in Nat, NEW len \in Nat, Begin(s, messages)
  PROVE  Begin(Append(s, at), Append(messages, [at |-> at, bytes |-> len]))
<1> DEFINE u   == Append(s, at)
           new == Append(messages, [at |-> at, bytes |-> len])
<1>1. /\ Len(s) \in Nat /\ Len(u) = Len(s) + 1 /\ DOMAIN s = 1 .. Len(s)
      /\ DOMAIN u = 1 .. Len(s) + 1
      /\ \A i \in 1 .. Len(s) : u[i] = s[i]
      /\ u[Len(s) + 1] = at
  BY Appended
<1>2. /\ Len(new) = Len(messages) + 1
      /\ \A k \in 1 .. Len(messages) : new[k] = messages[k]
      /\ new[Len(messages) + 1].at = at
  BY BeganIs
<1>3. Len(s) = Len(messages) /\ \A k \in 1 .. Len(s) : s[k] = messages[k].at
  BY <1>1 DEF Begin
<1> HIDE DEF u, new
<1>4. Len(u) = Len(new)
  BY <1>1, <1>2, <1>3
<1>5. \A k \in DOMAIN u : u[k] = new[k].at
  BY <1>1, <1>2, <1>3
<1>6. Begin(u, new)
  BY <1>4, <1>5 DEF Begin
<1> QED
  BY <1>6 DEF u, new

\* Messages begin at nodes before the FIN, one after the other.
LEMMA Placed ==
  ASSUME NEW list \in Seq(Nodes), NEW messages \in Seq(Messages), NEW kind,
         Begin(Starts(list, kind, Before(list)), messages)
  PROVE  /\ \A k \in 1 .. Len(messages) :
              /\ messages[k].at \in 1 .. Before(list)
              /\ list[messages[k].at].http = kind
              /\ End(list, messages, k) \in messages[k].at .. Before(list)
         /\ \A j, k \in 1 .. Len(messages) : j < k => messages[j].at < messages[k].at
         /\ \A i \in 1 .. Before(list) :
              list[i].http = kind => \E k \in 1 .. Len(messages) : messages[k].at = i
<1> DEFINE s == Starts(list, kind, Before(list))
<1>1. Before(list) \in Nat
  BY BeforeType, LenProperties
<1>2. /\ s \in Seq(Nat)
      /\ \A k \in 1 .. Len(s) : s[k] \in 1 .. Before(list) /\ list[s[k]].http = kind
      /\ \A i, j \in 1 .. Len(s) : i < j => s[i] < s[j]
      /\ \A i \in 1 .. Before(list) :
           list[i].http = kind => \E k \in 1 .. Len(s) : s[k] = i
  <2>1. /\ Enumerates(s, {i \in 1 .. Before(list) : list[i].http = kind})
        /\ s \in Seq(Nat)
        /\ \A k \in 1 .. Len(s) : s[k] \in 1 .. Before(list) /\ list[s[k]].http = kind
    BY <1>1, StartsEnumerate
  <2> HIDE DEF s
  <2> QED
    BY <2>1 DEF Enumerates
<1>3. Len(s) \in Nat /\ DOMAIN s = 1 .. Len(s)
  BY <1>2, LenProperties
<1>4. Len(s) = Len(messages) /\ \A k \in 1 .. Len(s) : s[k] = messages[k].at
  BY <1>3 DEF Begin
<1> HIDE DEF s
<1>5. \A j, k \in 1 .. Len(messages) : j < k => messages[j].at < messages[k].at
  BY <1>2, <1>4
<1>6. \A k \in 1 .. Len(messages) :
        messages[k].at \in 1 .. Before(list) /\ list[messages[k].at].http = kind
  BY <1>2, <1>4
<1>7. ASSUME NEW k \in 1 .. Len(messages)
      PROVE  End(list, messages, k) \in messages[k].at .. Before(list)
  <2>1. CASE k < Len(messages)
    <3>1. k + 1 \in 1 .. Len(messages) /\ k < k + 1
      BY <1>3, <1>4, <2>1
    <3>2. /\ messages[k].at < messages[k + 1].at
          /\ messages[k].at \in 1 .. Before(list) /\ messages[k + 1].at \in 1 .. Before(list)
      BY <1>5, <1>6, <3>1
    <3>3. End(list, messages, k) = messages[k + 1].at - 1
      BY <2>1 DEF End
    <3> QED
      BY <1>1, <3>2, <3>3
  <2>2. CASE ~ (k < Len(messages))
    <3>1. End(list, messages, k) = Before(list)
      BY <2>2 DEF End
    <3> QED
      BY <1>1, <1>6, <3>1
  <2> QED
    BY <2>1, <2>2
<1>8. \A i \in 1 .. Before(list) :
        list[i].http = kind => \E k \in 1 .. Len(messages) : messages[k].at = i
  BY <1>2, <1>4
<1> QED
  BY <1>5, <1>6, <1>7, <1>8

-----------------------------------------------------------------------------
(* The measures of messages. *)

\* What Measured says of one message.
MeasuredAt(list, messages, k) ==
  LET m == messages[k]
      n == list[m.at]
      e == End(list, messages, k)
  IN /\ m.bytes >= Header
     /\ n.nxt = (n.seq + Header) % SeqWord /\ n.hdlen = Header /\ n.dl = Header
     /\ \A i \in m.at .. e : \E p \in 0 .. m.bytes : list[i].nxt = (n.seq + p) % SeqWord
     /\ e # m.at => list[e].nxt = (n.seq + m.bytes) % SeqWord

\* Measured speaks of each message, and of the last one where the flow is not over.
LEMMA MeasuredIs ==
  ASSUME NEW list, NEW messages \in Seq(Messages), NEW num, NEW over
  PROVE  Measured(list, messages, num, over) <=>
           /\ \A k \in 1 .. Len(messages) : MeasuredAt(list, messages, k)
           /\ ~ over /\ messages # <<>> =>
                num = (list[messages[Len(messages)].at].seq + messages[Len(messages)].bytes)
                        % SeqWord
<1>1. DOMAIN messages = 1 .. Len(messages)
  BY LenProperties
<1> QED
  BY <1>1 DEF Measured, MeasuredAt

\* The measure of a message depends on its own nodes only.
LEMMA MeasuredSame ==
  ASSUME NEW list, NEW messages, NEW other, NEW new, NEW k, NEW j,
         new[j] = messages[k], End(other, new, j) = End(list, messages, k),
         messages[k].at \in Nat, End(list, messages, k) \in Nat,
         messages[k].at <= End(list, messages, k),
         \A i \in messages[k].at .. End(list, messages, k) : other[i] = list[i],
         MeasuredAt(list, messages, k)
  PROVE  MeasuredAt(other, new, j)
<1> DEFINE m == messages[k]
           e == End(list, messages, k)
<1>1. other[m.at] = list[m.at] /\ other[e] = list[e]
  OBVIOUS
<1> QED
  BY <1>1 DEF MeasuredAt
\* Measures of a flow that goes on hold when it is over.
LEMMA MeasuredWaits ==
  ASSUME NEW list, NEW messages \in Seq(Messages), NEW num, NEW over \in BOOLEAN,
         Measured(list, messages, num, FALSE)
  PROVE  Measured(list, messages, num, over)
BY MeasuredIs

\* The FIN does not change the measures of the messages before it.
LEMMA MeasuredFin ==
  ASSUME NEW list \in Seq(Nodes), NEW messages \in Seq(Messages), NEW kind, NEW num,
         NEW n \in Nodes, n.fin, NEW to, Fins(list) = {},
         Begin(Starts(list, kind, Before(list)), messages),
         Measured(list, messages, num, FALSE)
  PROVE  Measured(Append(list, n), messages, to, TRUE)
<1> DEFINE new == Append(list, n)
<1>1. Before(list) = Len(list) /\ Before(new) = Len(list) /\ Len(list) \in Nat
  BY BeforeType, BeforeAppended, LenProperties
<1>2. \A i \in 1 .. Len(list) : new[i] = list[i]
  BY Appended
<1>3. ASSUME NEW k \in 1 .. Len(messages) PROVE MeasuredAt(new, messages, k)
  <2>1. MeasuredAt(list, messages, k)
    BY MeasuredIs
  <2>2. messages[k].at \in 1 .. Len(list) /\ End(list, messages, k) \in messages[k].at .. Len(list)
    BY <1>1, Placed
  <2>3. End(new, messages, k) = End(list, messages, k)
    BY <1>1 DEF End
  <2> HIDE DEF new
  <2>4. \A i \in messages[k].at .. End(list, messages, k) : new[i] = list[i]
    BY <1>1, <1>2, <2>2
  <2>5. /\ messages[k].at \in Nat /\ End(list, messages, k) \in Nat
        /\ messages[k].at <= End(list, messages, k)
    BY <1>1, <2>2
  <2> QED
    BY <2>1, <2>3, <2>4, <2>5, MeasuredSame
<1> QED
  BY <1>3, MeasuredIs

\* A message begun at the new node has its measure, and the others keep theirs.
LEMMA MeasuredBegun ==
  ASSUME NEW list \in Seq(Nodes), NEW messages \in Seq(Messages), NEW kind,
         NEW num \in 0 .. SeqWord - 1, NEW len \in Nat, len >= Header,
         NEW n \in Nodes, ~ n.fin, Fins(list) = {},
         n.seq = num, n.nxt = (num + Header) % SeqWord, n.hdlen = Header, n.dl = Header,
         Begin(Starts(list, kind, Before(list)), messages),
         Measured(list, messages, num, FALSE)
  PROVE  Measured(Append(list, n), Append(messages, [at |-> Len(list) + 1, bytes |-> len]),
                  (num + len) % SeqWord, FALSE)
<1> DEFINE other == Append(list, n)
           m     == [at |-> Len(list) + 1, bytes |-> len]
           new   == Append(messages, m)
           last  == Len(messages)
<1>1. Before(list) = Len(list) /\ Before(other) = Len(list) + 1 /\ Len(list) \in Nat
  BY BeforeType, BeforeAppended, LenProperties
<1>2. (\A i \in 1 .. Len(list) : other[i] = list[i]) /\ other[Len(list) + 1] = n
  BY Appended
<1>3. /\ new \in Seq(Messages) /\ last \in Nat /\ Len(new) = last + 1
      /\ \A k \in 1 .. last : new[k] = messages[k]
      /\ new[last + 1] = m
  BY <1>1, BeganIs
<1>4. m.at = Len(list) + 1 /\ m.bytes = len
  OBVIOUS
<1> HIDE DEF new, other, m, last
<1>5. ASSUME NEW k \in 1 .. last PROVE MeasuredAt(other, new, k)
  <2>1. MeasuredAt(list, messages, k)
    BY MeasuredIs DEF last
  <2>2. messages[k].at \in 1 .. Len(list) /\ End(list, messages, k) \in messages[k].at .. Len(list)
    BY <1>1, Placed DEF last
  <2>3. End(other, new, k) = End(list, messages, k)
    <3>1. End(other, new, k) = new[k + 1].at - 1
      BY <1>3 DEF End
    <3>2. CASE k < last
      <4>1. End(list, messages, k) = messages[k + 1].at - 1
        BY <3>2 DEF End, last
      <4>2. k + 1 \in 1 .. last
        BY <1>3, <3>2
      <4> QED
        BY <1>3, <3>1, <4>1, <4>2
    <3>3. CASE k = last
      <4>1. End(list, messages, k) = Len(list)
        BY <1>1, <1>3, <3>3 DEF End, last
      <4> QED
        BY <1>1, <1>3, <1>4, <3>1, <3>3, <4>1
    <3> QED
      BY <1>3, <3>2, <3>3
  <2>4. \A i \in messages[k].at .. End(list, messages, k) : other[i] = list[i]
    BY <1>1, <1>2, <2>2
  <2>5. /\ messages[k].at \in Nat /\ End(list, messages, k) \in Nat
        /\ messages[k].at <= End(list, messages, k)
    BY <1>1, <2>2
  <2> QED
    BY <1>3, <2>1, <2>3, <2>4, <2>5, MeasuredSame
<1>6. MeasuredAt(other, new, last + 1)
  <2>1. End(other, new, last + 1) = Len(list) + 1
    BY <1>1, <1>3 DEF End
  <2>2. Header \in 0 .. len
    BY ConversationAssumption
  <2>3. \A i \in Len(list) + 1 .. Len(list) + 1 :
          \E p \in 0 .. len : other[i].nxt = (n.seq + p) % SeqWord
    <3>1. n.nxt = (n.seq + Header) % SeqWord
      OBVIOUS
    <3>2. \A i \in Len(list) + 1 .. Len(list) + 1 : other[i] = n
      BY <1>1, <1>2
    <3> QED
      BY <2>2, <3>1, <3>2
  <2> QED
    BY <1>2, <1>3, <1>4, <2>1, <2>3 DEF MeasuredAt
<1>7. \A k \in 1 .. Len(new) : MeasuredAt(other, new, k)
  BY <1>3, <1>5, <1>6
<1>8. (num + len) % SeqWord = (other[new[Len(new)].at].seq + new[Len(new)].bytes) % SeqWord
  BY <1>2, <1>3, <1>4
<1>9. Measured(other, new, (num + len) % SeqWord, FALSE)
  BY <1>3, <1>7, <1>8, MeasuredIs
<1> QED
  BY <1>9 DEF other, new, m

\* A node that goes on with the last message, or acknowledges, ends with the bytes
\* the message then has.
LEMMA MeasuredGrown ==
  ASSUME NEW list \in Seq(Nodes), NEW messages \in Seq(Messages), NEW kind,
         NEW num \in 0 .. SeqWord - 1, NEW len \in Nat,
         NEW n \in Nodes, ~ n.fin, Fins(list) = {},
         n.nxt = (num + len) % SeqWord,
         NEW new, SameStarts(messages, new),
         \A k \in 1 .. Len(messages) - 1 : new[k] = messages[k],
         messages # <<>> => new[Len(messages)].bytes = messages[Len(messages)].bytes + len,
         Begin(Starts(list, kind, Before(list)), messages),
         Measured(list, messages, num, FALSE)
  PROVE  Measured(Append(list, n), new, (num + len) % SeqWord, FALSE)
<1> DEFINE other == Append(list, n)
           last  == Len(messages)
<1>1. Before(list) = Len(list) /\ Before(other) = Len(list) + 1 /\ Len(list) \in Nat
  BY BeforeType, BeforeAppended, LenProperties
<1>2. (\A i \in 1 .. Len(list) : other[i] = list[i] /\ list[i] \in Nodes) /\ other[Len(list) + 1] = n
  BY Appended
<1>3. last \in Nat /\ (messages = <<>> <=> last = 0) /\ \A k \in 1 .. last : messages[k] \in Messages
  BY EmptySeq, LenProperties
<1>4. new \in Seq(Messages) /\ Len(new) = last /\ \A k \in 1 .. last : new[k].at = messages[k].at
  BY DEF SameStarts
<1>5. \A k \in 1 .. last - 1 : new[k] = messages[k]
  OBVIOUS
<1>6. \A k \in 1 .. last :
        /\ messages[k].at \in 1 .. Len(list)
        /\ End(list, messages, k) \in messages[k].at .. Len(list)
        /\ MeasuredAt(list, messages, k)
  BY <1>1, Placed, MeasuredIs
<1>7. messages # <<>> => num = (list[messages[last].at].seq + messages[last].bytes) % SeqWord
  BY MeasuredIs
<1>8. messages # <<>> => new[last].bytes = messages[last].bytes + len
  OBVIOUS
<1> HIDE DEF other, last
<1>9. ASSUME NEW k \in 1 .. last - 1 PROVE MeasuredAt(other, new, k)
  <2>1. k \in 1 .. last /\ k + 1 \in 1 .. last /\ k < last
    BY <1>3
  <2>2. End(other, new, k) = End(list, messages, k)
    BY <1>4, <2>1 DEF End, last
  <2>3. \A i \in messages[k].at .. End(list, messages, k) : other[i] = list[i]
    BY <1>1, <1>2, <1>6, <2>1
  <2>4. /\ messages[k].at \in Nat /\ End(list, messages, k) \in Nat
        /\ messages[k].at <= End(list, messages, k)
    BY <1>1, <1>6, <2>1
  <2> QED
    BY <1>5, <1>6, <2>1, <2>2, <2>3, <2>4, MeasuredSame
<1>10. ASSUME last # 0
       PROVE  /\ MeasuredAt(other, new, last)
              /\ (num + len) % SeqWord = (other[new[last].at].seq + new[last].bytes) % SeqWord
  <2> DEFINE m == messages[last]
             s == list[m.at].seq
  <2>1. last \in 1 .. last /\ messages # <<>>
    BY <1>3, <1>10
  <2>2. m.at \in 1 .. Len(list) /\ m.bytes \in Nat /\ s \in Int
    <3>1. m.at \in 1 .. Len(list)
      BY <1>6, <2>1
    <3>2. m.bytes \in Nat
      BY <1>3, <2>1 DEF Messages
    <3>3. list[m.at] \in Nodes
      BY <1>2, <3>1
    <3>4. s \in 0 .. SeqWord - 1
      <4> HIDE DEF m
      <4> QED
        BY <3>3 DEF Nodes
    <3> QED
      BY <3>1, <3>2, <3>4, WordAssumption
  <2>3. /\ m.bytes >= Header /\ list[m.at].nxt = (s + Header) % SeqWord
        /\ list[m.at].hdlen = Header /\ list[m.at].dl = Header
        /\ \A i \in m.at .. End(list, messages, last) :
             \E p \in 0 .. m.bytes : list[i].nxt = (s + p) % SeqWord
    BY <1>6, <2>1 DEF MeasuredAt
  <2>4. End(list, messages, last) = Len(list) /\ End(other, new, last) = Len(list) + 1
    BY <1>1, <1>3, <1>4 DEF End, last
  <2>5. new[last].at = m.at /\ new[last].bytes = m.bytes + len /\ other[m.at] = list[m.at]
    BY <1>2, <1>4, <1>8, <2>1, <2>2
  <2>6. (num + len) % SeqWord = (s + (m.bytes + len)) % SeqWord
    <3>1. num = (s + m.bytes) % SeqWord
      BY <1>7, <2>1
    <3>2. (num + len) % SeqWord = ((s + m.bytes) + len) % SeqWord
      <4>1. s + m.bytes \in Int /\ len \in Int
        BY <2>2
      <4> HIDE DEF s, m
      <4> QED
        BY <3>1, <4>1, CutAdd
    <3>3. (s + m.bytes) + len = s + (m.bytes + len)
      BY <2>2
    <3> QED
      BY <3>2, <3>3
  <2> HIDE DEF m, s
  <2>7. ASSUME NEW i \in m.at .. Len(list) + 1
        PROVE  \E p \in 0 .. m.bytes + len : other[i].nxt = (s + p) % SeqWord
    <3>1. CASE i = Len(list) + 1
      <4>1. m.bytes + len \in 0 .. m.bytes + len
        BY <2>2
      <4>2. other[i].nxt = (s + (m.bytes + len)) % SeqWord
        BY <1>2, <2>6, <3>1
      <4> QED
        BY <4>1, <4>2
    <3>2. CASE i # Len(list) + 1
      <4>1. i \in m.at .. Len(list) /\ i \in 1 .. Len(list)
        BY <1>1, <2>2, <3>2
      <4>2. PICK p \in 0 .. m.bytes : list[i].nxt = (s + p) % SeqWord
        BY <2>3, <2>4, <4>1
      <4>3. p \in 0 .. m.bytes + len
        BY <2>2
      <4> QED
        BY <1>2, <4>1, <4>2, <4>3
    <3> QED
      BY <3>1, <3>2
  <2>8. other[Len(list) + 1].nxt = (s + (m.bytes + len)) % SeqWord
    BY <1>2, <2>6
  <2>9. m.bytes + len >= Header
    BY <2>2, <2>3, ConversationAssumption
  <2>10. other[m.at].seq = s
    BY <2>5 DEF s
  <2>11. MeasuredAt(other, new, last)
    BY <2>3, <2>4, <2>5, <2>7, <2>8, <2>9, <2>10 DEF MeasuredAt
  <2> QED
    BY <2>5, <2>6, <2>10, <2>11
<1>11. \A k \in 1 .. Len(new) : MeasuredAt(other, new, k)
  BY <1>3, <1>4, <1>9, <1>10
<1>12. new # <<>> => last # 0
  BY <1>4, EmptySeq
<1>13. Measured(other, new, (num + len) % SeqWord, FALSE)
  BY <1>4, <1>10, <1>11, <1>12, MeasuredIs
<1> QED
  BY <1>13 DEF other
-----------------------------------------------------------------------------
(* The history where headers are missed. *)

\* What agrees goes on to agree when only the lengths of messages change.
LEMMA AgreeKept ==
  ASSUME NEW s, NEW messages, NEW new, NEW n \in Nat, NEW m \in Nat, m <= n,
         Len(s) \in Nat, Len(messages) \in Nat,
         Agree(s, messages, n), SameStarts(messages, new)
  PROVE  Agree(s, new, m)
<1> SUFFICES ASSUME NEW k \in 1 .. m
             PROVE  /\ k <= Len(s) <=> k <= Len(new)
                    /\ k <= Len(s) => s[k] = new[k].at
  BY DEF Agree
<1>1. k \in 1 .. n
  OBVIOUS
<1>2. k <= Len(s) <=> k <= Len(messages)
  BY <1>1 DEF Agree
<1>3. k <= Len(s) => s[k] = messages[k].at
  BY <1>1 DEF Agree
<1>4. Len(new) = Len(messages) /\ (k <= Len(messages) => new[k].at = messages[k].at)
  BY DEF SameStarts
<1> QED
  BY <1>2, <1>3, <1>4

\* A message begun in both is one more that agrees.
LEMMA AgreeBegun ==
  ASSUME NEW s \in Seq(Nat), NEW messages \in Seq(Messages), NEW n \in Nat,
         NEW at \in Nat, NEW len \in Nat, Agree(s, messages, n)
  PROVE  Agree(Append(s, at), Append(messages, [at |-> at, bytes |-> len]), n)
<1> DEFINE u   == Append(s, at)
           new == Append(messages, [at |-> at, bytes |-> len])
<1>1. /\ Len(s) \in Nat /\ Len(u) = Len(s) + 1
      /\ \A i \in 1 .. Len(s) : u[i] = s[i]
      /\ u[Len(s) + 1] = at
  BY Appended
<1>2. /\ Len(messages) \in Nat /\ Len(new) = Len(messages) + 1
      /\ \A k \in 1 .. Len(messages) : new[k] = messages[k]
      /\ new[Len(messages) + 1].at = at
  BY BeganIs
<1>3. \A k \in 1 .. n : /\ k <= Len(s) <=> k <= Len(messages)
                        /\ k <= Len(s) => s[k] = messages[k].at
  BY DEF Agree
<1> HIDE DEF u, new
<1>4. ASSUME NEW k \in 1 .. n
      PROVE  /\ k <= Len(u) <=> k <= Len(new)
             /\ k <= Len(u) => u[k] = new[k].at
  <2>1. CASE Len(s) = Len(messages)
    <3>1. CASE k <= Len(s)
      <4>1. k \in 1 .. Len(s)
        BY <1>1, <3>1
      <4> QED
        BY <1>1, <1>2, <1>3, <2>1, <3>1, <4>1
    <3>2. CASE ~ (k <= Len(s))
      BY <1>1, <1>2, <2>1, <3>2
    <3> QED
      BY <3>1, <3>2
  <2>2. CASE Len(s) < Len(messages)
    <3>1. n <= Len(s)
      <4> SUFFICES ASSUME ~ (n <= Len(s)) PROVE FALSE
        OBVIOUS
      <4>1. Len(s) + 1 \in 1 .. n
        BY <1>1
      <4> QED
        BY <1>1, <1>2, <1>3, <2>2, <4>1
    <3>2. k \in 1 .. Len(s) /\ k \in 1 .. Len(messages)
      BY <1>1, <1>2, <2>2, <3>1
    <3> QED
      BY <1>1, <1>2, <1>3, <3>2
  <2>3. CASE Len(messages) < Len(s)
    <3>1. n <= Len(messages)
      <4> SUFFICES ASSUME ~ (n <= Len(messages)) PROVE FALSE
        OBVIOUS
      <4>1. Len(messages) + 1 \in 1 .. n
        BY <1>2
      <4> QED
        BY <1>1, <1>2, <1>3, <2>3, <4>1
    <3>2. k \in 1 .. Len(s) /\ k \in 1 .. Len(messages)
      BY <1>1, <1>2, <2>3, <3>1
    <3> QED
      BY <1>1, <1>2, <1>3, <3>2
  <2> QED
    BY <1>1, <1>2, <2>1, <2>2, <2>3
<1>5. Agree(u, new, n)
  BY <1>4 DEF Agree
<1> QED
  BY <1>5 DEF u, new

\* What comes before a message whose header was missed goes on to agree.
LEMMA AgreeMissed ==
  ASSUME NEW s, NEW messages \in Seq(Messages), NEW n \in Nat, NEW m \in Nat,
         m <= n, m <= Len(messages), Len(s) \in Nat,
         NEW at \in Nat, NEW len \in Nat, Agree(s, messages, n)
  PROVE  Agree(s, Append(messages, [at |-> at, bytes |-> len]), m)
<1> DEFINE new == Append(messages, [at |-> at, bytes |-> len])
<1>1. /\ Len(messages) \in Nat /\ Len(new) = Len(messages) + 1
      /\ \A k \in 1 .. Len(messages) : new[k] = messages[k]
  BY BeganIs
<1> HIDE DEF new
<1>2. ASSUME NEW k \in 1 .. m
      PROVE  /\ k <= Len(s) <=> k <= Len(new)
             /\ k <= Len(s) => s[k] = new[k].at
  <2>1. k \in 1 .. n /\ k \in 1 .. Len(messages)
    BY <1>1
  <2>2. k <= Len(s) /\ s[k] = messages[k].at
    BY <2>1 DEF Agree
  <2> QED
    BY <1>1, <2>1, <2>2
<1>3. Agree(s, new, m)
  BY <1>2 DEF Agree
<1> QED
  BY <1>3 DEF new

\* And so does what comes before a response too many.
LEMMA AgreeExtra ==
  ASSUME NEW s \in Seq(Nat), NEW messages, NEW n \in Nat, NEW m \in Nat,
         m <= n, Len(messages) \in Nat, m <= Len(messages), NEW at \in Nat,
         Agree(s, messages, n)
  PROVE  Agree(Append(s, at), messages, m)
<1> DEFINE u == Append(s, at)
<1>1. /\ Len(s) \in Nat /\ Len(u) = Len(s) + 1
      /\ \A i \in 1 .. Len(s) : u[i] = s[i]
  BY Appended
<1> HIDE DEF u
<1>2. ASSUME NEW k \in 1 .. m
      PROVE  /\ k <= Len(u) <=> k <= Len(messages)
             /\ k <= Len(u) => u[k] = messages[k].at
  <2>1. k \in 1 .. n /\ k <= Len(messages)
    OBVIOUS
  <2>2. k <= Len(s) /\ s[k] = messages[k].at
    BY <2>1 DEF Agree
  <2>3. k \in 1 .. Len(s)
    BY <1>1, <2>2
  <2> QED
    BY <1>1, <2>1, <2>2, <2>3
<1>3. Agree(u, messages, m)
  BY <1>2 DEF Agree
<1> QED
  BY <1>3 DEF u

\* A response stays where it stands when the history gets longer.
LEMMA ShiftedKept ==
  ASSUME NEW s \in Seq(Nat), NEW messages, NEW new,
         Len(messages) \in Nat, Len(new) \in Nat, Len(messages) <= Len(new),
         \A k \in 1 .. Len(messages) : new[k].at = messages[k].at,
         Shifted(s, messages)
  PROVE  Shifted(s, new)
<1> SUFFICES ASSUME NEW k \in DOMAIN s
             PROVE  \E i \in k .. Len(new) : s[k] = new[i].at
  BY DEF Shifted
<1>1. PICK i \in k .. Len(messages) : s[k] = messages[i].at
  BY DEF Shifted
<1>2. k \in Nat \ {0}
  BY LenProperties
<1>3. i \in 1 .. Len(messages) /\ i \in k .. Len(new)
  BY <1>1, <1>2
<1> QED
  BY <1>1, <1>3

\* A response begun in both stands no later in the list.
LEMMA ShiftedBegun ==
  ASSUME NEW s \in Seq(Nat), NEW messages \in Seq(Messages),
         NEW at \in Nat, NEW len \in Nat, Shifted(s, messages)
  PROVE  Shifted(Append(s, at), Append(messages, [at |-> at, bytes |-> len]))
<1> DEFINE u   == Append(s, at)
           new == Append(messages, [at |-> at, bytes |-> len])
<1>1. /\ Len(s) \in Nat /\ Len(u) = Len(s) + 1
      /\ DOMAIN u = 1 .. Len(s) + 1 /\ DOMAIN s = 1 .. Len(s)
      /\ \A i \in 1 .. Len(s) : u[i] = s[i]
      /\ u[Len(s) + 1] = at
  BY Appended
<1>2. /\ new \in Seq(Messages) /\ Len(messages) \in Nat /\ Len(new) = Len(messages) + 1
      /\ \A k \in 1 .. Len(messages) : new[k] = messages[k]
      /\ new[Len(messages) + 1].at = at
  BY BeganIs
<1> HIDE DEF u, new
<1>3. ASSUME NEW k \in 1 .. Len(s) PROVE \E i \in k .. Len(messages) : s[k] = messages[i].at
  BY <1>1 DEF Shifted
<1>4. Len(s) <= Len(messages)
  <2>1. CASE Len(s) = 0
    BY <1>2, <2>1
  <2>2. CASE Len(s) # 0
    <3>1. Len(s) \in 1 .. Len(s)
      BY <1>1, <2>2
    <3>2. PICK i \in Len(s) .. Len(messages) : s[Len(s)] = messages[i].at
      BY <1>3, <3>1
    <3> QED
      BY <1>1, <1>2, <3>2
  <2> QED
    BY <2>1, <2>2
<1>5. ASSUME NEW k \in DOMAIN u PROVE \E i \in k .. Len(new) : u[k] = new[i].at
  <2>1. CASE k \in 1 .. Len(s)
    <3>1. PICK i \in k .. Len(messages) : s[k] = messages[i].at
      BY <1>3, <2>1
    <3>2. i \in 1 .. Len(messages) /\ i \in k .. Len(new)
      BY <1>1, <1>2, <2>1, <3>1
    <3> QED
      BY <1>1, <1>2, <2>1, <3>1, <3>2
  <2>2. CASE k = Len(s) + 1
    <3>1. Len(messages) + 1 \in k .. Len(new)
      BY <1>1, <1>2, <1>4, <2>2
    <3> QED
      BY <1>1, <1>2, <2>2, <3>1
  <2> QED
    BY <1>1, <2>1, <2>2
<1>6. Shifted(u, new)
  BY <1>5 DEF Shifted
<1> QED
  BY <1>6 DEF u, new
-----------------------------------------------------------------------------
(* What tcp_order makes of a side. *)

\* The fields of order_t stay what they are.
LEMMA OrderFields ==
  ASSUME NEW o, NEW n, DOMAIN o = DOMAIN NewOrder
  PROVE  DOMAIN tcp_order(o, n) = DOMAIN NewOrder
<1>1. DOMAIN o = {"list", "last", "num"} /\ DOMAIN NewOrder = {"list", "last", "num"}
  BY DEF NewOrder
<1>2. \A x, y, z : DOMAIN [list |-> x, last |-> y, num |-> z] = {"list", "last", "num"}
  OBVIOUS
<1>3. \A x : DOMAIN [o EXCEPT !.list = x] = {"list", "last", "num"}
  BY <1>1
<1>4. \A c, m : DOMAIN Linked(o, c, m) = {"list", "last", "num"}
  BY <1>2 DEF Linked
<1>5. \A fr, c : DOMAIN Place(o, n, fr, c) = {"list", "last", "num"}
  <2> SUFFICES ASSUME NEW fr, NEW c PROVE DOMAIN Place(o, n, fr, c) = {"list", "last", "num"}
    OBVIOUS
  <2> DEFINE bk   == (o.list[c].nxt - 1) % SeqWord
             end  == (n.nxt - 1) % SeqWord
             rest == [n EXCEPT !.seq = (bk + 1) % SeqWord, !.dl = (end - bk) % LenWord]
  <2>1. \/ Place(o, n, fr, c) = o
        \/ Place(o, n, fr, c) = Linked(o, c, rest)
        \/ Place(o, n, fr, c)
             = [list |-> Behind(o.list, c, rest), last |-> c + 1, num |-> o.num]
        \/ Place(o, n, fr, c) = Linked(o, c, n)
        \/ Place(o, n, fr, c) = [o EXCEPT !.list = Behind(@, c, n)]
    BY DEF Place
  <2> HIDE DEF rest
  <2> QED
    BY <1>1, <1>2, <1>3, <1>4, <2>1
<1>6. \/ tcp_order(o, n) = [list |-> <<n>>, last |-> 1, num |-> o.num + 1]
      \/ tcp_order(o, n)
           = [list |-> Append(o.list, n), last |-> Len(o.list) + 1, num |-> o.num + 1]
      \/ \E fr, c : tcp_order(o, n) = Place(o, n, fr, c)
  BY Zenon DEF tcp_order
<1> QED
  BY <1>1, <1>2, <1>5, <1>6

\* From a node on a list without gaps runs to its end.
LEMMA ContIs ==
  ASSUME NEW list, Len(list) \in Nat, NEW i \in 1 .. Len(list),
         \A k \in i .. Len(list) - 1 : Joined(list, k)
  PROVE  tcp_cont_seq(list, i) = Len(list)
<1> DEFINE L == Len(list)
           Runs(j) == (\A k \in i .. j - 1 : Joined(list, k)) /\ (j < L => ~ Joined(list, j))
<1>1. L \in i .. L /\ Runs(L)
  OBVIOUS
<1>2. ASSUME NEW j \in i .. L, Runs(j) PROVE j = L
  <2>1. j < L => j \in i .. L - 1
    OBVIOUS
  <2> QED
    BY <1>2, <2>1
<1>3. tcp_cont_seq(list, i) = CHOOSE j \in i .. L : Runs(j)
  BY DEF tcp_cont_seq
<1> HIDE DEF L, Runs
<1>4. (CHOOSE j \in i .. L : Runs(j)) = L
  BY <1>1, <1>2
<1> QED
  BY <1>3, <1>4 DEF L

\* A node behind the last one comes last.
LEMMA BehindLast ==
  ASSUME NEW T, NEW list \in Seq(T), NEW n \in T
  PROVE  Behind(list, Len(list), n) = Append(list, n)
<1>1. Len(list) \in Nat
  BY LenProperties
<1>2. SubSeq(list, 1, Len(list)) = list
  OBVIOUS
<1>3. SubSeq(list, Len(list) + 1, Len(list)) = <<>>
  BY <1>1
<1>4. list \o <<n>> = Append(list, n) /\ Append(list, n) \in Seq(T)
  OBVIOUS
<1>5. Append(list, n) \o <<>> = Append(list, n)
  BY <1>4
<1>6. Behind(list, Len(list), n) = SubSeq(list, 1, Len(list)) \o <<n>>
                                     \o SubSeq(list, Len(list) + 1, Len(list))
  BY DEF Behind
<1> QED
  BY <1>2, <1>3, <1>4, <1>5, <1>6

\* Behind a run that ends where the node begins, and not at number 0, it comes last.
LEMMA PlacedLast ==
  ASSUME NEW o, DOMAIN o = DOMAIN NewOrder, o.list \in Seq(Nodes), NEW n \in Nodes, NEW fr,
         o.list # <<>>,
         ~ (fr <= n.seq /\ n.seq <= (o.list[Len(o.list)].nxt - 1) % SeqWord)
  PROVE  /\ Place(o, n, fr, Len(o.list)).list = Append(o.list, n)
         /\ Place(o, n, fr, Len(o.list)).last = o.last
<1>1. "list" \in DOMAIN o /\ "last" \in DOMAIN o
  BY DEF NewOrder
<1>2. Len(o.list) \in Nat /\ ~ (Len(o.list) < Len(o.list))
  BY LenProperties
<1>3. Place(o, n, fr, Len(o.list)) = [o EXCEPT !.list = Behind(@, Len(o.list), n)]
  BY <1>2 DEF Place
<1>4. Behind(o.list, Len(o.list), n) = Append(o.list, n)
  BY BehindLast
<1> QED
  BY <1>1, <1>3, <1>4

\* A node whose numbers the run in front holds is left out.
LEMMA PlacedNot ==
  ASSUME NEW o, NEW n, NEW fr, NEW c,
         fr <= n.seq, n.seq <= (o.list[c].nxt - 1) % SeqWord,
         (n.nxt - 1) % SeqWord <= (o.list[c].nxt - 1) % SeqWord
  PROVE  Place(o, n, fr, c) = o
BY DEF Place

\* The node a number is looked for from.
Later(list, seq) == {i \in 1 .. Len(list) : list[i].nxt > seq}

\* The three ways of tcp_order into a list that is not empty.
LEMMA OrderIs ==
  ASSUME NEW o, NEW n, o.list # <<>>, Len(o.list) \in Nat
  PROVE  /\ o.list[o.last].nxt = n.seq =>
              tcp_order(o, n) = Place(o, n, o.list[o.last].seq, tcp_cont_seq(o.list, o.last))
         /\ o.list[o.last].nxt # n.seq /\ Later(o.list, n.seq) = {} =>
              /\ tcp_order(o, n).list = Append(o.list, n)
              /\ tcp_order(o, n).last = Len(o.list) + 1
         /\ o.list[o.last].nxt # n.seq /\ Later(o.list, n.seq) # {} =>
              \E stop \in Later(o.list, n.seq), pre \in 1 .. Len(o.list) :
                /\ \A j \in Later(o.list, n.seq) : stop <= j
                /\ pre = IF stop = 1 THEN 1 ELSE stop - 1
                /\ tcp_order(o, n) = Place(o, n, o.list[pre].seq, tcp_cont_seq(o.list, pre))
<1> DEFINE list  == o.list
           later == {i \in 1 .. Len(list) : list[i].nxt > n.seq}
           stop  == CHOOSE i \in later : \A j \in later : i <= j
           pre   == IF stop = 1 THEN 1 ELSE stop - 1
<1>1. list[o.last].nxt = n.seq =>
        tcp_order(o, n) = Place(o, n, list[o.last].seq, tcp_cont_seq(list, o.last))
  BY Zenon DEF tcp_order
<1>2. list[o.last].nxt # n.seq /\ later = {} =>
        tcp_order(o, n) = [list |-> Append(list, n), last |-> Len(list) + 1, num |-> o.num + 1]
  BY Zenon DEF tcp_order
<1>3. list[o.last].nxt # n.seq /\ later # {} =>
        tcp_order(o, n) = Place(o, n, list[pre].seq, tcp_cont_seq(list, pre))
  BY Zenon DEF tcp_order
<1>4. Later(list, n.seq) = later
  BY DEF Later
<1>5. later # {} => stop \in later /\ \A j \in later : stop <= j
  <2>1. later \subseteq Nat
    OBVIOUS
  <2> HIDE DEF later
  <2>2. later # {} => \E i \in later : \A j \in later : i <= j
    BY <2>1, HasLeast
  <2> QED
    BY <2>2
<1>6. later # {} => pre \in 1 .. Len(list)
  <2> SUFFICES ASSUME later # {} PROVE pre \in 1 .. Len(list)
    OBVIOUS
  <2>1. stop \in 1 .. Len(list)
    BY <1>5
  <2> HIDE DEF stop
  <2> QED
    BY <2>1
<1> HIDE DEF later, stop
<1> QED
  BY <1>1, <1>2, <1>3, <1>4, <1>5, <1>6

\* An empty sequence is one of length 0.
LEMMA EmptyIs ==
  ASSUME NEW T, NEW s \in Seq(T)
  PROVE  (s # <<>> <=> Len(s) # 0) /\ Len(s) \in Nat /\ DOMAIN s = 1 .. Len(s)
BY EmptySeq, LenProperties

\* What a packet of a side says of the numbers: it begins where the side goes on, and
\* ends x numbers on, where the side uses y.
Follows(n, num, x, y) ==
  /\ x \in Nat /\ y \in Nat /\ x <= y
  /\ n.seq = num /\ n.nxt = (num + x) % SeqWord
  /\ n.dl > 0 => x > 0

\* Where the side stands, in numbers counted from its first.
Stands(isn, b, num, x) ==
  /\ (num + x) % SeqWord = (isn + (b + x)) % SeqWord
  /\ isn + b + x < SeqWord => num = isn + b /\ (num + x) % SeqWord = isn + b + x

\* A side stands there before and after x numbers more.
LEMMA AlongAt ==
  ASSUME NEW isn \in 0 .. SeqWord - 1, NEW b \in Nat, NEW num, num = (isn + b) % SeqWord,
         NEW x \in Nat
  PROVE  Stands(isn, b, num, x)
<1>1. isn + b \in Int /\ isn \in Nat /\ (isn + b) + x = isn + (b + x)
  BY WordAssumption
<1>2. (num + x) % SeqWord = (isn + (b + x)) % SeqWord
  <2>1. (((isn + b) % SeqWord) + x) % SeqWord = ((isn + b) + x) % SeqWord
    BY <1>1, CutAdd
  <2> QED
    BY <1>1, <2>1
<1>3. ASSUME isn + b + x < SeqWord
      PROVE  num = isn + b /\ (isn + (b + x)) % SeqWord = isn + b + x
  <2>1. isn + b \in 0 .. SeqWord - 1 /\ isn + (b + x) \in 0 .. SeqWord - 1
    BY <1>1, <1>3, WordAssumption
  <2>2. isn + (b + x) = isn + b + x
    BY <1>1
  <2> QED
    BY <1>1, <2>1, <2>2, Cut
<1> QED
  BY <1>2, <1>3 DEF Stands

\* The parts of Along.
AlongAll(list, isn, b) == \A i \in 1 .. Len(list) : \E p \in 1 .. b : list[i].nxt = (isn + p) % SeqWord
AlongUp(list) ==
  /\ \A i \in 1 .. Len(list) :
       list[i].seq <= list[i].nxt /\ (list[i].dl > 0 => list[i].seq < list[i].nxt)
  /\ \A i, j \in 1 .. Len(list) : i < j => list[i].nxt <= list[j].seq

\* Along by its parts.
LEMMA AlongIs ==
  ASSUME NEW list \in Seq(Nodes), NEW num, NEW b, NEW over
  PROVE  Along(list, num, b, over) <=>
           /\ list # <<>> /\ list[1].nxt = (list[1].seq + 1) % SeqWord
           /\ AlongAll(list, list[1].seq, b)
           /\ list[1].seq + b < SeqWord => AlongUp(list)
           /\ ~ over => num = (list[1].seq + b) % SeqWord
<1>1. DOMAIN list = 1 .. Len(list)
  BY LenProperties
<1> QED
  BY <1>1 DEF Along, AlongAll, AlongUp, Below

\* The numbers of a list with one more packet.
LEMMA AlongStep ==
  ASSUME NEW list \in Seq(Nodes), NEW num, NEW b \in Nat \ {0}, NEW n \in Nodes,
         NEW x, NEW y, Follows(n, num, x, y), Along(list, num, b, FALSE),
         NEW to, NEW over, ~ over => to = (num + y) % SeqWord
  PROVE  Along(Append(list, n), to, b + y, over)
<1> DEFINE new == Append(list, n)
           isn == list[1].seq
           L   == Len(list)
<1>1. /\ new \in Seq(Nodes) /\ L \in Nat /\ Len(new) = L + 1
      /\ \A i \in 1 .. L : new[i] = list[i] /\ list[i] \in Nodes
      /\ new[L + 1] = n
  BY Appended
<1>2. /\ list # <<>> /\ list[1].nxt = (isn + 1) % SeqWord
      /\ AlongAll(list, isn, b)
      /\ isn + b < SeqWord => AlongUp(list)
      /\ num = (isn + b) % SeqWord
  BY AlongIs
<1>3. x \in Nat /\ y \in Nat /\ x <= y /\ n.seq = num /\ n.nxt = (num + x) % SeqWord
      /\ (n.dl > 0 => x > 0)
  BY DEF Follows
<1>4. L # 0 /\ 1 \in 1 .. L
  <2>1. L # 0
    BY <1>2, EmptyIs
  <2> QED
    BY <1>1, <2>1
<1>5. isn \in 0 .. SeqWord - 1 /\ new[1] = list[1] /\ new # <<>>
  <2>1. list[1] \in Nodes
    BY <1>1, <1>4
  <2>2. isn \in 0 .. SeqWord - 1
    BY <2>1 DEF Nodes
  <2>3. new[1] = list[1]
    BY <1>1, <1>4
  <2>4. Len(new) # 0
    BY <1>1
  <2>5. new # <<>>
    BY <1>1, <2>4, EmptyIs
  <2> QED
    BY <2>2, <2>3, <2>5
<1>6. /\ (num + x) % SeqWord = (isn + (b + x)) % SeqWord
      /\ (num + y) % SeqWord = (isn + (b + y)) % SeqWord
      /\ isn + b + x < SeqWord => num = isn + b /\ (num + x) % SeqWord = isn + b + x
  <2>1. num = (isn + b) % SeqWord /\ isn \in 0 .. SeqWord - 1 /\ b \in Nat
    BY <1>2, <1>5
  <2>2. x \in Nat /\ y \in Nat
    BY <1>3
  <2> HIDE DEF isn
  <2>3. Stands(isn, b, num, x) /\ Stands(isn, b, num, y)
    BY Zenon, <2>1, <2>2, AlongAt
  <2> QED
    BY <2>3 DEF Stands
<1> HIDE DEF new, isn, L
<1>7. AlongAll(new, isn, b + y)
  <2> SUFFICES ASSUME NEW i \in 1 .. L + 1
               PROVE  \E p \in 1 .. b + y : new[i].nxt = (isn + p) % SeqWord
    BY <1>1 DEF AlongAll
  <2>1. CASE i \in 1 .. L
    <3>1. PICK p \in 1 .. b : list[i].nxt = (isn + p) % SeqWord
      BY <1>2, <2>1 DEF AlongAll, L
    <3>2. p \in 1 .. b + y
      BY <1>3
    <3> QED
      BY <1>1, <2>1, <3>1, <3>2
  <2>2. CASE i = L + 1
    <3>1. b + x \in 1 .. b + y
      BY <1>3
    <3> QED
      BY <1>1, <1>3, <1>6, <2>2, <3>1
  <2> QED
    BY <1>1, <2>1, <2>2
<1>8. ASSUME isn + (b + y) < SeqWord PROVE AlongUp(new)
  <2>1. isn + b + x < SeqWord /\ isn + b < SeqWord /\ isn \in Nat
    BY <1>3, <1>5, <1>8, WordAssumption
  <2>2. n.seq = isn + b /\ n.nxt = isn + b + x
    BY <1>3, <1>6, <2>1
  <2>3. n.seq <= n.nxt /\ (n.dl > 0 => n.seq < n.nxt)
    BY <1>3, <2>1, <2>2
  <2>4. \A i \in 1 .. L : list[i].nxt <= n.seq
    <3> SUFFICES ASSUME NEW i \in 1 .. L PROVE list[i].nxt <= n.seq
      OBVIOUS
    <3>1. PICK p \in 1 .. b : list[i].nxt = (isn + p) % SeqWord
      BY <1>2 DEF AlongAll, L
    <3>2. isn + p \in 0 .. SeqWord - 1 /\ isn + p <= isn + b
      BY <2>1, WordAssumption
    <3>3. (isn + p) % SeqWord = isn + p
      BY <3>2, Cut
    <3> QED
      BY <2>2, <3>1, <3>2, <3>3
  <2>5. AlongUp(list)
    BY <1>2, <2>1
  <2>6. ASSUME NEW i \in 1 .. L + 1
        PROVE  new[i].seq <= new[i].nxt /\ (new[i].dl > 0 => new[i].seq < new[i].nxt)
    <3>1. CASE i \in 1 .. L
      BY <1>1, <2>5, <3>1 DEF AlongUp, L
    <3>2. CASE i = L + 1
      BY <1>1, <2>3, <3>2
    <3> QED
      BY <1>1, <3>1, <3>2
  <2>7. ASSUME NEW i \in 1 .. L + 1, NEW j \in 1 .. L + 1, i < j
        PROVE  new[i].nxt <= new[j].seq
    <3>1. i \in 1 .. L
      BY <1>1, <2>7
    <3>2. CASE j \in 1 .. L
      BY <1>1, <2>5, <2>7, <3>1, <3>2 DEF AlongUp, L
    <3>3. CASE j = L + 1
      BY <1>1, <2>4, <3>1, <3>3
    <3> QED
      BY <1>1, <3>2, <3>3
  <2> QED
    BY <1>1, <2>6, <2>7 DEF AlongUp
<1>9. ~ over => to = (isn + (b + y)) % SeqWord
  BY <1>6
<1>10. new[1].seq = isn /\ new[1].nxt = (isn + 1) % SeqWord
  BY <1>2, <1>5 DEF isn
<1> QED
  BY <1>1, <1>5, <1>7, <1>8, <1>9, <1>10, AlongIs DEF new

\* The numbers of a list when a packet is missed.
LEMMA AlongMissed ==
  ASSUME NEW list \in Seq(Nodes), NEW num, NEW b \in Nat \ {0}, NEW y \in Nat,
         Along(list, num, b, FALSE)
  PROVE  Along(list, (num + y) % SeqWord, b + y, FALSE)
<1> DEFINE isn == list[1].seq
<1>1. /\ list # <<>> /\ list[1].nxt = (isn + 1) % SeqWord
      /\ AlongAll(list, isn, b)
      /\ isn + b < SeqWord => AlongUp(list)
      /\ num = (isn + b) % SeqWord
  BY AlongIs
<1>2. isn \in 0 .. SeqWord - 1
  <2>1. 1 \in 1 .. Len(list)
    BY <1>1, EmptyIs
  <2>2. list[1] \in Nodes
    BY <2>1, ElementOfSeq
  <2> QED
    BY <2>2 DEF Nodes
<1> HIDE DEF isn
<1>3. (num + y) % SeqWord = (isn + (b + y)) % SeqWord
  <2>1. num = (isn + b) % SeqWord /\ b \in Nat /\ y \in Nat
    BY <1>1
  <2>2. Stands(isn, b, num, y)
    BY Zenon, <1>2, <2>1, AlongAt
  <2> QED
    BY <2>2 DEF Stands
<1>4. AlongAll(list, isn, b + y)
  <2>1. \A p \in 1 .. b : p \in 1 .. b + y
    OBVIOUS
  <2> QED
    BY <1>1, <2>1 DEF AlongAll
<1>5. isn + (b + y) < SeqWord => isn + b < SeqWord
  BY <1>2, WordAssumption
<1> QED
  BY <1>1, <1>3, <1>4, <1>5, AlongIs DEF isn

\* tcp_order puts a node last, and remembers no node without numbers at number 0.
PutLast(o, n) ==
  /\ tcp_order(o, n).list = Append(o.list, n)
  /\ tcp_order(o, n).last # o.last => tcp_order(o, n).last = Len(o.list) + 1 /\ n.seq # 0

\* It does where the run in front of the node ends at its number, that is not 0 or
\* not where the run begins.
LEMMA PutPlaced ==
  ASSUME NEW o, DOMAIN o = DOMAIN NewOrder, o.list \in Seq(Nodes), NEW n \in Nodes,
         NEW i \in 1 .. Len(o.list), \A k \in i .. Len(o.list) - 1 : Joined(o.list, k),
         o.list[Len(o.list)].nxt = n.seq, n.seq # 0 \/ o.list[i].seq # 0,
         tcp_order(o, n) = Place(o, n, o.list[i].seq, tcp_cont_seq(o.list, i))
  PROVE  PutLast(o, n)
<1>1. o.list # <<>> /\ Len(o.list) \in Nat
  <2>1. Len(o.list) \in Nat /\ Len(o.list) # 0
    BY EmptyIs
  <2> QED
    BY <2>1, EmptyIs
<1>2. o.list[i] \in Nodes
  BY ElementOfSeq
<1>3. /\ o.list[i].seq \in 0 .. SeqWord - 1 /\ n.seq \in 0 .. SeqWord - 1
  BY <1>2 DEF Nodes
<1>4. tcp_cont_seq(o.list, i) = Len(o.list)
  BY <1>1, ContIs
<1>5. n.seq # 0 => (n.seq - 1) % SeqWord = n.seq - 1
  <2>1. n.seq # 0 => n.seq - 1 \in 0 .. SeqWord - 1 /\ n.seq - 1 \in Int
    BY <1>3, WordAssumption
  <2> QED
    BY <2>1, Cut
<1>6. ~ (o.list[i].seq <= n.seq /\ n.seq <= (n.seq - 1) % SeqWord)
  BY <1>3, <1>5
<1>7. /\ Place(o, n, o.list[i].seq, Len(o.list)).list = Append(o.list, n)
      /\ Place(o, n, o.list[i].seq, Len(o.list)).last = o.last
  BY <1>1, <1>6, PlacedLast
<1>8. /\ tcp_order(o, n).list = Append(o.list, n)
      /\ tcp_order(o, n).last = o.last
  BY <1>4, <1>7
<1> QED
  BY <1>8 DEF PutLast

\* Before the end of the sequence space a node that follows comes last.
LEMMA PutBelow ==
  ASSUME NEW o, DOMAIN o = DOMAIN NewOrder, o.list \in Seq(Nodes), NEW n \in Nodes,
         o.last \in 1 .. Len(o.list), n.seq # 0,
         AlongUp(Append(o.list, n))
  PROVE  PutLast(o, n)
<1> DEFINE list == o.list
           L    == Len(list)
<1>1. /\ L \in Nat /\ Len(Append(list, n)) = L + 1
      /\ \A i \in 1 .. L : Append(list, n)[i] = list[i] /\ list[i] \in Nodes
      /\ Append(list, n)[L + 1] = n
  BY Appended
<1>2. /\ \A i \in 1 .. L : list[i].seq \in Nat /\ list[i].nxt \in Nat
      /\ n.seq \in Nat
  <2>1. /\ \A i \in 1 .. L : list[i].seq \in 0 .. SeqWord - 1 /\ list[i].nxt \in 0 .. SeqWord - 1
        /\ n.seq \in 0 .. SeqWord - 1
    BY <1>1 DEF Nodes
  <2>2. 0 .. SeqWord - 1 \subseteq Nat
    BY WordAssumption
  <2> QED
    BY <2>1, <2>2
<1>3. n.seq \in Nat
  BY <1>2
<1>4. list # <<>>
  <2>1. L # 0
    BY <1>1
  <2> QED
    BY <2>1, EmptyIs
<1>5. \A i \in 1 .. L : list[i].seq <= list[i].nxt /\ list[i].nxt <= n.seq
  <2> SUFFICES ASSUME NEW i \in 1 .. L PROVE list[i].seq <= list[i].nxt /\ list[i].nxt <= n.seq
    OBVIOUS
  <2>1. i \in 1 .. L + 1 /\ L + 1 \in 1 .. L + 1 /\ i < L + 1
    BY <1>1
  <2> QED
    BY <1>1, <2>1 DEF AlongUp
<1>6. \A i, j \in 1 .. L : i < j => list[i].nxt <= list[j].seq
  <2> SUFFICES ASSUME NEW i \in 1 .. L, NEW j \in 1 .. L, i < j PROVE list[i].nxt <= list[j].seq
    OBVIOUS
  <2>1. i \in 1 .. L + 1 /\ j \in 1 .. L + 1
    BY <1>1
  <2> QED
    BY <1>1, <2>1 DEF AlongUp
<1>7. CASE list[o.last].nxt = n.seq
  <2>1. \A k \in o.last .. L : list[k].nxt = n.seq /\ (k # o.last => list[k].seq = n.seq)
    <3> SUFFICES ASSUME NEW k \in o.last .. L, k # o.last
                 PROVE  list[k].nxt = n.seq /\ list[k].seq = n.seq
      BY <1>7
    <3>1. k \in 1 .. L /\ o.last < k
      BY <1>1
    <3>2. list[o.last].nxt <= list[k].seq
      BY <1>6, <3>1
    <3>3. list[k].seq <= list[k].nxt /\ list[k].nxt <= n.seq
      BY <1>5, <3>1
    <3> QED
      BY <1>2, <1>3, <1>7, <3>1, <3>2, <3>3
  <2>2. \A k \in o.last .. L - 1 : Joined(list, k)
    <3> SUFFICES ASSUME NEW k \in o.last .. L - 1 PROVE Joined(list, k)
      OBVIOUS
    <3>1. k \in o.last .. L /\ k + 1 \in o.last .. L /\ k + 1 # o.last
      BY <1>1
    <3> QED
      BY <2>1, <3>1 DEF Joined
  <2>3. L \in o.last .. L
    BY <1>1
  <2>4. list[L].nxt = n.seq
    BY <2>1, <2>3
  <2>5. tcp_order(o, n) = Place(o, n, list[o.last].seq, tcp_cont_seq(list, o.last))
    BY <1>1, <1>4, <1>7, OrderIs
  <2> QED
    BY <2>2, <2>4, <2>5, PutPlaced
<1>8. CASE list[o.last].nxt # n.seq
  <2>1. Later(list, n.seq) = {}
    <3>1. \A i \in 1 .. L : ~ (list[i].nxt > n.seq)
      BY <1>2, <1>3, <1>5
    <3> QED
      BY <3>1 DEF Later
  <2>2. tcp_order(o, n).list = Append(list, n) /\ tcp_order(o, n).last = L + 1
    BY <1>1, <1>4, <1>8, <2>1, OrderIs
  <2> QED
    BY <2>2 DEF PutLast
<1> QED
  BY <1>7, <1>8

\* Behind a list without gaps it does too, wherever the numbers begin again.
LEMMA PutJoined ==
  ASSUME NEW o, DOMAIN o = DOMAIN NewOrder, o.list \in Seq(Nodes), NEW n \in Nodes,
         o.last \in 1 .. Len(o.list),
         ~ (o.list[o.last].seq = 0 /\ o.list[o.last].nxt = 0),
         Contiguous(Append(o.list, n)),
         NEW b \in 1 .. SeqWord - 1, n.seq = (o.list[1].seq + b) % SeqWord,
         o.list[1].nxt = (o.list[1].seq + 1) % SeqWord,
         AlongAll(o.list, o.list[1].seq, b)
  PROVE  PutLast(o, n)
<1> DEFINE list == o.list
           L    == Len(list)
           isn  == list[1].seq
<1>1. /\ L \in Nat /\ Len(Append(list, n)) = L + 1
      /\ \A i \in 1 .. L : Append(list, n)[i] = list[i] /\ list[i] \in Nodes
      /\ Append(list, n)[L + 1] = n
  BY Appended
<1>2. /\ \A i \in 1 .. L : list[i].seq \in 0 .. SeqWord - 1 /\ list[i].nxt \in 0 .. SeqWord - 1
      /\ n.seq \in 0 .. SeqWord - 1
  BY <1>1 DEF Nodes
<1>3. 1 \in 1 .. L /\ L \in 1 .. L /\ isn \in 0 .. SeqWord - 1
  BY <1>1, <1>2
<1>4. list # <<>>
  <2>1. L # 0
    BY <1>1
  <2> QED
    BY <2>1, EmptyIs
<1>5. \A k \in 1 .. L - 1 : Joined(list, k)
  <2> SUFFICES ASSUME NEW k \in 1 .. L - 1 PROVE Joined(list, k)
    OBVIOUS
  <2>1. k \in 1 .. (L + 1) - 1 /\ k \in 1 .. L /\ k + 1 \in 1 .. L
    BY <1>1
  <2> QED
    BY <1>1, <2>1 DEF Contiguous, Joined
<1>6. list[L].nxt = n.seq
  <2>1. L \in 1 .. (L + 1) - 1
    BY <1>3
  <2> QED
    BY <1>1, <1>3, <2>1 DEF Contiguous, Joined
<1>7. ASSUME NEW i \in 1 .. L, n.seq # 0 \/ list[i].seq # 0,
             tcp_order(o, n) = Place(o, n, list[i].seq, tcp_cont_seq(list, i))
      PROVE  PutLast(o, n)
  <2>1. \A k \in i .. L - 1 : Joined(list, k)
    BY <1>1, <1>5
  <2> QED
    BY <1>6, <1>7, <2>1, PutPlaced
<1>8. CASE list[o.last].nxt = n.seq
  <2>1. tcp_order(o, n) = Place(o, n, list[o.last].seq, tcp_cont_seq(list, o.last))
    BY <1>1, <1>4, <1>8, OrderIs
  <2>2. n.seq # 0 \/ list[o.last].seq # 0
    BY <1>8
  <2> QED
    BY <1>7, <2>1, <2>2
<1>9. CASE list[o.last].nxt # n.seq /\ Later(list, n.seq) = {}
  <2>1. tcp_order(o, n).list = Append(list, n) /\ tcp_order(o, n).last = L + 1
    BY <1>1, <1>4, <1>9, OrderIs
  <2>2. ~ (list[o.last].nxt > n.seq)
    BY <1>9 DEF Later
  <2>3. n.seq # 0
    BY <1>2, <1>9, <2>2
  <2> QED
    BY <2>1, <2>3 DEF PutLast
<1>10. CASE list[o.last].nxt # n.seq /\ Later(list, n.seq) # {}
  <2>1. \E stop \in Later(list, n.seq), pre \in 1 .. L :
          /\ \A j \in Later(list, n.seq) : stop <= j
          /\ pre = IF stop = 1 THEN 1 ELSE stop - 1
          /\ tcp_order(o, n) = Place(o, n, list[pre].seq, tcp_cont_seq(list, pre))
    BY <1>1, <1>4, <1>10, OrderIs
  <2>2. PICK stop \in Later(list, n.seq) : \E pre \in 1 .. L :
          /\ \A j \in Later(list, n.seq) : stop <= j
          /\ pre = IF stop = 1 THEN 1 ELSE stop - 1
          /\ tcp_order(o, n) = Place(o, n, list[pre].seq, tcp_cont_seq(list, pre))
    BY <2>1
  <2>3. PICK pre \in 1 .. L :
          /\ \A j \in Later(list, n.seq) : stop <= j
          /\ pre = IF stop = 1 THEN 1 ELSE stop - 1
          /\ tcp_order(o, n) = Place(o, n, list[pre].seq, tcp_cont_seq(list, pre))
    BY <2>2
  <2>4. stop \in 1 .. L
    BY DEF Later
  <2>5. ASSUME n.seq = 0 PROVE stop = 1 /\ isn # 0
    <3> HIDE DEF isn
    <3>1. (isn + b) % SeqWord = 0
      BY <2>5 DEF isn
    <3>2. isn # 0
      <4>1. b \in 0 .. SeqWord - 1
        BY WordAssumption
      <4>2. b % SeqWord = b
        BY <4>1, Cut
      <4>3. ASSUME isn = 0 PROVE isn + b = b
        BY <4>3
      <4>4. b # 0
        OBVIOUS
      <4> QED
        BY <3>1, <4>2, <4>3, <4>4
    <3>3. ASSUME stop # 1 PROVE FALSE
      <4>1. 1 \notin Later(list, n.seq)
        <5>1. stop > 1
          BY <2>4, <3>3
        <5> QED
          BY <2>3, <2>4, <5>1
      <4>2. list[1].nxt = 0
        <5>1. ~ (list[1].nxt > 0)
          BY <1>3, <2>5, <4>1 DEF Later
        <5> QED
          BY <1>2, <1>3, <5>1
      <4>3. isn = SeqWord - 1
        <5>1. (isn + 1) % SeqWord = 0
          BY <4>2 DEF isn
        <5>2. isn + 1 \in 0 .. SeqWord - 1 => (isn + 1) % SeqWord = isn + 1
          BY Cut
        <5> QED
          BY <1>3, <5>1, <5>2, WordAssumption
      <4>4. b = 1
        <5>1. b - 1 \in 0 .. SeqWord - 1
          BY WordAssumption
        <5>2. (b - 1) % SeqWord = b - 1
          BY <5>1, Cut
        <5>3. isn + b = (b - 1) + SeqWord
          BY <4>3, WordAssumption
        <5>4. ((b - 1) + SeqWord) % SeqWord = (b - 1) % SeqWord
          <6>1. (b - 1) + SeqWord \in Int /\ 1 \in Int /\ b - 1 \in 0 .. SeqWord - 1
                /\ (b - 1) + SeqWord = SeqWord * 1 + (b - 1)
            BY <5>1, WordAssumption
          <6>2. ((b - 1) + SeqWord) % SeqWord = b - 1
            BY ONLY <6>1, Remainder, Zenon
          <6> QED
            BY <5>2, <6>2
        <5> QED
          BY <3>1, <5>2, <5>3, <5>4
      <4>5. list[o.last].nxt = (isn + 1) % SeqWord
        BY <4>4 DEF AlongAll, isn
      <4>6. list[o.last].nxt = 0
        BY <4>2, <4>5 DEF isn
      <4> QED
        BY <1>10, <2>5, <4>6
    <3> QED
      BY <3>2, <3>3
  <2>6. n.seq # 0 \/ list[pre].seq # 0
    BY <2>3, <2>5
  <2> QED
    BY <1>7, <2>3, <2>6
<1> QED
  BY <1>8, <1>9, <1>10

\* A list without gaps has none without its last node, and a plain side was plain.
LEMMA PlainWas ==
  ASSUME NEW list \in Seq(Nodes), list # <<>>, NEW n \in Nodes, NEW b \in Nat, NEW y \in Nat,
         NEW ag, Plain(Append(list, n), b + y, ag)
  PROVE  Plain(list, b, ag)
<1>1. /\ Len(list) \in Nat /\ Len(Append(list, n)) = Len(list) + 1
      /\ \A i \in 1 .. Len(list) : Append(list, n)[i] = list[i] /\ list[i] \in Nodes
  BY Appended
<1>2. 1 \in 1 .. Len(list)
  BY <1>1, EmptyIs
<1>3. list[1].seq \in Nat
  BY <1>1, <1>2 DEF Nodes
<1>4. b + y < SeqWord => b < SeqWord
  BY WordAssumption
<1>5. Below(Append(list, n), b + y) => Below(list, b)
  <2>1. list[1].seq + (b + y) < SeqWord => list[1].seq + b < SeqWord
    BY <1>3, WordAssumption
  <2> QED
    BY <1>1, <1>2, <2>1 DEF Below
<1>6. Contiguous(Append(list, n)) => Contiguous(list)
  <2> SUFFICES ASSUME Contiguous(Append(list, n)), NEW k \in 1 .. Len(list) - 1
               PROVE  Joined(list, k)
    BY DEF Contiguous
  <2>1. k \in 1 .. (Len(list) + 1) - 1 /\ k \in 1 .. Len(list) /\ k + 1 \in 1 .. Len(list)
    BY <1>1
  <2> QED
    BY <1>1, <2>1 DEF Contiguous, Joined
<1> QED
  BY <1>4, <1>5, <1>6 DEF Plain

\* A packet that follows is kept at the end of a plain side.
LEMMA KeptStep ==
  ASSUME NEW list \in Seq(Nodes), NEW num, NEW b \in Nat \ {0}, NEW n \in Nodes,
         NEW x, NEW y, Follows(n, num, x, y), Along(list, num, b, FALSE),
         NEW o, DOMAIN o = DOMAIN NewOrder, NEW ag, Kept(list, o, b, ag)
  PROVE  Kept(Append(list, n), tcp_order(o, n), b + y, ag)
<1> DEFINE new == Append(list, n)
           L   == Len(list)
<1>1. /\ new \in Seq(Nodes) /\ L \in Nat /\ Len(new) = L + 1
      /\ \A i \in 1 .. L : new[i] = list[i] /\ list[i] \in Nodes
      /\ new[L + 1] = n
  BY Appended
<1>2. /\ list # <<>> /\ list[1].nxt = (list[1].seq + 1) % SeqWord
      /\ AlongAll(list, list[1].seq, b)
      /\ num = (list[1].seq + b) % SeqWord
  BY AlongIs
<1>3. y \in Nat /\ n.seq = num
  BY DEF Follows
<1>4. 1 \in 1 .. L /\ list[1].seq \in 0 .. SeqWord - 1
  <2>1. 1 \in 1 .. L
    BY <1>1, <1>2, EmptyIs
  <2> QED
    BY <1>1, <2>1 DEF Nodes
<1> SUFFICES ASSUME Plain(new, b + y, ag)
             PROVE  /\ tcp_order(o, n).list = new
                    /\ tcp_order(o, n).last \in DOMAIN new
                    /\ ~ (new[tcp_order(o, n).last].seq = 0 /\ new[tcp_order(o, n).last].nxt = 0)
  BY Zenon DEF Kept
<1>5. Plain(list, b, ag)
  BY <1>2, <1>3, PlainWas
<1>6. /\ o.list = list /\ o.last \in 1 .. L
      /\ ~ (list[o.last].seq = 0 /\ list[o.last].nxt = 0)
  <2>1. DOMAIN list = 1 .. L
    BY LenProperties
  <2> QED
    BY <1>5, <2>1 DEF Kept
<1>7. PutLast(o, n)
  <2>1. CASE list[1].seq + (b + y) < SeqWord
    <3>1. Along(new, (num + y) % SeqWord, b + y, FALSE)
      BY Zenon, AlongStep
    <3>2. AlongUp(new)
      BY <1>1, <1>4, <2>1, <3>1, AlongIs
    <3>3. list[1].seq + b \in 0 .. SeqWord - 1 /\ list[1].seq + b # 0
      BY <1>3, <1>4, <2>1, WordAssumption
    <3>4. n.seq # 0
      BY <1>2, <1>3, <3>3, Cut
    <3> QED
      BY <1>6, <3>2, <3>4, PutBelow
  <2>2. CASE ~ (list[1].seq + (b + y) < SeqWord)
    <3>1. Contiguous(new) /\ b + y < SeqWord
      BY <1>1, <1>4, <2>2 DEF Plain, Below
    <3>2. b \in 1 .. SeqWord - 1
      BY <1>3, <3>1, WordAssumption
    <3> QED
      BY <1>2, <1>3, <1>6, <3>1, <3>2, PutJoined
  <2> QED
    BY <2>1, <2>2
<1>8. DOMAIN new = 1 .. L + 1
  BY <1>1, LenProperties
<1>9. tcp_order(o, n).last # o.last => tcp_order(o, n).last = L + 1 /\ n.seq # 0
  BY <1>6, <1>7 DEF PutLast
<1>10. tcp_order(o, n).list = new
  BY <1>6, <1>7 DEF PutLast
<1> HIDE DEF new, L
<1> QED
  BY <1>1, <1>6, <1>8, <1>9, <1>10

\* A packet captured again in sequence is left out.
LEMMA KeptRepeat ==
  ASSUME NEW list \in Seq(Nodes), NEW num, NEW b \in Nat \ {0}, NEW over,
         Along(list, num, b, over), NEW i \in 1 .. Len(list), list[i].dl > 0,
         NEW n, n.seq = list[i].seq, n.nxt = list[i].nxt,
         NEW o, NEW ag, Kept(list, o, b, ag),
         NEW out, out = (ag \/ ~ (Contiguous(list) /\ Below(list, b)))
  PROVE  Kept(list, tcp_order(o, n), b, out)
<1> DEFINE L == Len(list)
           e == list[L].nxt
<1> SUFFICES ASSUME Plain(list, b, out)
             PROVE  tcp_order(o, n) = o /\ Plain(list, b, ag)
  BY Zenon DEF Kept
<1>1. Contiguous(list) /\ Below(list, b) /\ Plain(list, b, ag)
  BY Zenon DEF Plain
<1>2. o.list = list /\ o.last \in 1 .. L
  <2>1. DOMAIN list = 1 .. L
    BY LenProperties
  <2> QED
    BY <1>1, <2>1 DEF Kept
<1>3. L \in Nat /\ L \in 1 .. L /\ list # <<>>
  <2>1. L \in Nat /\ L \in 1 .. L /\ L # 0
    BY LenProperties
  <2> QED
    BY <2>1, EmptyIs
<1>4. \A k \in 1 .. L : list[k].seq \in 0 .. SeqWord - 1 /\ list[k].nxt \in 0 .. SeqWord - 1
  <2> SUFFICES ASSUME NEW k \in 1 .. L
               PROVE  list[k].seq \in 0 .. SeqWord - 1 /\ list[k].nxt \in 0 .. SeqWord - 1
    OBVIOUS
  <2>1. list[k] \in Nodes
    BY ElementOfSeq
  <2> QED
    BY <2>1 DEF Nodes
<1>5. AlongUp(list)
  BY <1>1, AlongIs DEF Below
<1>6. \A k \in 1 .. L : list[k].nxt <= e
  <2> SUFFICES ASSUME NEW k \in 1 .. L, k < L PROVE list[k].nxt <= e
    BY <1>3, <1>4, WordAssumption
  <2>1. list[k].nxt <= list[L].seq /\ list[L].seq <= list[L].nxt
    BY <1>3, <1>5 DEF AlongUp
  <2> QED
    BY <1>3, <1>4, <2>1
<1>7. list[i].seq < list[i].nxt /\ list[i].nxt <= e
  BY <1>5, <1>6 DEF AlongUp
<1>8. (e - 1) % SeqWord = e - 1 /\ (n.nxt - 1) % SeqWord = n.nxt - 1
  <2>1. e - 1 \in 0 .. SeqWord - 1 /\ n.nxt - 1 \in 0 .. SeqWord - 1
    BY <1>3, <1>4, <1>7, WordAssumption
  <2> QED
    BY <2>1, Cut
<1>9. n.seq <= (e - 1) % SeqWord /\ (n.nxt - 1) % SeqWord <= (e - 1) % SeqWord
  <2>1. n.seq <= e - 1 /\ n.nxt - 1 <= e - 1
    BY <1>3, <1>4, <1>7
  <2> QED
    BY <1>8, <2>1
<1>10. ASSUME NEW k \in 1 .. L, list[k].seq <= n.seq,
              tcp_order(o, n) = Place(o, n, list[k].seq, tcp_cont_seq(list, k))
       PROVE  tcp_order(o, n) = o
  <2>1. \A j \in k .. L - 1 : Joined(list, j)
    BY <1>1, <1>3 DEF Contiguous
  <2>2. tcp_cont_seq(list, k) = L
    BY <1>3, <2>1, ContIs
  <2> QED
    BY <1>2, <1>9, <1>10, <2>2, PlacedNot
<1>11. i \in Later(list, n.seq)
  BY <1>4, <1>7 DEF Later
<1>12. CASE list[o.last].nxt = n.seq
  <2>1. tcp_order(o, n) = Place(o, n, list[o.last].seq, tcp_cont_seq(list, o.last))
    BY <1>2, <1>3, <1>12, OrderIs
  <2>2. list[o.last].seq <= n.seq
    BY <1>2, <1>5, <1>12 DEF AlongUp
  <2> QED
    BY <1>1, <1>2, <1>10, <2>1, <2>2
<1>13. CASE list[o.last].nxt # n.seq
  <2>1. \E stop \in Later(list, n.seq), pre \in 1 .. L :
          /\ \A j \in Later(list, n.seq) : stop <= j
          /\ pre = IF stop = 1 THEN 1 ELSE stop - 1
          /\ tcp_order(o, n) = Place(o, n, list[pre].seq, tcp_cont_seq(list, pre))
    BY <1>2, <1>3, <1>11, <1>13, OrderIs
  <2>2. PICK stop \in Later(list, n.seq) : \E pre \in 1 .. L :
          /\ \A j \in Later(list, n.seq) : stop <= j
          /\ pre = IF stop = 1 THEN 1 ELSE stop - 1
          /\ tcp_order(o, n) = Place(o, n, list[pre].seq, tcp_cont_seq(list, pre))
    BY <2>1
  <2>3. PICK pre \in 1 .. L :
          /\ \A j \in Later(list, n.seq) : stop <= j
          /\ pre = IF stop = 1 THEN 1 ELSE stop - 1
          /\ tcp_order(o, n) = Place(o, n, list[pre].seq, tcp_cont_seq(list, pre))
    BY <2>2
  <2>4. stop \in 1 .. L
    BY DEF Later
  <2>5. pre <= i
    BY <1>11, <2>3, <2>4
  <2>6. list[pre].seq <= list[i].seq
    <3>1. CASE pre = i
      BY <1>4, <3>1, WordAssumption
    <3>2. CASE pre < i
      <4>1. list[pre].seq <= list[pre].nxt /\ list[pre].nxt <= list[i].seq
        BY <1>5, <3>2 DEF AlongUp
      <4> QED
        BY <1>4, <4>1
    <3> QED
      BY <2>5, <3>1, <3>2
  <2> QED
    BY <1>1, <1>10, <2>3, <2>6
<1> QED
  BY <1>12, <1>13

-----------------------------------------------------------------------------
(* Steps. *)

\* A node is one of Nodes and says what it was made of.
LEMMA NodeIs ==
  ASSUME now' \in Nat, NEW seq \in 0 .. SeqWord - 1, NEW len \in Nat,
         NEW http \in {"none", "req", "rsp"}, NEW fin \in BOOLEAN
  PROVE  LET n == Node(seq, len, http, fin)
         IN /\ n \in Nodes /\ n.http = http /\ n.time = now' /\ n.seq = seq
            /\ n.fin = fin
            /\ http = "none" /\ ~ fin => n.nxt = (seq + len) % SeqWord
            /\ http # "none" /\ ~ fin => n.nxt = (seq + Header) % SeqWord
            /\ http # "none" => n.hdlen = Header /\ n.dl = Header
<1> DEFINE x == seq + (IF http = "none" THEN len ELSE Header) + (IF fin THEN 1 ELSE 0)
           h == IF http = "none" THEN 0 ELSE Header
           d == IF http = "none" THEN len ELSE Header
<1>1. x \in Int
  BY ConversationAssumption, WordAssumption
<1>2. http = "none" /\ ~ fin => x = seq + len
  BY WordAssumption
<1>3. http # "none" /\ ~ fin => x = seq + Header
  BY WordAssumption, ConversationAssumption
<1>4. h \in {0, Header} /\ d \in Nat /\ (http # "none" => h = Header /\ d = Header)
  BY ConversationAssumption
<1>5. Node(seq, len, http, fin) =
        [http |-> http, fin |-> fin, time |-> now', seq |-> seq, nxt |-> x % SeqWord,
         dl |-> d, hdlen |-> h]
  BY DEF Node
<1> HIDE DEF x, h, d
<1>6. x % SeqWord \in 0 .. SeqWord - 1
  BY <1>1, Cut
<1>7. Node(seq, len, http, fin) \in Nodes
  BY <1>4, <1>5, <1>6 DEF Nodes
<1>8. Node(seq, len, http, fin).fin = fin
  BY <1>5
<1> QED
  BY <1>2, <1>3, <1>4, <1>5, <1>7, <1>8

\* A node begins where the side goes on, and takes no more numbers than the packet.
LEMMA NodeFollows ==
  ASSUME NEW seq \in 0 .. SeqWord - 1, NEW len \in Nat, NEW http, NEW fin \in BOOLEAN,
         http # "none" => len >= Header
  PROVE  \E x \in Nat : Follows(Node(seq, len, http, fin), seq, x, Used(len, fin))
<1> DEFINE d == IF http = "none" THEN len ELSE Header
           f == IF fin THEN 1 ELSE 0
           n == Node(seq, len, http, fin)
<1>1. n.seq = seq /\ n.nxt = (seq + d + f) % SeqWord /\ n.dl = d /\ Used(len, fin) = len + f
  BY DEF Node, Used
<1>2. d \in Nat /\ f \in 0 .. 1 /\ d <= len
  BY ConversationAssumption
<1>3. seq + d + f = seq + (d + f)
  BY <1>2
<1> HIDE DEF d, f, n
<1>4. Follows(n, seq, d + f, Used(len, fin))
  BY <1>1, <1>2, <1>3 DEF Follows
<1> QED
  BY <1>2, <1>4 DEF n

\* A node that begins no message leaves the beginnings alone.
LEMMA GrewNone ==
  ASSUME NEW messages \in Seq(Messages), NEW new, NEW list, NEW len \in Nat,
         Grew(messages, new, list, len, "none", FALSE)
  PROVE  /\ SameStarts(messages, new)
         /\ \A k \in 1 .. Len(messages) - 1 : new[k] = messages[k]
         /\ messages # <<>> =>
              new[Len(messages)].bytes = messages[Len(messages)].bytes + len
<1>1. CASE len = 0 /\ new = messages
  <2>1. \A k \in 1 .. Len(messages) : messages[k] \in Messages
    BY LenProperties
  <2>2. messages # <<>> => Len(messages) \in 1 .. Len(messages)
    BY EmptySeq
  <2>3. messages # <<>> => messages[Len(messages)].bytes = messages[Len(messages)].bytes + len
    BY <1>1, <2>1, <2>2 DEF Messages
  <2> QED
    BY <1>1, <2>3 DEF SameStarts
<1>2. CASE messages # <<>> /\ new = Longer(messages, len)
  BY <1>2, LongerIs
<1> QED
  BY <1>1, <1>2 DEF Grew

\* A message begun comes last in the history.
LEMMA GrewBegun ==
  ASSUME NEW messages \in Seq(Messages), NEW new, NEW list \in Seq(Nodes), NEW len \in Nat,
         NEW http, http # "none", Grew(messages, new, list, len, http, FALSE)
  PROVE  /\ new = Append(messages, [at |-> Len(list) + 1, bytes |-> len])
         /\ new \in Seq(Messages) /\ Len(new) = Len(messages) + 1
         /\ new[Len(new)].at = Len(list) + 1
         /\ \A k \in 1 .. Len(messages) : new[k].at = messages[k].at
<1>1. Len(messages) \in Nat /\ Len(list) + 1 \in Nat
  BY LenProperties
<1>2. new = Append(messages, [at |-> Len(list) + 1, bytes |-> len])
  BY DEF Grew, Began
<1>3. /\ new \in Seq(Messages) /\ Len(new) = Len(messages) + 1
      /\ \A k \in 1 .. Len(messages) : new[k] = messages[k]
      /\ new[Len(messages) + 1] = [at |-> Len(list) + 1, bytes |-> len]
  BY <1>1, <1>2, BeganIs
<1>4. new[Len(new)].at = Len(list) + 1
  BY <1>3
<1> QED
  BY <1>2, <1>3, <1>4

\* What the history of a side says of where messages begin.
LEMMA GrewIs ==
  ASSUME NEW messages \in Seq(Messages), NEW new, NEW list \in Seq(Nodes), NEW len \in Nat,
         NEW http, NEW fin \in BOOLEAN, Grew(messages, new, list, len, http, fin)
  PROVE  /\ new \in Seq(Messages)
         /\ Len(new) = Len(messages) + (IF http # "none" /\ ~ fin THEN 1 ELSE 0)
         /\ \A k \in 1 .. Len(messages) : new[k].at = messages[k].at
<1>1. Len(messages) \in Nat
  BY LenProperties
<1>2. CASE http # "none" /\ ~ fin
  <2>1. Grew(messages, new, list, len, http, FALSE)
    BY <1>2
  <2>2. /\ new \in Seq(Messages) /\ Len(new) = Len(messages) + 1
        /\ \A k \in 1 .. Len(messages) : new[k].at = messages[k].at
    BY <1>2, <2>1, GrewBegun
  <2> QED
    BY <1>1, <1>2, <2>2
<1>3. CASE http = "none" \/ fin
  <2>1. SameStarts(messages, new)
    <3>1. CASE fin
      BY <3>1 DEF Grew, SameStarts
    <3>2. CASE http = "none" /\ ~ fin
      <4>1. Grew(messages, new, list, len, "none", FALSE)
        BY <3>2
      <4> QED
        BY <4>1, GrewNone
    <3> QED
      BY <1>3, <3>1, <3>2
  <2> QED
    BY <1>1, <1>3, <2>1 DEF SameStarts
<1> QED
  BY <1>2, <1>3

\* A node of a side that goes on with number num, for len bytes.
Segment(n, kind, num, len) ==
  /\ n.http \in {"none", kind} /\ n.seq = num
  /\ n.http = "none" /\ ~ n.fin => n.nxt = (num + len) % SeqWord
  /\ n.http # "none" /\ ~ n.fin => n.nxt = (num + Header) % SeqWord
  /\ n.http # "none" => n.hdlen = Header /\ n.dl = Header /\ len >= Header

\* A side without losses gets a node: its list stays in order, its messages
\* begin where the list says, and have the measures of the list.
LEMMA SideStep ==
  ASSUME NEW list \in Seq(Nodes), NEW messages \in Seq(Messages), NEW kind, kind # "none",
         NEW num \in 0 .. SeqWord - 1, NEW len \in Nat, NEW n \in Nodes, NEW new,
         Segment(n, kind, num, len),
         Fins(list) = {}, Grew(messages, new, list, len, n.http, n.fin),
         Begin(Starts(list, kind, Before(list)), messages),
         Measured(list, messages, num, FALSE)
  PROVE  /\ Begin(Starts(Append(list, n), kind, Before(Append(list, n))), new)
         /\ Measured(Append(list, n), new, (num + len) % SeqWord, n.fin)
<1> DEFINE s == Starts(list, kind, Before(list))
           t == Starts(Append(list, n), kind, Before(Append(list, n)))
<1>1. Len(list) + 1 \in Nat /\ s \in Seq(Nat)
  <2>1. Len(list) \in Nat /\ Before(list) \in Nat
    BY BeforeType, LenProperties
  <2>2. Starts(list, kind, Before(list)) \in Seq(Nat)
    BY <2>1, StartsEnumerate
  <2> QED
    BY <2>1, <2>2
<1>2. t = IF n.http = kind /\ ~ n.fin THEN Append(s, Len(list) + 1) ELSE s
  BY StartsAppended
<1> HIDE DEF s, t
<1>3. Begin(s, messages)
  BY DEF s
<1>9. /\ n.http \in {"none", kind} /\ n.seq = num
      /\ n.http = "none" /\ ~ n.fin => n.nxt = (num + len) % SeqWord
      /\ n.http # "none" /\ ~ n.fin => n.nxt = (num + Header) % SeqWord
      /\ n.http # "none" => n.hdlen = Header /\ n.dl = Header /\ len >= Header
  BY DEF Segment
<1>7. n.fin \in BOOLEAN
  BY DEF Nodes
<1>4. CASE n.http # "none" /\ ~ n.fin
  <2>1. t = Append(s, Len(list) + 1)
    BY <1>2, <1>4, <1>9
  <2>2. new = Append(messages, [at |-> Len(list) + 1, bytes |-> len])
    BY <1>4 DEF Grew, Began
  <2>3. Begin(t, new)
    BY <1>1, <1>3, <2>1, <2>2, BeginBegun
  <2>4. Measured(Append(list, n), new, (num + len) % SeqWord, FALSE)
    BY <1>4, <1>9, <2>2, MeasuredBegun
  <2>5. n.fin = FALSE
    BY <1>4, <1>7
  <2> QED
    BY <2>3, <2>4, <2>5 DEF t
<1>5. CASE n.http = "none" /\ ~ n.fin
  <2>1. t = s
    BY <1>2, <1>5
  <2>2. /\ SameStarts(messages, new)
        /\ \A k \in 1 .. Len(messages) - 1 : new[k] = messages[k]
        /\ messages # <<>> =>
             new[Len(messages)].bytes = messages[Len(messages)].bytes + len
    <3>1. n.http = "none" /\ n.fin = FALSE
      BY <1>5, <1>7
    <3>2. Grew(messages, new, list, len, "none", FALSE)
      BY <3>1
    <3> QED
      BY <3>2, GrewNone
  <2>3. Begin(t, new)
    BY <1>1, <1>3, <2>1, <2>2, BeginKept
  <2>4. Measured(Append(list, n), new, (num + len) % SeqWord, FALSE)
    BY <1>5, <1>9, <2>2, MeasuredGrown
  <2>5. n.fin = FALSE
    BY <1>5, <1>7
  <2> QED
    BY <2>3, <2>4, <2>5 DEF t
<1>6. CASE n.fin
  <2>1. t = s
    BY <1>2, <1>6
  <2>2. new = messages
    BY <1>6 DEF Grew
  <2>3. Measured(Append(list, n), messages, (num + len) % SeqWord, TRUE)
    BY <1>6, MeasuredFin
  <2> QED
    BY <1>3, <1>6, <2>1, <2>2, <2>3 DEF t
<1> QED
  BY <1>4, <1>5, <1>6

\* The types of what tcp_order keeps, and of the numbers the sides have used.
Tracked ==
  /\ DOMAIN order = {"src", "dst"}
  /\ \A side \in DOMAIN order : DOMAIN order[side] = DOMAIN NewOrder
  /\ sent \in [src : Nat \ {0}, dst : Nat \ {0}]
  /\ again \in [src : BOOLEAN, dst : BOOLEAN]

\* tcp_order of one direction leaves the other alone.
LEMMA OrderSide ==
  ASSUME NEW o, DOMAIN o = {"src", "dst"},
         \A side \in DOMAIN o : DOMAIN o[side] = DOMAIN NewOrder,
         NEW n, NEW s \in {"src", "dst"}, NEW p, p = [o EXCEPT ![s] = tcp_order(@, n)]
  PROVE  /\ DOMAIN p = {"src", "dst"}
         /\ \A side \in DOMAIN p : DOMAIN p[side] = DOMAIN NewOrder
         /\ p[s] = tcp_order(o[s], n)
         /\ \A t \in {"src", "dst"} : t # s => p[t] = o[t]
<1>1. DOMAIN p = {"src", "dst"} /\ p[s] = tcp_order(o[s], n)
  OBVIOUS
<1>2. \A t \in {"src", "dst"} : t # s => p[t] = o[t]
  OBVIOUS
<1>3. DOMAIN tcp_order(o[s], n) = DOMAIN NewOrder
  BY OrderFields
<1> QED
  BY <1>1, <1>2, <1>3

\* A packet of the client that is captured, and one of the server.
ClientMove(len, http, fin) ==
  /\ Captured
  /\ FromClient(len, http, fin)
  /\ closed' = fin
  /\ Grew(asked, asked', src, len, http, fin)
  /\ answered' = answered

ServerMove(len, http, fin) ==
  /\ Captured
  /\ http # "none" /\ ~ fin => Len(answered) < Len(asked)
  /\ FromServer(len, http, fin)
  /\ closed' = fin
  /\ Grew(answered, answered', dst, len, http, fin)
  /\ asked' = asked

\* Every step is one of these, one in which a header is missed, or a packet captured
\* again.
LEMMA Moves ==
  ASSUME TypeOK, Next
  PROVE  \/ \E len \in Nat, http \in {"none", "req"}, fin \in BOOLEAN :
              (http # "none" => len >= Header) /\ ClientMove(len, http, fin)
         \/ \E len \in Nat, http \in {"none", "rsp"}, fin \in BOOLEAN :
              (http # "none" => len >= Header) /\ ServerMove(len, http, fin)
         \/ \E len \in Sizes : MissedRequest(len) \/ MissedResponse(len) \/ Interim(len)
         \/ \E i \in DOMAIN src : RepeatedClient(i)
         \/ \E i \in DOMAIN dst : RepeatedServer(i)
<1> DEFINE Client(len, http, fin) == (http # "none" => len >= Header) /\ ClientMove(len, http, fin)
           Server(len, http, fin) == (http # "none" => len >= Header) /\ ServerMove(len, http, fin)
<1>1. \A len \in Sizes : len \in Nat /\ len >= Header /\ len > 0
  BY ConversationAssumption
<1>2. ~ closed /\ closed \in BOOLEAN
  BY DEF Next, TypeOK, Request, Response, MissedRequest, MissedResponse, Interim, ClientSegment,
         ServerSegment, ClientFin, ServerFin, RepeatedClient, RepeatedServer, Captured, Sent
<1>3. ASSUME NEW len \in Sizes, Request(len)
      PROVE  Client(len, "req", FALSE)
  BY <1>1, <1>2, <1>3 DEF Request, ClientMove, Grew
<1>4. ASSUME NEW len \in Sizes, Response(len)
      PROVE  Server(len, "rsp", FALSE)
  BY <1>1, <1>2, <1>4 DEF Response, ServerMove, Grew
<1>5. ASSUME NEW len \in Sizes \cup {0}, ClientSegment(len)
      PROVE  len \in Nat /\ Client(len, "none", FALSE)
  <2>1. len \in Nat /\ (len # 0 => len > 0)
    BY <1>1
  <2>2. Grew(asked, asked', src, len, "none", FALSE)
    BY <1>5, <2>1 DEF ClientSegment, Grew
  <2> QED
    BY <1>2, <1>5, <2>1, <2>2 DEF ClientSegment, ClientMove
<1>6. ASSUME NEW len \in Sizes \cup {0}, ServerSegment(len)
      PROVE  len \in Nat /\ Server(len, "none", FALSE)
  <2>1. len \in Nat /\ (len # 0 => len > 0)
    BY <1>1
  <2>2. Grew(answered, answered', dst, len, "none", FALSE)
    BY <1>6, <2>1 DEF ServerSegment, Grew
  <2> QED
    BY <1>2, <1>6, <2>1, <2>2 DEF ServerSegment, ServerMove
<1>7. ASSUME NEW len \in Sizes \cup {0}, ClientFin(len)
      PROVE  len \in Nat /\ \E http \in {"none", "req"} : Client(len, http, TRUE)
  <2>1. len \in Nat /\ (len # 0 => len >= Header)
    BY <1>1
  <2>2. PICK http \in IF len = 0 THEN {"none"} ELSE {"none", "req"} : FromClient(len, http, TRUE)
    BY <1>7 DEF ClientFin
  <2>3. http \in {"none", "req"} /\ (http # "none" => len >= Header)
    BY <2>1, <2>2
  <2>4. Client(len, http, TRUE)
    BY <1>7, <2>2, <2>3 DEF ClientFin, ClientMove, Grew
  <2> QED
    BY <2>1, <2>3, <2>4
<1>8. ASSUME NEW len \in Sizes \cup {0}, ServerFin(len)
      PROVE  len \in Nat /\ \E http \in {"none", "rsp"} : Server(len, http, TRUE)
  <2>1. len \in Nat /\ (len # 0 => len >= Header)
    BY <1>1
  <2>2. PICK http \in IF len = 0 THEN {"none"} ELSE {"none", "rsp"} : FromServer(len, http, TRUE)
    BY <1>8 DEF ServerFin
  <2>3. http \in {"none", "rsp"} /\ (http # "none" => len >= Header)
    BY <2>1, <2>2
  <2>4. Server(len, http, TRUE)
    BY <1>8, <2>2, <2>3 DEF ServerFin, ServerMove, Grew
  <2> QED
    BY <2>1, <2>3, <2>4
<1> HIDE DEF Client, Server
<1>9. \/ \E len \in Nat, http \in {"none", "req"}, fin \in BOOLEAN : Client(len, http, fin)
      \/ \E len \in Nat, http \in {"none", "rsp"}, fin \in BOOLEAN : Server(len, http, fin)
      \/ \E len \in Sizes : MissedRequest(len) \/ MissedResponse(len) \/ Interim(len)
      \/ \E i \in DOMAIN src : RepeatedClient(i)
      \/ \E i \in DOMAIN dst : RepeatedServer(i)
  BY <1>1, <1>3, <1>4, <1>5, <1>6, <1>7, <1>8 DEF Next
<1> QED
  BY <1>9 DEF Client, Server

\* Time does not go back and, but for equal times, goes on.
LEMMA Times ==
  ASSUME TypeOK, Sent
  PROVE  /\ capture' = capture /\ ~ closed
         /\ now \in Nat /\ now' \in 0 .. Bound' /\ now <= now'
         /\ capture # "coarse" => now < now'
<1>1. now \in Nat /\ now < Bound /\ capture' = capture /\ ~ closed
  BY DEF TypeOK, Sent
<1>2. Bound' = Bound /\ Bound \in Nat
  BY <1>1, ConversationAssumption DEF Bound, TypeOK
<1>3. now' = now \/ now' = now + 1
  BY DEF Sent
<1>4. capture # "coarse" => now' = now + 1
  BY DEF Sent
<1> HIDE DEF Bound
<1> QED
  BY <1>1, <1>2, <1>3, <1>4

\* The nodes of the handshake.
LEMMA Handshake ==
  ASSUME NEW isn \in 0 .. SeqWord - 1
  PROVE  /\ Syn(isn) \in Nodes /\ Ack(isn) \in Nodes
         /\ Syn(isn).http = "none" /\ ~ Syn(isn).fin /\ Syn(isn).time = 0 /\ Syn(isn).dl = 0
         /\ Ack(isn).http = "none" /\ ~ Ack(isn).fin /\ Ack(isn).time = 0 /\ Ack(isn).dl = 0
         /\ Syn(isn).seq = isn /\ Syn(isn).nxt = (isn + 1) % SeqWord
         /\ Ack(isn).seq = (isn + 1) % SeqWord /\ Ack(isn).nxt = (isn + 1) % SeqWord
<1> DEFINE q == (isn + 1) % SeqWord
<1>1. q \in 0 .. SeqWord - 1
  <2>1. isn + 1 \in Int
    BY WordAssumption
  <2> QED
    BY <2>1, Cut
<1>2. Syn(isn) = [http |-> "none", fin |-> FALSE, time |-> 0, seq |-> isn, nxt |-> q,
                  dl |-> 0, hdlen |-> 0]
  BY DEF Syn
<1> HIDE DEF q
<1>3. Ack(isn) = [Syn(isn) EXCEPT !.seq = q]
  BY DEF Ack, q
<1>4. Syn(isn) \in Nodes
  BY <1>1, <1>2 DEF Nodes
<1>5. Ack(isn) \in Nodes
  BY <1>1, <1>3, <1>4 DEF Nodes
<1>6. /\ Ack(isn).http = "none" /\ ~ Ack(isn).fin /\ Ack(isn).time = 0 /\ Ack(isn).dl = 0
      /\ Ack(isn).seq = q /\ Ack(isn).nxt = q
  BY <1>2, <1>3
<1> QED
  BY <1>2, <1>4, <1>5, <1>6 DEF q

\* The nodes of a list of at most two, of which none is HTTP or FIN.
Opened(list) ==
  /\ list \in Seq(Nodes) /\ Len(list) \in 1 .. 2
  /\ \A i \in 1 .. Len(list) :
       list[i].http = "none" /\ ~ list[i].fin /\ list[i].time = 0 /\ list[i].dl = 0

\* What the handshake leaves.
LEMMA InitIs ==
  ASSUME Init
  PROVE  /\ Opened(src) /\ Opened(dst)
         /\ asked = <<>> /\ answered = <<>> /\ now = 0 /\ closed = FALSE
         /\ capture \in {"exact", "coarse", "lossy"}
         /\ \E isn \in 0 .. SeqWord - 1 :
              /\ src = <<Syn(isn), Ack(isn)>> /\ dst = <<Syn(isn)>>
              /\ order = [src |-> tcp_order(tcp_order(NewOrder, Syn(isn)), Ack(isn)),
                          dst |-> tcp_order(NewOrder, Syn(isn))]
              /\ number = [src |-> (isn + 1) % SeqWord, dst |-> (isn + 1) % SeqWord]
<1>1. PICK isn \in 0 .. SeqWord - 1 :
        /\ src = <<Syn(isn), Ack(isn)>> /\ dst = <<Syn(isn)>>
        /\ order = [src |-> tcp_order(tcp_order(NewOrder, Syn(isn)), Ack(isn)),
                    dst |-> tcp_order(NewOrder, Syn(isn))]
        /\ number = [src |-> (isn + 1) % SeqWord, dst |-> (isn + 1) % SeqWord]
  BY ConversationAssumption DEF Init
<1>2. /\ Syn(isn) \in Nodes /\ Ack(isn) \in Nodes
      /\ Syn(isn).http = "none" /\ ~ Syn(isn).fin /\ Syn(isn).time = 0 /\ Syn(isn).dl = 0
      /\ Ack(isn).http = "none" /\ ~ Ack(isn).fin /\ Ack(isn).time = 0 /\ Ack(isn).dl = 0
  BY Handshake
<1>3. \A x, y \in Nodes : /\ <<x, y>> \in Seq(Nodes) /\ Len(<<x, y>>) = 2
                          /\ <<x, y>>[1] = x /\ <<x, y>>[2] = y
                          /\ <<x>> \in Seq(Nodes) /\ Len(<<x>>) = 1 /\ <<x>>[1] = x
  OBVIOUS
<1>4. Opened(src)
  <2>1. src \in Seq(Nodes) /\ Len(src) = 2 /\ src[1] = Syn(isn) /\ src[2] = Ack(isn)
    BY <1>1, <1>2, <1>3
  <2>2. \A i \in 1 .. 2 : i = 1 \/ i = 2
    OBVIOUS
  <2> QED
    BY <1>2, <2>1, <2>2 DEF Opened
<1>5. Opened(dst)
  <2>1. dst \in Seq(Nodes) /\ Len(dst) = 1 /\ dst[1] = Syn(isn)
    BY <1>1, <1>2, <1>3
  <2>2. \A i \in 1 .. 1 : i = 1
    OBVIOUS
  <2> QED
    BY <1>2, <2>1, <2>2 DEF Opened
<1> QED
  BY <1>1, <1>4, <1>5 DEF Init

\* Types at the start.
LEMMA TypeInit == Init => TypeOK
<1> SUFFICES ASSUME Init PROVE TypeOK
  OBVIOUS
<1>1. capture \in {"exact", "coarse", "lossy"} /\ now = 0 /\ closed = FALSE
  BY DEF Init
<1>2. now \in 0 .. Bound
  BY <1>1, ConversationAssumption DEF Bound
<1>3. PICK isn \in 0 .. SeqWord - 1 :
        /\ order = [src |-> tcp_order(tcp_order(NewOrder, Syn(isn)), Ack(isn)),
                    dst |-> tcp_order(NewOrder, Syn(isn))]
        /\ number = [src |-> (isn + 1) % SeqWord, dst |-> (isn + 1) % SeqWord]
  BY InitIs
<1>4. src \in Seq(Nodes) /\ dst \in Seq(Nodes)
  BY InitIs DEF Opened
<1>5. asked \in Seq(Messages) /\ answered \in Seq(Messages) /\ Len(answered) <= Len(asked)
  BY EmptySeq DEF Init
<1>6. intact \in Nat /\ ahead \in BOOLEAN
  BY ConversationAssumption DEF Init, losses
<1>7. number \in [src : 0 .. SeqWord - 1, dst : 0 .. SeqWord - 1]
  <2>1. isn + 1 \in Int
    BY WordAssumption
  <2>2. (isn + 1) % SeqWord \in 0 .. SeqWord - 1
    BY <2>1, Cut
  <2> QED
    BY <1>3, <2>2
<1>8. DOMAIN order = {"src", "dst"} /\ \A side \in DOMAIN order : DOMAIN order[side] = DOMAIN NewOrder
  <2> DEFINE a == tcp_order(tcp_order(NewOrder, Syn(isn)), Ack(isn))
             b == tcp_order(NewOrder, Syn(isn))
  <2>1. DOMAIN b = DOMAIN NewOrder
    BY Zenon, OrderFields
  <2>2. DOMAIN a = DOMAIN NewOrder
    BY Zenon, <2>1, OrderFields
  <2>3. order = [src |-> a, dst |-> b]
    BY <1>3
  <2> HIDE DEF a, b
  <2> QED
    BY <2>1, <2>2, <2>3
<1>9. sent \in [src : Nat \ {0}, dst : Nat \ {0}] /\ again \in [src : BOOLEAN, dst : BOOLEAN]
  BY DEF Init
<1> QED
  BY <1>1, <1>2, <1>4, <1>5, <1>6, <1>7, <1>8, <1>9 DEF TypeOK

\* The nodes a packet of either side adds.
LEMMA FromClientIs ==
  ASSUME TypeOK, now' \in Nat, NEW len \in Nat, NEW http \in {"none", "req"}, NEW fin \in BOOLEAN,
         FromClient(len, http, fin)
  PROVE  /\ src' = Append(src, Node(number.src, len, http, fin)) /\ dst' = dst
         /\ Node(number.src, len, http, fin) \in Nodes
         /\ number.src \in 0 .. SeqWord - 1
         /\ src' \in Seq(Nodes) /\ dst' \in Seq(Nodes)
         /\ number'.src = (number.src + len) % SeqWord /\ number'.dst = number.dst
         /\ number' \in [src : 0 .. SeqWord - 1, dst : 0 .. SeqWord - 1]
         /\ order'.src = tcp_order(order.src, Node(number.src, len, http, fin))
         /\ order'.dst = order.dst
         /\ sent'.src = sent.src + Used(len, fin) /\ sent'.dst = sent.dst
         /\ again' = again /\ Tracked'
<1>1. number \in [src : 0 .. SeqWord - 1, dst : 0 .. SeqWord - 1] /\ src \in Seq(Nodes)
  BY DEF TypeOK
<1>2. number.src \in 0 .. SeqWord - 1 /\ number.src + len \in Int
  BY <1>1, WordAssumption
<1>3. (number.src + len) % SeqWord \in 0 .. SeqWord - 1
  BY <1>2, Cut
<1>4. number' = [number EXCEPT !.src = (number.src + len) % SeqWord]
  BY DEF FromClient
<1>5. Node(number.src, len, http, fin) \in Nodes
  BY <1>2, NodeIs
<1>6. src' = Append(src, Node(number.src, len, http, fin)) /\ dst' = dst
  BY DEF FromClient
<1>7. src' \in Seq(Nodes)
  BY <1>1, <1>5, <1>6, Appended
<1>8. /\ number'.src = (number.src + len) % SeqWord /\ number'.dst = number.dst
      /\ number' \in [src : 0 .. SeqWord - 1, dst : 0 .. SeqWord - 1]
  BY <1>1, <1>3, <1>4
<1>9. Tracked /\ order' = [order EXCEPT !.src = tcp_order(@, Node(number.src, len, http, fin))]
      /\ sent' = [sent EXCEPT !.src = @ + Used(len, fin)] /\ again' = again
  BY DEF TypeOK, Tracked, FromClient
<1>10. /\ DOMAIN order' = {"src", "dst"}
       /\ \A side \in DOMAIN order' : DOMAIN order'[side] = DOMAIN NewOrder
       /\ order'.src = tcp_order(order.src, Node(number.src, len, http, fin))
       /\ order'.dst = order.dst
  <2>1. DOMAIN order = {"src", "dst"} /\ \A side \in DOMAIN order : DOMAIN order[side] = DOMAIN NewOrder
    BY <1>9 DEF Tracked
  <2> QED
    BY <1>9, <2>1, OrderSide
<1>11. Used(len, fin) \in Nat
  BY DEF Used
<1>12. /\ sent' \in [src : Nat \ {0}, dst : Nat \ {0}]
       /\ sent'.src = sent.src + Used(len, fin) /\ sent'.dst = sent.dst
  <2>1. sent \in [src : Nat \ {0}, dst : Nat \ {0}]
    BY <1>9 DEF Tracked
  <2>2. sent.src + Used(len, fin) \in Nat \ {0}
    BY <1>11, <2>1
  <2> QED
    BY <1>9, <2>1, <2>2
<1>13. Tracked'
  BY <1>9, <1>10, <1>12 DEF Tracked
<1> QED
  BY <1>2, <1>5, <1>6, <1>7, <1>8, <1>9, <1>10, <1>12, <1>13 DEF TypeOK

\* The same for the server.
LEMMA FromServerIs ==
  ASSUME TypeOK, now' \in Nat, NEW len \in Nat, NEW http \in {"none", "rsp"}, NEW fin \in BOOLEAN,
         FromServer(len, http, fin)
  PROVE  /\ dst' = Append(dst, Node(number.dst, len, http, fin)) /\ src' = src
         /\ Node(number.dst, len, http, fin) \in Nodes
         /\ number.dst \in 0 .. SeqWord - 1
         /\ src' \in Seq(Nodes) /\ dst' \in Seq(Nodes)
         /\ number'.dst = (number.dst + len) % SeqWord /\ number'.src = number.src
         /\ number' \in [src : 0 .. SeqWord - 1, dst : 0 .. SeqWord - 1]
         /\ order'.dst = tcp_order(order.dst, Node(number.dst, len, http, fin))
         /\ order'.src = order.src
         /\ sent'.dst = sent.dst + Used(len, fin) /\ sent'.src = sent.src
         /\ again' = again /\ Tracked'
<1>1. number \in [src : 0 .. SeqWord - 1, dst : 0 .. SeqWord - 1] /\ dst \in Seq(Nodes)
  BY DEF TypeOK
<1>2. number.dst \in 0 .. SeqWord - 1 /\ number.dst + len \in Int
  BY <1>1, WordAssumption
<1>3. (number.dst + len) % SeqWord \in 0 .. SeqWord - 1
  BY <1>2, Cut
<1>4. number' = [number EXCEPT !.dst = (number.dst + len) % SeqWord]
  BY DEF FromServer
<1>5. Node(number.dst, len, http, fin) \in Nodes
  BY <1>2, NodeIs
<1>6. dst' = Append(dst, Node(number.dst, len, http, fin)) /\ src' = src
  BY DEF FromServer
<1>7. dst' \in Seq(Nodes)
  BY <1>1, <1>5, <1>6, Appended
<1>8. /\ number'.dst = (number.dst + len) % SeqWord /\ number'.src = number.src
      /\ number' \in [src : 0 .. SeqWord - 1, dst : 0 .. SeqWord - 1]
  BY <1>1, <1>3, <1>4
<1>9. Tracked /\ order' = [order EXCEPT !.dst = tcp_order(@, Node(number.dst, len, http, fin))]
      /\ sent' = [sent EXCEPT !.dst = @ + Used(len, fin)] /\ again' = again
  BY DEF TypeOK, Tracked, FromServer
<1>10. /\ DOMAIN order' = {"src", "dst"}
       /\ \A side \in DOMAIN order' : DOMAIN order'[side] = DOMAIN NewOrder
       /\ order'.dst = tcp_order(order.dst, Node(number.dst, len, http, fin))
       /\ order'.src = order.src
  <2>1. DOMAIN order = {"src", "dst"} /\ \A side \in DOMAIN order : DOMAIN order[side] = DOMAIN NewOrder
    BY <1>9 DEF Tracked
  <2> QED
    BY <1>9, <2>1, OrderSide
<1>11. Used(len, fin) \in Nat
  BY DEF Used
<1>12. /\ sent' \in [src : Nat \ {0}, dst : Nat \ {0}]
       /\ sent'.dst = sent.dst + Used(len, fin) /\ sent'.src = sent.src
  <2>1. sent \in [src : Nat \ {0}, dst : Nat \ {0}]
    BY <1>9 DEF Tracked
  <2>2. sent.dst + Used(len, fin) \in Nat \ {0}
    BY <1>11, <2>1
  <2> QED
    BY <1>9, <2>1, <2>2
<1>13. Tracked'
  BY <1>9, <1>10, <1>12 DEF Tracked
<1> QED
  BY <1>2, <1>5, <1>6, <1>7, <1>8, <1>9, <1>10, <1>12, <1>13 DEF TypeOK
\* The smaller of two numbers.
LEMMA LeastOfTwo ==
  ASSUME NEW a \in Nat, NEW b \in Nat
  PROVE  Least({a, b}) \in Nat /\ Least({a, b}) <= a /\ Least({a, b}) <= b
<1>1. CASE a <= b
  <2>1. Least({a, b}) = a
    BY <1>1, LeastIs
  <2> QED
    BY <1>1, <2>1
<1>2. CASE b <= a
  <2>1. Least({a, b}) = b
    BY <1>2, LeastIs
  <2> QED
    BY <1>2, <2>1
<1> QED
  BY <1>1, <1>2

\* A message whose header is missed is in the history, with a node or without.
LEMMA MissedRequestIs ==
  ASSUME TypeOK, NEW len \in Sizes, MissedRequest(len)
  PROVE  /\ len \in Nat /\ capture = "lossy" /\ Sent
         /\ FromClient(len, "none", FALSE) \/ (src' = src /\ dst' = dst)
         /\ number' \in [src : 0 .. SeqWord - 1, dst : 0 .. SeqWord - 1] /\ Tracked'
         /\ \E at \in Nat : asked' = Append(asked, [at |-> at, bytes |-> len])
         /\ intact' \in Nat /\ intact' <= intact /\ intact' <= Len(asked)
         /\ ahead' = TRUE /\ closed' = closed /\ answered' = answered
<1>1. len \in Nat /\ Len(src) + 1 \in Nat
  BY ConversationAssumption, LenProperties DEF TypeOK
<1>2. Len(asked) \in Nat /\ intact \in Nat /\ intact' = Least({intact, Len(asked)})
  BY LenProperties DEF TypeOK, MissedRequest
<1>3. intact' \in Nat /\ intact' <= intact /\ intact' <= Len(asked)
  BY <1>2, LeastOfTwo
<1>4. \/ asked' = Append(asked, [at |-> Len(src) + 1, bytes |-> len])
      \/ asked' = Append(asked, [at |-> 0, bytes |-> len])
  BY DEF MissedRequest, Began, Unseen
<1>5. \E at \in Nat : asked' = Append(asked, [at |-> at, bytes |-> len])
  BY <1>1, <1>4
<1>6. FromClient(len, "none", FALSE) \/ (src' = src /\ dst' = dst)
  BY DEF MissedRequest
<1>7. number' = [number EXCEPT !.src = (@ + len) % SeqWord]
  BY DEF MissedRequest, FromClient
<1>8. number \in [src : 0 .. SeqWord - 1, dst : 0 .. SeqWord - 1]
  BY DEF TypeOK
<1>9. (number.src + len) % SeqWord \in 0 .. SeqWord - 1
  <2>1. number.src + len \in Int
    BY <1>1, <1>8, WordAssumption
  <2> QED
    BY <2>1, Cut
<1>10. number' \in [src : 0 .. SeqWord - 1, dst : 0 .. SeqWord - 1]
  BY <1>7, <1>8, <1>9
<1>11. capture = "lossy" /\ Sent /\ ahead' = TRUE /\ closed' = closed /\ answered' = answered
  BY DEF MissedRequest
<1>12. Tracked'
  <2>1. Tracked
    BY DEF TypeOK, Tracked
  <2>2. CASE FromClient(len, "none", FALSE)
    <3>1. now' \in Nat
      BY <1>11, Times
    <3> QED
      BY <1>1, <2>2, <3>1, FromClientIs
  <2>3. CASE order' = order /\ again' = again /\ sent' = [sent EXCEPT !.src = @ + len]
    <3>1. sent' \in [src : Nat \ {0}, dst : Nat \ {0}]
      BY <1>1, <2>1, <2>3 DEF Tracked
    <3> QED
      BY <2>1, <2>3, <3>1 DEF Tracked
  <2> QED
    BY <2>2, <2>3 DEF MissedRequest
<1> QED
  BY <1>1, <1>3, <1>5, <1>6, <1>10, <1>11, <1>12

\* The same for a response, which has its request.
LEMMA MissedResponseIs ==
  ASSUME TypeOK, NEW len \in Sizes, MissedResponse(len)
  PROVE  /\ len \in Nat /\ capture = "lossy" /\ Sent
         /\ FromServer(len, "none", FALSE) \/ (src' = src /\ dst' = dst)
         /\ number' \in [src : 0 .. SeqWord - 1, dst : 0 .. SeqWord - 1] /\ Tracked'
         /\ \E at \in Nat : answered' = Append(answered, [at |-> at, bytes |-> len])
         /\ intact' \in Nat /\ intact' <= intact /\ intact' <= Len(answered)
         /\ ahead' = ahead /\ closed' = closed /\ asked' = asked
         /\ Len(answered) < Len(asked)
<1>1. len \in Nat /\ Len(dst) + 1 \in Nat
  BY ConversationAssumption, LenProperties DEF TypeOK
<1>2. Len(answered) \in Nat /\ intact \in Nat /\ intact' = Least({intact, Len(answered)})
  BY LenProperties DEF TypeOK, MissedResponse
<1>3. intact' \in Nat /\ intact' <= intact /\ intact' <= Len(answered)
  BY <1>2, LeastOfTwo
<1>4. \/ answered' = Append(answered, [at |-> Len(dst) + 1, bytes |-> len])
      \/ answered' = Append(answered, [at |-> 0, bytes |-> len])
  BY DEF MissedResponse, Began, Unseen
<1>5. \E at \in Nat : answered' = Append(answered, [at |-> at, bytes |-> len])
  BY <1>1, <1>4
<1>6. FromServer(len, "none", FALSE) \/ (src' = src /\ dst' = dst)
  BY DEF MissedResponse
<1>7. number' = [number EXCEPT !.dst = (@ + len) % SeqWord]
  BY DEF MissedResponse, FromServer
<1>8. number \in [src : 0 .. SeqWord - 1, dst : 0 .. SeqWord - 1]
  BY DEF TypeOK
<1>9. (number.dst + len) % SeqWord \in 0 .. SeqWord - 1
  <2>1. number.dst + len \in Int
    BY <1>1, <1>8, WordAssumption
  <2> QED
    BY <2>1, Cut
<1>10. number' \in [src : 0 .. SeqWord - 1, dst : 0 .. SeqWord - 1]
  BY <1>7, <1>8, <1>9
<1>11. /\ capture = "lossy" /\ Sent /\ ahead' = ahead /\ closed' = closed /\ asked' = asked
       /\ Len(answered) < Len(asked)
  BY DEF MissedResponse
<1>12. Tracked'
  <2>1. Tracked
    BY DEF TypeOK, Tracked
  <2>2. CASE FromServer(len, "none", FALSE)
    <3>1. now' \in Nat
      BY <1>11, Times
    <3> QED
      BY <1>1, <2>2, <3>1, FromServerIs
  <2>3. CASE order' = order /\ again' = again /\ sent' = [sent EXCEPT !.dst = @ + len]
    <3>1. sent' \in [src : Nat \ {0}, dst : Nat \ {0}]
      BY <1>1, <2>1, <2>3 DEF Tracked
    <3> QED
      BY <2>1, <2>3, <3>1 DEF Tracked
  <2> QED
    BY <2>2, <2>3 DEF MissedResponse
<1> QED
  BY <1>1, <1>3, <1>5, <1>6, <1>10, <1>11, <1>12

\* A response too many is in the list and not in the history.
LEMMA InterimIs ==
  ASSUME TypeOK, NEW len \in Sizes, Interim(len)
  PROVE  /\ len \in Nat /\ capture = "lossy" /\ Sent
         /\ FromServer(len, "rsp", FALSE)
         /\ intact' \in Nat /\ intact' <= intact /\ intact' <= Len(answered)
         /\ ahead' = TRUE /\ closed' = closed /\ asked' = asked /\ answered' = answered
<1>1. Len(answered) \in Nat /\ intact \in Nat /\ intact' = Least({intact, Len(answered)})
  BY LenProperties DEF TypeOK, Interim
<1>2. intact' \in Nat /\ intact' <= intact /\ intact' <= Len(answered)
  BY <1>1, LeastOfTwo
<1> QED
  BY <1>2, ConversationAssumption DEF Interim

\* A packet captured again changes only what tcp_order makes of its side.
LEMMA RepeatIs ==
  ASSUME TypeOK,
         \/ \E i \in DOMAIN src : RepeatedClient(i)
         \/ \E i \in DOMAIN dst : RepeatedServer(i)
  PROVE  /\ Sent /\ Tracked' /\ src' = src /\ dst' = dst /\ number' = number /\ sent' = sent
         /\ closed' = closed /\ asked' = asked /\ answered' = answered
         /\ intact' = intact /\ ahead' = ahead
<1>1. Tracked
  BY DEF TypeOK, Tracked
<1>2. /\ DOMAIN order = {"src", "dst"} /\ \A side \in DOMAIN order : DOMAIN order[side] = DOMAIN NewOrder
      /\ again \in [src : BOOLEAN, dst : BOOLEAN]
  BY <1>1 DEF Tracked
<1>3. CASE \E i \in DOMAIN src : RepeatedClient(i)
  <2>1. PICK i \in DOMAIN src : RepeatedClient(i)
    BY <1>3
  <2> DEFINE n == [src[i] EXCEPT !.time = now']
  <2>2. /\ Sent /\ src' = src /\ dst' = dst /\ number' = number /\ sent' = sent
        /\ closed' = closed /\ asked' = asked /\ answered' = answered
        /\ intact' = intact /\ ahead' = ahead
        /\ order' = [order EXCEPT !.src = tcp_order(@, n)]
        /\ again' = [again EXCEPT !.src = @ \/ ~ (Contiguous(src) /\ Below(src, sent.src))]
    BY <2>1 DEF RepeatedClient, Captured, losses
  <2> HIDE DEF n
  <2>3. DOMAIN order' = {"src", "dst"} /\ \A side \in DOMAIN order' : DOMAIN order'[side] = DOMAIN NewOrder
    BY <1>2, <2>2, OrderSide
  <2>4. again' \in [src : BOOLEAN, dst : BOOLEAN]
    BY <1>2, <2>2
  <2> QED
    BY <1>1, <2>2, <2>3, <2>4 DEF Tracked
<1>4. CASE \E i \in DOMAIN dst : RepeatedServer(i)
  <2>1. PICK i \in DOMAIN dst : RepeatedServer(i)
    BY <1>4
  <2> DEFINE n == [dst[i] EXCEPT !.time = now']
  <2>2. /\ Sent /\ src' = src /\ dst' = dst /\ number' = number /\ sent' = sent
        /\ closed' = closed /\ asked' = asked /\ answered' = answered
        /\ intact' = intact /\ ahead' = ahead
        /\ order' = [order EXCEPT !.dst = tcp_order(@, n)]
        /\ again' = [again EXCEPT !.dst = @ \/ ~ (Contiguous(dst) /\ Below(dst, sent.dst))]
    BY <2>1 DEF RepeatedServer, Captured, losses
  <2> HIDE DEF n
  <2>3. DOMAIN order' = {"src", "dst"} /\ \A side \in DOMAIN order' : DOMAIN order'[side] = DOMAIN NewOrder
    BY <1>2, <2>2, OrderSide
  <2>4. again' \in [src : BOOLEAN, dst : BOOLEAN]
    BY <1>2, <2>2
  <2> QED
    BY <1>1, <2>2, <2>3, <2>4 DEF Tracked
<1> QED
  BY <1>3, <1>4

\* Types are kept.
LEMMA TypeNext == TypeOK /\ [Next]_vars => TypeOK'
<1> SUFFICES ASSUME TypeOK, [Next]_vars PROVE TypeOK'
  OBVIOUS
<1>1. /\ asked \in Seq(Messages) /\ answered \in Seq(Messages) /\ Len(answered) <= Len(asked)
      /\ intact \in Nat /\ ahead \in BOOLEAN /\ closed \in BOOLEAN
      /\ Len(asked) \in Nat /\ Len(answered) \in Nat
      /\ src \in Seq(Nodes) /\ dst \in Seq(Nodes)
      /\ capture \in {"exact", "coarse", "lossy"}
  BY LenProperties DEF TypeOK
<1>2. CASE UNCHANGED vars
  <2>1. Bound' = Bound
    BY <1>2 DEF vars, Bound
  <2> QED
    BY <1>2, <2>1 DEF vars, losses, TypeOK
<1>3. ASSUME NEW len \in Nat, NEW http \in {"none", "req"}, NEW fin \in BOOLEAN,
             ClientMove(len, http, fin)
      PROVE  TypeOK'
  <2>1. Sent /\ intact' = intact /\ ahead' = ahead /\ closed' = fin /\ answered' = answered
    BY <1>3 DEF ClientMove, Captured, losses
  <2>2. capture' = capture /\ now' \in 0 .. Bound' /\ now' \in Nat
    BY <2>1, Times
  <2>3. FromClient(len, http, fin)
    BY <1>3 DEF ClientMove
  <2>4. /\ src' \in Seq(Nodes) /\ dst' \in Seq(Nodes)
        /\ number' \in [src : 0 .. SeqWord - 1, dst : 0 .. SeqWord - 1] /\ Tracked'
    BY <2>2, <2>3, FromClientIs
  <2>5. Grew(asked, asked', src, len, http, fin)
    BY <1>3 DEF ClientMove
  <2>6. /\ asked' \in Seq(Messages)
        /\ Len(asked') = Len(asked) + (IF http # "none" /\ ~ fin THEN 1 ELSE 0)
    BY <1>1, <2>5, GrewIs
  <2>7. Len(asked) <= Len(asked')
    BY <1>1, <2>6
  <2>8. Len(answered') <= Len(asked')
    BY <1>1, <2>1, <2>6, <2>7
  <2> QED
    BY <1>1, <2>1, <2>2, <2>4, <2>6, <2>8 DEF TypeOK, Tracked
<1>4. ASSUME NEW len \in Nat, NEW http \in {"none", "rsp"}, NEW fin \in BOOLEAN,
             ServerMove(len, http, fin)
      PROVE  TypeOK'
  <2>1. Sent /\ intact' = intact /\ ahead' = ahead /\ closed' = fin /\ asked' = asked
    BY <1>4 DEF ServerMove, Captured, losses
  <2>2. capture' = capture /\ now' \in 0 .. Bound' /\ now' \in Nat
    BY <2>1, Times
  <2>3. FromServer(len, http, fin)
    BY <1>4 DEF ServerMove
  <2>4. /\ src' \in Seq(Nodes) /\ dst' \in Seq(Nodes)
        /\ number' \in [src : 0 .. SeqWord - 1, dst : 0 .. SeqWord - 1] /\ Tracked'
    BY <2>2, <2>3, FromServerIs
  <2>5. Grew(answered, answered', dst, len, http, fin)
    BY <1>4 DEF ServerMove
  <2>6. /\ answered' \in Seq(Messages)
        /\ Len(answered') = Len(answered) + (IF http # "none" /\ ~ fin THEN 1 ELSE 0)
    BY <1>1, <2>5, GrewIs
  <2>7. http # "none" /\ ~ fin => Len(answered) < Len(asked)
    BY <1>4 DEF ServerMove
  <2>8. Len(answered') <= Len(asked')
    BY <1>1, <2>1, <2>6, <2>7
  <2> QED
    BY <1>1, <2>1, <2>2, <2>4, <2>6, <2>8 DEF TypeOK, Tracked
<1>5. ASSUME NEW len \in Sizes, MissedRequest(len)
      PROVE  TypeOK'
  <2>1. /\ len \in Nat /\ Sent
        /\ FromClient(len, "none", FALSE) \/ (src' = src /\ dst' = dst)
        /\ number' \in [src : 0 .. SeqWord - 1, dst : 0 .. SeqWord - 1] /\ Tracked'
        /\ \E at \in Nat : asked' = Append(asked, [at |-> at, bytes |-> len])
        /\ intact' \in Nat
        /\ ahead' = TRUE /\ closed' = closed /\ answered' = answered
    BY <1>5, MissedRequestIs
  <2>2. capture' = capture /\ now' \in 0 .. Bound' /\ now' \in Nat
    BY <2>1, Times
  <2>3. src' \in Seq(Nodes) /\ dst' \in Seq(Nodes)
    BY <1>1, <2>1, <2>2, FromClientIs
  <2>4. asked' \in Seq(Messages) /\ Len(asked') = Len(asked) + 1
    BY <1>1, <2>1, BeganIs
  <2> QED
    BY <1>1, <2>1, <2>2, <2>3, <2>4 DEF TypeOK, Tracked
<1>6. ASSUME NEW len \in Sizes, MissedResponse(len)
      PROVE  TypeOK'
  <2>1. /\ len \in Nat /\ Sent
        /\ FromServer(len, "none", FALSE) \/ (src' = src /\ dst' = dst)
        /\ number' \in [src : 0 .. SeqWord - 1, dst : 0 .. SeqWord - 1] /\ Tracked'
        /\ \E at \in Nat : answered' = Append(answered, [at |-> at, bytes |-> len])
        /\ intact' \in Nat /\ Len(answered) < Len(asked)
        /\ ahead' = ahead /\ closed' = closed /\ asked' = asked
    BY <1>6, MissedResponseIs
  <2>2. capture' = capture /\ now' \in 0 .. Bound' /\ now' \in Nat
    BY <2>1, Times
  <2>3. src' \in Seq(Nodes) /\ dst' \in Seq(Nodes)
    BY <1>1, <2>1, <2>2, FromServerIs
  <2>4. answered' \in Seq(Messages) /\ Len(answered') = Len(answered) + 1
    BY <1>1, <2>1, BeganIs
  <2> QED
    BY <1>1, <2>1, <2>2, <2>3, <2>4 DEF TypeOK, Tracked
<1>7. ASSUME NEW len \in Sizes, Interim(len)
      PROVE  TypeOK'
  <2>1. /\ len \in Nat /\ Sent
        /\ FromServer(len, "rsp", FALSE)
        /\ intact' \in Nat
        /\ ahead' = TRUE /\ closed' = closed /\ asked' = asked /\ answered' = answered
    BY <1>7, InterimIs
  <2>2. capture' = capture /\ now' \in 0 .. Bound' /\ now' \in Nat
    BY <2>1, Times
  <2>3. /\ src' \in Seq(Nodes) /\ dst' \in Seq(Nodes)
        /\ number' \in [src : 0 .. SeqWord - 1, dst : 0 .. SeqWord - 1] /\ Tracked'
    BY <2>1, <2>2, FromServerIs
  <2> QED
    BY <1>1, <2>1, <2>2, <2>3 DEF TypeOK, Tracked
<1>8. CASE \/ \E i \in DOMAIN src : RepeatedClient(i)
           \/ \E i \in DOMAIN dst : RepeatedServer(i)
  <2>1. /\ Sent /\ Tracked' /\ src' = src /\ dst' = dst /\ number' = number
        /\ closed' = closed /\ asked' = asked /\ answered' = answered
        /\ intact' = intact /\ ahead' = ahead
    BY <1>8, RepeatIs
  <2>2. capture' = capture /\ now' \in 0 .. Bound' /\ now' \in Nat
    BY <2>1, Times
  <2>3. number \in [src : 0 .. SeqWord - 1, dst : 0 .. SeqWord - 1]
    BY DEF TypeOK
  <2> QED
    BY <1>1, <2>1, <2>2, <2>3 DEF TypeOK, Tracked
<1> QED
  BY <1>2, <1>3, <1>4, <1>5, <1>6, <1>7, <1>8, Moves
-----------------------------------------------------------------------------
(* The two lists. *)

\* One list gets the latest packet and the other waits.
LEMMA ListsStep ==
  ASSUME NEW a \in Seq(Nodes), NEW b \in Seq(Nodes), NEW ka, NEW kb,
         NEW t \in Nat, NEW u \in Nat, t <= u,
         NEW n \in Nodes, n.time = u, n.http \in {"none", ka},
         Listed(a, ka, t, FALSE), Listed(b, kb, t, FALSE)
  PROVE  /\ Listed(Append(a, n), ka, u, n.fin) /\ Listed(b, kb, u, n.fin)
         /\ Fins(a) = {} /\ Fins(b) = {} /\ (n.fin => Fins(Append(a, n)) # {})
         /\ t < u /\ n.fin => /\ \A i \in DOMAIN Append(a, n) :
                                 ~ Append(a, n)[i].fin => Append(a, n)[i].time < u
                            /\ \A i \in DOMAIN b : ~ b[i].fin => b[i].time < u
<1>0. n.fin \in BOOLEAN
  BY DEF Nodes
<1>1. Listed(Append(a, n), ka, u, n.fin) /\ Fins(a) = {}
  BY <1>0, ListedAppended
<1>2. Listed(b, kb, u, n.fin) /\ Fins(b) = {}
  BY <1>0, ListedWaits
<1>3. n.fin => Fins(Append(a, n)) # {}
  BY <1>1, BeforeAppended
<1>4. ASSUME t < u, n.fin, NEW i \in DOMAIN Append(a, n), ~ Append(a, n)[i].fin
      PROVE  Append(a, n)[i].time < u
  <2>1. /\ DOMAIN a = 1 .. Len(a) /\ DOMAIN Append(a, n) = 1 .. Len(a) + 1 /\ Len(a) \in Nat
        /\ \A j \in 1 .. Len(a) : Append(a, n)[j] = a[j] /\ a[j] \in Nodes
        /\ Append(a, n)[Len(a) + 1] = n
    BY Appended
  <2>2. i # Len(a) + 1
    BY <1>4, <2>1
  <2>3. i \in 1 .. Len(a)
    BY <1>4, <2>1, <2>2
  <2>4. a[i].time <= t
    BY <2>1, <2>3 DEF Listed
  <2>5. a[i].time \in Nat
    BY <2>1, <2>3 DEF Nodes
  <2> QED
    BY <1>4, <2>1, <2>3, <2>4, <2>5
<1>5. ASSUME t < u, NEW i \in DOMAIN b
      PROVE  b[i].time < u
  <2>1. b[i] \in Nodes
    BY LenProperties
  <2>2. b[i].time <= t /\ b[i].time \in Nat
    BY <2>1 DEF Listed, Nodes
  <2> QED
    BY <1>5, <2>2
<1> QED
  BY <1>1, <1>2, <1>3, <1>4, <1>5

\* While the flow is not over neither list has a FIN.
LEMMA ListsOpen ==
  ASSUME TypeOK, Lists, Sent
  PROVE  /\ Listed(src, "req", now, FALSE) /\ Listed(dst, "rsp", now, FALSE)
         /\ Fins(src) = {} /\ Fins(dst) = {}
<1>1. closed = FALSE
  BY DEF TypeOK, Sent
<1>2. Listed(src, "req", now, FALSE) /\ Listed(dst, "rsp", now, FALSE)
  BY <1>1 DEF Lists
<1>3. src \in Seq(Nodes) /\ dst \in Seq(Nodes) /\ now \in Nat /\ now <= now
  BY Times DEF TypeOK
<1>4. Fins(src) = {} /\ Fins(dst) = {}
  BY <1>2, <1>3, ListedWaits
<1> QED
  BY <1>2, <1>4

\* A packet of the client keeps the lists in order.
LEMMA ListsClient ==
  ASSUME TypeOK, Lists, Sent, NEW len \in Nat, NEW http \in {"none", "req"}, NEW fin \in BOOLEAN,
         FromClient(len, http, fin), closed' = fin
  PROVE  Lists'
<1> DEFINE n == Node(number.src, len, http, fin)
<1>1. /\ src \in Seq(Nodes) /\ dst \in Seq(Nodes)
      /\ Listed(src, "req", now, FALSE) /\ Listed(dst, "rsp", now, FALSE)
  BY ListsOpen DEF TypeOK
<1>2. /\ now \in Nat /\ now' \in Nat /\ now <= now' /\ capture' = capture
      /\ capture # "coarse" => now < now'
  BY Times
<1>3. src' = Append(src, n) /\ dst' = dst /\ n \in Nodes /\ number.src \in 0 .. SeqWord - 1
  BY <1>2, FromClientIs
<1>4. n.time = now' /\ n.http = http /\ n.fin = fin
  BY <1>2, <1>3, NodeIs
<1> HIDE DEF n
<1>5. /\ Listed(Append(src, n), "req", now', n.fin) /\ Listed(dst, "rsp", now', n.fin)
      /\ Fins(src) = {} /\ Fins(dst) = {} /\ (n.fin => Fins(Append(src, n)) # {})
      /\ now < now' /\ n.fin => /\ \A i \in DOMAIN Append(src, n) :
                                 ~ Append(src, n)[i].fin => Append(src, n)[i].time < now'
                            /\ \A i \in DOMAIN dst : ~ dst[i].fin => dst[i].time < now'
  BY <1>1, <1>2, <1>3, <1>4, ListsStep
<1>6. /\ Listed(src', "req", now', closed') /\ Listed(dst', "rsp", now', closed')
      /\ Fins(dst') = {} /\ (closed' => Fins(src') # {})
  BY <1>3, <1>4, <1>5
<1>7. capture' # "coarse" /\ closed' => \A list \in {src', dst'} :
        \A i \in DOMAIN list : ~ list[i].fin => list[i].time < now'
  BY <1>2, <1>3, <1>4, <1>5
<1> QED
  BY <1>6, <1>7 DEF Lists

\* A packet of the server keeps the lists in order.
LEMMA ListsServer ==
  ASSUME TypeOK, Lists, Sent, NEW len \in Nat, NEW http \in {"none", "rsp"}, NEW fin \in BOOLEAN,
         FromServer(len, http, fin), closed' = fin
  PROVE  Lists'
<1> DEFINE n == Node(number.dst, len, http, fin)
<1>1. /\ src \in Seq(Nodes) /\ dst \in Seq(Nodes)
      /\ Listed(src, "req", now, FALSE) /\ Listed(dst, "rsp", now, FALSE)
  BY ListsOpen DEF TypeOK
<1>2. /\ now \in Nat /\ now' \in Nat /\ now <= now' /\ capture' = capture
      /\ capture # "coarse" => now < now'
  BY Times
<1>3. dst' = Append(dst, n) /\ src' = src /\ n \in Nodes /\ number.dst \in 0 .. SeqWord - 1
  BY <1>2, FromServerIs
<1>4. n.time = now' /\ n.http = http /\ n.fin = fin
  BY <1>2, <1>3, NodeIs
<1> HIDE DEF n
<1>5. /\ Listed(Append(dst, n), "rsp", now', n.fin) /\ Listed(src, "req", now', n.fin)
      /\ Fins(dst) = {} /\ Fins(src) = {} /\ (n.fin => Fins(Append(dst, n)) # {})
      /\ now < now' /\ n.fin => /\ \A i \in DOMAIN Append(dst, n) :
                                 ~ Append(dst, n)[i].fin => Append(dst, n)[i].time < now'
                            /\ \A i \in DOMAIN src : ~ src[i].fin => src[i].time < now'
  BY <1>1, <1>2, <1>3, <1>4, ListsStep
<1>6. /\ Listed(src', "req", now', closed') /\ Listed(dst', "rsp", now', closed')
      /\ Fins(src') = {} /\ (closed' => Fins(dst') # {})
  BY <1>3, <1>4, <1>5
<1>7. capture' # "coarse" /\ closed' => \A list \in {src', dst'} :
        \A i \in DOMAIN list : ~ list[i].fin => list[i].time < now'
  BY <1>2, <1>3, <1>4, <1>5
<1> QED
  BY <1>6, <1>7 DEF Lists

\* A packet that is not captured keeps the lists in order.
LEMMA ListsUnseen ==
  ASSUME TypeOK, Lists, Sent, src' = src, dst' = dst, closed' = closed
  PROVE  Lists'
<1>1. closed = FALSE /\ src \in Seq(Nodes) /\ dst \in Seq(Nodes)
  BY DEF TypeOK, Sent
<1>2. now \in Nat /\ now' \in Nat /\ now <= now'
  BY Times
<1>3. /\ Listed(src, "req", now', FALSE) /\ Fins(src) = {}
      /\ Listed(dst, "rsp", now', FALSE) /\ Fins(dst) = {}
  BY <1>1, <1>2, ListsOpen, ListedWaits
<1>4. /\ Listed(src', "req", now', closed') /\ Fins(src') = {}
      /\ Listed(dst', "rsp", now', closed') /\ ~ closed'
  BY <1>1, <1>3
<1> QED
  BY <1>4 DEF Lists

\* The lists are in order at the start.
LEMMA ListsInit == Init => Lists
<1> SUFFICES ASSUME Init PROVE Lists
  OBVIOUS
<1>1. Opened(src) /\ Opened(dst) /\ closed = FALSE /\ now = 0
  BY InitIs
<1>2. ASSUME NEW list, Opened(list), NEW kind
      PROVE  Listed(list, kind, 0, FALSE) /\ Fins(list) = {}
  <2>1. DOMAIN list = 1 .. Len(list)
    BY <1>2, LenProperties DEF Opened
  <2>2. \A i \in 1 .. Len(list) : list[i].http = "none" /\ ~ list[i].fin /\ list[i].time = 0
    BY <1>2 DEF Opened
  <2> QED
    BY <2>1, <2>2 DEF Listed, Fins
<1> QED
  BY <1>1, <1>2 DEF Lists

\* Every step keeps them in order.
LEMMA ListsNext == TypeOK /\ Lists /\ [Next]_vars => Lists'
<1> SUFFICES ASSUME TypeOK, Lists, [Next]_vars PROVE Lists'
  OBVIOUS
<1>1. CASE UNCHANGED vars
  BY <1>1 DEF vars, Lists, Listed, Fins
<1>2. ASSUME NEW len \in Nat, NEW http \in {"none", "req"}, NEW fin \in BOOLEAN,
             ClientMove(len, http, fin)
      PROVE  Lists'
  BY <1>2, ListsClient DEF ClientMove, Captured
<1>3. ASSUME NEW len \in Nat, NEW http \in {"none", "rsp"}, NEW fin \in BOOLEAN,
             ServerMove(len, http, fin)
      PROVE  Lists'
  BY <1>3, ListsServer DEF ServerMove, Captured
<1>4. ASSUME NEW len \in Sizes, MissedRequest(len)
      PROVE  Lists'
  <2>1. /\ len \in Nat /\ Sent /\ closed' = closed /\ closed = FALSE
        /\ FromClient(len, "none", FALSE) \/ (src' = src /\ dst' = dst)
    BY <1>4, MissedRequestIs DEF Sent, TypeOK
  <2> QED
    BY <2>1, ListsClient, ListsUnseen
<1>5. ASSUME NEW len \in Sizes, MissedResponse(len)
      PROVE  Lists'
  <2>1. /\ len \in Nat /\ Sent /\ closed' = closed /\ closed = FALSE
        /\ FromServer(len, "none", FALSE) \/ (src' = src /\ dst' = dst)
    BY <1>5, MissedResponseIs DEF Sent, TypeOK
  <2> QED
    BY <2>1, ListsServer, ListsUnseen
<1>6. ASSUME NEW len \in Sizes, Interim(len)
      PROVE  Lists'
  <2>1. /\ len \in Nat /\ Sent /\ closed' = closed /\ closed = FALSE
        /\ FromServer(len, "rsp", FALSE)
    BY <1>6, InterimIs DEF Sent, TypeOK
  <2> QED
    BY <2>1, ListsServer
<1>7. CASE \/ \E i \in DOMAIN src : RepeatedClient(i)
           \/ \E i \in DOMAIN dst : RepeatedServer(i)
  BY <1>7, RepeatIs, ListsUnseen
<1> QED
  BY <1>1, <1>2, <1>3, <1>4, <1>5, <1>6, <1>7, Moves
-----------------------------------------------------------------------------
(* Without losses. *)

\* A packet of the client keeps both histories matched and measured.
LEMMA ClientMatched ==
  ASSUME TypeOK, Lists, Found, Lengths, capture # "lossy",
         NEW len \in Nat, NEW http \in {"none", "req"}, NEW fin \in BOOLEAN,
         http # "none" => len >= Header, ClientMove(len, http, fin)
  PROVE  Found' /\ Lengths'
<1> DEFINE n == Node(number.src, len, http, fin)
<1>1. Sent /\ FromClient(len, http, fin) /\ closed' = fin /\ answered' = answered
  BY DEF ClientMove, Captured
<1>2. now' \in Nat /\ capture' = capture /\ Fins(src) = {} /\ Fins(dst) = {} /\ closed = FALSE
  <2>1. closed = FALSE
    BY <1>1 DEF TypeOK, Sent
  <2>2. now' \in Nat /\ capture' = capture
    BY <1>1, Times
  <2>3. Fins(src) = {} /\ Fins(dst) = {}
    BY <1>1, ListsOpen
  <2> QED
    BY <2>1, <2>2, <2>3
<1>3. /\ src' = Append(src, n) /\ dst' = dst /\ n \in Nodes /\ number.src \in 0 .. SeqWord - 1
      /\ number'.src = (number.src + len) % SeqWord /\ number'.dst = number.dst
  BY <1>1, <1>2, FromClientIs
<1>4. /\ n.http = http /\ n.fin = fin /\ n.seq = number.src
      /\ http = "none" /\ ~ fin => n.nxt = (number.src + len) % SeqWord
      /\ http # "none" /\ ~ fin => n.nxt = (number.src + Header) % SeqWord
      /\ http # "none" => n.hdlen = Header /\ n.dl = Header
  BY <1>2, <1>3, NodeIs
<1> HIDE DEF n
<1>5. Segment(n, "req", number.src, len) /\ Grew(asked, asked', src, len, n.http, n.fin)
  BY <1>4 DEF ClientMove, Segment
<1>6. /\ src \in Seq(Nodes) /\ asked \in Seq(Messages) /\ answered \in Seq(Messages)
      /\ Begin(requests, asked) /\ Begin(responses, answered)
      /\ Measured(src, asked, number.src, FALSE) /\ Measured(dst, answered, number.dst, FALSE)
  BY <1>2 DEF TypeOK, Found, Lengths
<1>7. /\ Begin(Starts(Append(src, n), "req", Before(Append(src, n))), asked')
      /\ Measured(Append(src, n), asked', (number.src + len) % SeqWord, n.fin)
  <2>1. Begin(Starts(src, "req", Before(src)), asked)
    BY <1>6 DEF requests
  <2>2. /\ src \in Seq(Nodes) /\ asked \in Seq(Messages) /\ n \in Nodes
        /\ number.src \in 0 .. SeqWord - 1 /\ "req" # "none"
        /\ Fins(src) = {} /\ Measured(src, asked, number.src, FALSE)
    BY <1>2, <1>3, <1>4, <1>6
  <2> QED
    BY <1>5, <2>1, <2>2, SideStep
<1>8. Begin(requests', asked') /\ Measured(src', asked', number'.src, closed')
  BY <1>1, <1>3, <1>4, <1>7 DEF requests
<1>9. Measured(dst, answered, number.dst, fin)
  BY <1>6, MeasuredWaits
<1>10. Begin(responses', answered') /\ Measured(dst', answered', number'.dst, closed')
  BY <1>1, <1>3, <1>6, <1>9 DEF responses
<1> QED
  BY <1>8, <1>10 DEF Found, Lengths

\* A packet of the server does.
LEMMA ServerMatched ==
  ASSUME TypeOK, Lists, Found, Lengths, capture # "lossy",
         NEW len \in Nat, NEW http \in {"none", "rsp"}, NEW fin \in BOOLEAN,
         http # "none" => len >= Header, ServerMove(len, http, fin)
  PROVE  Found' /\ Lengths'
<1> DEFINE n == Node(number.dst, len, http, fin)
<1>1. Sent /\ FromServer(len, http, fin) /\ closed' = fin /\ asked' = asked
  BY DEF ServerMove, Captured
<1>2. now' \in Nat /\ capture' = capture /\ Fins(src) = {} /\ Fins(dst) = {} /\ closed = FALSE
  <2>1. closed = FALSE
    BY <1>1 DEF TypeOK, Sent
  <2>2. now' \in Nat /\ capture' = capture
    BY <1>1, Times
  <2>3. Fins(src) = {} /\ Fins(dst) = {}
    BY <1>1, ListsOpen
  <2> QED
    BY <2>1, <2>2, <2>3
<1>3. /\ dst' = Append(dst, n) /\ src' = src /\ n \in Nodes /\ number.dst \in 0 .. SeqWord - 1
      /\ number'.dst = (number.dst + len) % SeqWord /\ number'.src = number.src
  BY <1>1, <1>2, FromServerIs
<1>4. /\ n.http = http /\ n.fin = fin /\ n.seq = number.dst
      /\ http = "none" /\ ~ fin => n.nxt = (number.dst + len) % SeqWord
      /\ http # "none" /\ ~ fin => n.nxt = (number.dst + Header) % SeqWord
      /\ http # "none" => n.hdlen = Header /\ n.dl = Header
  BY <1>2, <1>3, NodeIs
<1> HIDE DEF n
<1>5. Segment(n, "rsp", number.dst, len) /\ Grew(answered, answered', dst, len, n.http, n.fin)
  BY <1>4 DEF ServerMove, Segment
<1>6. /\ dst \in Seq(Nodes) /\ asked \in Seq(Messages) /\ answered \in Seq(Messages)
      /\ Begin(requests, asked) /\ Begin(responses, answered)
      /\ Measured(src, asked, number.src, FALSE) /\ Measured(dst, answered, number.dst, FALSE)
  BY <1>2 DEF TypeOK, Found, Lengths
<1>7. /\ Begin(Starts(Append(dst, n), "rsp", Before(Append(dst, n))), answered')
      /\ Measured(Append(dst, n), answered', (number.dst + len) % SeqWord, n.fin)
  <2>1. Begin(Starts(dst, "rsp", Before(dst)), answered)
    BY <1>6 DEF responses
  <2>2. /\ dst \in Seq(Nodes) /\ answered \in Seq(Messages) /\ n \in Nodes
        /\ number.dst \in 0 .. SeqWord - 1 /\ "rsp" # "none"
        /\ Fins(dst) = {} /\ Measured(dst, answered, number.dst, FALSE)
    BY <1>2, <1>3, <1>4, <1>6
  <2> QED
    BY <1>5, <2>1, <2>2, SideStep
<1>8. Begin(responses', answered') /\ Measured(dst', answered', number'.dst, closed')
  BY <1>1, <1>3, <1>4, <1>7 DEF responses
<1>9. Measured(src, asked, number.src, fin)
  BY <1>6, MeasuredWaits
<1>10. Begin(requests', asked') /\ Measured(src', asked', number'.src, closed')
  BY <1>1, <1>3, <1>6, <1>9 DEF requests
<1> QED
  BY <1>8, <1>10 DEF Found, Lengths
\* No message begins with the handshake.
LEMMA OpenedStarts ==
  ASSUME NEW list, Opened(list), NEW kind, kind # "none"
  PROVE  Starts(list, kind, Before(list)) = <<>>
<1>1. Before(list) \in Nat /\ Before(list) <= Len(list)
  BY BeforeType, LenProperties DEF Opened
<1>2. {i \in 1 .. Before(list) : list[i].http = kind} = {}
  <2> SUFFICES ASSUME NEW i \in 1 .. Before(list) PROVE list[i].http # kind
    OBVIOUS
  <2>1. i \in 1 .. Len(list)
    BY <1>1, LenProperties DEF Opened
  <2> QED
    BY <2>1 DEF Opened
<1> QED
  BY <1>2, NoneInOrder, InOrderIs DEF Starts

\* No message is there at the start.
LEMMA MatchedInit == Init => Found /\ Lengths /\ Answers /\ Losses
<1> SUFFICES ASSUME Init PROVE Found /\ Lengths /\ Answers /\ Losses
  OBVIOUS
<1>1. Opened(src) /\ Opened(dst) /\ asked = <<>> /\ answered = <<>>
  BY InitIs
<1>2. Len(<<>>) = 0
  OBVIOUS
<1>3. requests = <<>> /\ responses = <<>>
  BY <1>1, OpenedStarts DEF requests, responses
<1>4. Begin(<<>>, <<>>)
  BY DEF Begin
<1>5. Found
  BY <1>1, <1>3, <1>4 DEF Found
<1>6. ASSUME NEW list, NEW num, NEW over PROVE Measured(list, <<>>, num, over)
  BY DEF Measured
<1>7. Lengths
  BY <1>1, <1>6 DEF Lengths
<1>8. Answers
  BY <1>1 DEF Answers
<1>9. Agree(<<>>, <<>>, intact)
  BY <1>2 DEF Agree
<1>10. Shifted(<<>>, <<>>)
  BY DEF Shifted
<1>11. Losses
  BY <1>1, <1>3, <1>9, <1>10 DEF Losses
<1> QED
  BY <1>5, <1>7, <1>8, <1>11

\* Where messages of a flow without losses stand.
LEMMA MessagesPlaced ==
  ASSUME TypeOK, Found, capture # "lossy"
  PROVE  /\ Len(asked) \in Nat /\ Len(answered) \in Nat
         /\ Len(src) \in Nat /\ Len(dst) \in Nat
         /\ \A k \in 1 .. Len(asked) : asked[k].at \in 1 .. Len(src)
         /\ \A k \in 1 .. Len(answered) : answered[k].at \in 1 .. Len(dst)
<1>1. /\ src \in Seq(Nodes) /\ dst \in Seq(Nodes)
      /\ asked \in Seq(Messages) /\ answered \in Seq(Messages)
  BY DEF TypeOK
<1>2. /\ Len(asked) \in Nat /\ Len(answered) \in Nat /\ Len(src) \in Nat /\ Len(dst) \in Nat
      /\ Before(src) \in 0 .. Len(src) /\ Before(dst) \in 0 .. Len(dst)
  BY <1>1, LenProperties, BeforeType
<1>3. Begin(Starts(src, "req", Before(src)), asked) /\ Begin(Starts(dst, "rsp", Before(dst)), answered)
  BY DEF Found, requests, responses
<1>4. \A k \in 1 .. Len(asked) : asked[k].at \in 1 .. Before(src)
  BY <1>1, <1>3, Placed
<1>5. \A k \in 1 .. Len(answered) : answered[k].at \in 1 .. Before(dst)
  BY <1>1, <1>3, Placed
<1> QED
  BY <1>2, <1>4, <1>5

\* A packet of the client changes no time of a message that was there.
LEMMA ClientAnswers ==
  ASSUME TypeOK, Found, Answers, capture # "lossy",
         NEW len \in Nat, NEW http \in {"none", "req"}, NEW fin \in BOOLEAN,
         ClientMove(len, http, fin)
  PROVE  Answers'
<1>1. Sent /\ FromClient(len, http, fin) /\ answered' = answered
  BY DEF ClientMove, Captured
<1>2. now' \in Nat
  BY <1>1, Times
<1>3. /\ src' = Append(src, Node(number.src, len, http, fin)) /\ dst' = dst
      /\ Node(number.src, len, http, fin) \in Nodes
  BY <1>1, <1>2, FromClientIs
<1>4. src \in Seq(Nodes) /\ asked \in Seq(Messages) /\ Len(answered) <= Len(asked)
      /\ answered \in Seq(Messages)
  BY DEF TypeOK
<1>5. \A i \in 1 .. Len(src) : src'[i] = src[i]
  BY <1>3, <1>4, Appended
<1>6. \A k \in 1 .. Len(asked) : asked'[k].at = asked[k].at
  BY <1>4, GrewIs DEF ClientMove
<1>7. DOMAIN answered = 1 .. Len(answered)
  BY <1>4, LenProperties
<1>8. ASSUME NEW k \in DOMAIN answered
      PROVE  src'[asked'[k].at].time <= dst'[answered'[k].at].time
  <2>1. k \in 1 .. Len(asked)
    BY <1>4, <1>7, MessagesPlaced
  <2>2. asked'[k].at = asked[k].at /\ src'[asked[k].at] = src[asked[k].at]
    BY <1>5, <1>6, <2>1, MessagesPlaced
  <2>3. src[asked[k].at].time <= dst[answered[k].at].time
    BY DEF Answers
  <2> QED
    BY <1>1, <1>3, <2>2, <2>3
<1> QED
  BY <1>1, <1>8 DEF Answers

\* A response comes after all that the client has sent so far.
LEMMA ServerAnswers ==
  ASSUME TypeOK, Lists, Found, Answers, capture # "lossy",
         NEW len \in Nat, NEW http \in {"none", "rsp"}, NEW fin \in BOOLEAN,
         ServerMove(len, http, fin)
  PROVE  Answers'
<1> DEFINE n == Node(number.dst, len, http, fin)
<1>1. /\ Sent /\ FromServer(len, http, fin) /\ asked' = asked
      /\ http # "none" /\ ~ fin => Len(answered) < Len(asked)
      /\ Grew(answered, answered', dst, len, http, fin)
  BY DEF ServerMove, Captured
<1>2. now \in Nat /\ now' \in Nat /\ now <= now'
  BY <1>1, Times
<1>3. dst' = Append(dst, n) /\ src' = src /\ n \in Nodes /\ number.dst \in 0 .. SeqWord - 1
  BY <1>1, <1>2, FromServerIs
<1>4. n.time = now'
  BY <1>2, <1>3, NodeIs
<1> HIDE DEF n
<1>5. /\ src \in Seq(Nodes) /\ dst \in Seq(Nodes)
      /\ answered \in Seq(Messages) /\ Len(answered) <= Len(asked)
  BY DEF TypeOK
<1>6. (\A i \in 1 .. Len(dst) : dst'[i] = dst[i]) /\ dst'[Len(dst) + 1] = n
  BY <1>3, <1>5, Appended
<1>7. /\ answered' \in Seq(Messages)
      /\ Len(answered') = Len(answered) + (IF http # "none" /\ ~ fin THEN 1 ELSE 0)
      /\ \A k \in 1 .. Len(answered) : answered'[k].at = answered[k].at
  <2>1. Grew(answered, answered', dst, len, http, fin)
    BY <1>1
  <2>2. answered \in Seq(Messages) /\ dst \in Seq(Nodes)
    BY <1>5
  <2>3. answered' \in Seq(Messages)
    BY <2>1, <2>2, GrewIs
  <2>4. Len(answered') = Len(answered) + (IF http # "none" /\ ~ fin THEN 1 ELSE 0)
    BY <2>1, <2>2, GrewIs
  <2>5. \A k \in 1 .. Len(answered) : answered'[k].at = answered[k].at
    BY <2>1, <2>2, GrewIs
  <2> QED
    BY <2>3, <2>4, <2>5
<1>8. DOMAIN answered' = 1 .. Len(answered') /\ DOMAIN answered = 1 .. Len(answered)
  BY <1>5, <1>7, LenProperties
<1>9. /\ Len(answered) \in Nat /\ Len(asked) \in Nat
      /\ \A k \in 1 .. Len(answered) : answered[k].at \in 1 .. Len(dst)
      /\ \A k \in 1 .. Len(asked) : asked[k].at \in 1 .. Len(src)
  BY MessagesPlaced
<1>10. ASSUME NEW k \in DOMAIN answered'
       PROVE  src'[asked'[k].at].time <= dst'[answered'[k].at].time
  <2>1. CASE k \in 1 .. Len(answered)
    <3>1. src[asked[k].at].time <= dst[answered[k].at].time
      BY <1>8, <2>1 DEF Answers
    <3>2. answered'[k].at = answered[k].at /\ dst'[answered[k].at] = dst[answered[k].at]
      BY <1>6, <1>7, <1>9, <2>1
    <3> QED
      BY <1>1, <1>3, <3>1, <3>2
  <2>2. CASE k \notin 1 .. Len(answered)
    <3>1. http # "none" /\ ~ fin /\ k = Len(answered) + 1
      <4>1. k \in 1 .. Len(answered')
        BY <1>8
      <4>2. http # "none" /\ ~ fin
        <5>1. Len(answered') # Len(answered)
          BY <2>2, <4>1
        <5>2. ~ (http # "none" /\ ~ fin) => Len(answered') = Len(answered)
          BY <1>7, <1>9
        <5> QED
          BY <5>1, <5>2
      <4>3. Len(answered') = Len(answered) + 1
        BY <1>7, <4>2
      <4> QED
        BY <1>9, <2>2, <4>1, <4>2, <4>3
    <3>2. Grew(answered, answered', dst, len, http, FALSE)
      BY <1>1, <3>1
    <3>3. answered'[k].at = Len(dst) + 1
      <4>1. /\ Len(answered') = Len(answered) + 1
            /\ answered'[Len(answered')].at = Len(dst) + 1
        BY <1>5, <3>1, <3>2, GrewBegun
      <4> QED
        BY <3>1, <4>1
    <3>4. k \in 1 .. Len(asked)
      BY <1>1, <1>9, <3>1
    <3>5. asked[k].at \in DOMAIN src /\ src[asked[k].at] \in Nodes
      BY <1>5, <1>9, <3>4, LenProperties
    <3>6. src[asked[k].at].time <= now /\ src[asked[k].at].time \in Nat
      BY <3>5 DEF Lists, Listed, Nodes
    <3> QED
      BY <1>1, <1>2, <1>3, <1>4, <1>6, <3>3, <3>6
  <2> QED
    BY <2>1, <2>2
<1> QED
  BY <1>10 DEF Answers

\* Every step of a flow without losses keeps it matched and measured.
LEMMA MatchedNext ==
  TypeOK /\ Lists /\ Found /\ Lengths /\ Answers /\ [Next]_vars => Found' /\ Lengths' /\ Answers'
<1> SUFFICES ASSUME TypeOK, Lists, Found, Lengths, Answers, [Next]_vars
             PROVE  Found' /\ Lengths' /\ Answers'
  OBVIOUS
<1>1. CASE UNCHANGED vars
  BY <1>1 DEF vars, Found, Lengths, Answers, requests, responses
<1>2. ASSUME Next PROVE capture' = capture
  BY <1>2 DEF Next, Request, Response, MissedRequest, MissedResponse, Interim, ClientSegment,
              ServerSegment, ClientFin, ServerFin, RepeatedClient, RepeatedServer, Captured, Sent
<1>3. CASE Next /\ capture = "lossy"
  BY <1>2, <1>3 DEF Found, Lengths, Answers
<1>4. CASE Next /\ capture # "lossy"
  <2>1. \A len \in Sizes : ~ (MissedRequest(len) \/ MissedResponse(len) \/ Interim(len))
    BY <1>4 DEF MissedRequest, MissedResponse, Interim
  <2>2. ASSUME NEW len \in Nat, NEW http \in {"none", "req"}, NEW fin \in BOOLEAN,
               http # "none" => len >= Header, ClientMove(len, http, fin)
        PROVE  Found' /\ Lengths' /\ Answers'
    <3>1. Found' /\ Lengths'
      BY <1>4, <2>2, ClientMatched
    <3>2. Answers'
      BY <1>4, <2>2, ClientAnswers
    <3> QED
      BY <3>1, <3>2
  <2>3. ASSUME NEW len \in Nat, NEW http \in {"none", "rsp"}, NEW fin \in BOOLEAN,
               http # "none" => len >= Header, ServerMove(len, http, fin)
        PROVE  Found' /\ Lengths' /\ Answers'
    <3>1. Found' /\ Lengths'
      BY <1>4, <2>3, ServerMatched
    <3>2. Answers'
      BY <1>4, <2>3, ServerAnswers
    <3> QED
      BY <3>1, <3>2
  <2>4. CASE \/ \E i \in DOMAIN src : RepeatedClient(i)
             \/ \E i \in DOMAIN dst : RepeatedServer(i)
    <3>1. /\ src' = src /\ dst' = dst /\ number' = number /\ closed' = closed
          /\ asked' = asked /\ answered' = answered /\ capture' = capture
      BY <1>2, <1>4, <2>4, RepeatIs
    <3> QED
      BY <3>1 DEF Found, Lengths, Answers, requests, responses
  <2> QED
    BY <1>4, <2>1, <2>2, <2>3, <2>4, Moves
<1> QED
  BY <1>1, <1>3, <1>4
-----------------------------------------------------------------------------
(* With losses. *)

\* Where requests begin after a packet of the client.
LEMMA RequestsNext ==
  ASSUME TypeOK, Lists, Sent, NEW len \in Nat, NEW http \in {"none", "req"}, NEW fin \in BOOLEAN,
         FromClient(len, http, fin)
  PROVE  /\ requests' = IF http = "req" /\ ~ fin THEN Append(requests, Len(src) + 1) ELSE requests
         /\ responses' = responses
<1> DEFINE n == Node(number.src, len, http, fin)
<1>1. now' \in Nat
  BY Times
<1>2. src' = Append(src, n) /\ dst' = dst /\ n \in Nodes /\ number.src \in 0 .. SeqWord - 1
  BY <1>1, FromClientIs
<1>3. n.http = http /\ n.fin = fin
  BY <1>1, <1>2, NodeIs
<1>4. src \in Seq(Nodes) /\ Fins(src) = {}
  BY ListsOpen DEF TypeOK
<1> HIDE DEF n
<1>5. Starts(Append(src, n), "req", Before(Append(src, n))) =
        IF n.http = "req" /\ ~ n.fin THEN Append(Starts(src, "req", Before(src)), Len(src) + 1)
        ELSE Starts(src, "req", Before(src))
  BY <1>2, <1>4, StartsAppended
<1> QED
  BY <1>2, <1>3, <1>5 DEF requests, responses

\* And responses after one of the server.
LEMMA ResponsesNext ==
  ASSUME TypeOK, Lists, Sent, NEW len \in Nat, NEW http \in {"none", "rsp"}, NEW fin \in BOOLEAN,
         FromServer(len, http, fin)
  PROVE  /\ responses' = IF http = "rsp" /\ ~ fin THEN Append(responses, Len(dst) + 1) ELSE responses
         /\ requests' = requests
<1> DEFINE n == Node(number.dst, len, http, fin)
<1>1. now' \in Nat
  BY Times
<1>2. dst' = Append(dst, n) /\ src' = src /\ n \in Nodes /\ number.dst \in 0 .. SeqWord - 1
  BY <1>1, FromServerIs
<1>3. n.http = http /\ n.fin = fin
  BY <1>1, <1>2, NodeIs
<1>4. dst \in Seq(Nodes) /\ Fins(dst) = {}
  BY ListsOpen DEF TypeOK
<1> HIDE DEF n
<1>5. Starts(Append(dst, n), "rsp", Before(Append(dst, n))) =
        IF n.http = "rsp" /\ ~ n.fin THEN Append(Starts(dst, "rsp", Before(dst)), Len(dst) + 1)
        ELSE Starts(dst, "rsp", Before(dst))
  BY <1>2, <1>4, StartsAppended
<1> QED
  BY <1>2, <1>3, <1>5 DEF requests, responses

\* Where messages begin, and the history, are sequences.
LEMMA LossTypes ==
  ASSUME TypeOK
  PROVE  /\ requests \in Seq(Nat) /\ responses \in Seq(Nat)
         /\ Len(requests) \in Nat /\ Len(responses) \in Nat
         /\ asked \in Seq(Messages) /\ answered \in Seq(Messages)
         /\ Len(asked) \in Nat /\ Len(answered) \in Nat
         /\ src \in Seq(Nodes) /\ dst \in Seq(Nodes)
         /\ Len(src) + 1 \in Nat /\ Len(dst) + 1 \in Nat
         /\ intact \in Nat /\ intact <= intact /\ ahead \in BOOLEAN
         /\ SameStarts(asked, asked) /\ SameStarts(answered, answered)
<1>1. /\ src \in Seq(Nodes) /\ dst \in Seq(Nodes)
      /\ asked \in Seq(Messages) /\ answered \in Seq(Messages)
      /\ intact \in Nat /\ ahead \in BOOLEAN
  BY DEF TypeOK
<1>2. /\ Len(asked) \in Nat /\ Len(answered) \in Nat
      /\ Len(src) \in Nat /\ Len(dst) \in Nat /\ Before(src) \in Nat /\ Before(dst) \in Nat
  BY <1>1, LenProperties, BeforeType
<1>3. requests \in Seq(Nat) /\ responses \in Seq(Nat)
  BY <1>2, StartsEnumerate DEF requests, responses
<1>4. Len(requests) \in Nat /\ Len(responses) \in Nat
  BY <1>3, LenProperties
<1>5. SameStarts(asked, asked) /\ SameStarts(answered, answered)
  BY <1>1 DEF SameStarts
<1> QED
  BY <1>1, <1>2, <1>3, <1>4, <1>5

\* Packets that are captured keep the lists and the history in agreement.
LEMMA ClientLosses ==
  ASSUME TypeOK, Lists, Losses, capture = "lossy",
         NEW len \in Nat, NEW http \in {"none", "req"}, NEW fin \in BOOLEAN,
         ClientMove(len, http, fin)
  PROVE  Losses'
<1>1. /\ Sent /\ FromClient(len, http, fin) /\ answered' = answered
      /\ intact' = intact /\ ahead' = ahead
      /\ Grew(asked, asked', src, len, http, fin)
  BY DEF ClientMove, Captured, losses
<1>2. /\ requests' = IF http = "req" /\ ~ fin THEN Append(requests, Len(src) + 1) ELSE requests
      /\ responses' = responses
  BY <1>1, RequestsNext
<1>3. /\ Agree(requests, asked, intact) /\ Agree(responses, answered, intact)
      /\ ~ ahead => Shifted(responses, answered)
  BY DEF Losses
<1>4. Agree(requests', asked', intact)
  <2>1. CASE http = "req" /\ ~ fin
    <3>1. requests' = Append(requests, Len(src) + 1)
      BY <1>2, <2>1
    <3>2. asked' = Append(asked, [at |-> Len(src) + 1, bytes |-> len])
      BY <1>1, <2>1 DEF Grew, Began
    <3> QED
      BY <1>3, <3>1, <3>2, LossTypes, AgreeBegun
  <2>2. CASE ~ (http = "req" /\ ~ fin)
    <3>1. requests' = requests
      BY <1>2, <2>2
    <3>2. /\ asked' \in Seq(Messages)
          /\ Len(asked') = Len(asked) + (IF http # "none" /\ ~ fin THEN 1 ELSE 0)
          /\ \A k \in 1 .. Len(asked) : asked'[k].at = asked[k].at
      BY <1>1, LossTypes, GrewIs
    <3>3. Len(asked') = Len(asked)
      BY <2>2, <3>2, LossTypes
    <3>4. SameStarts(asked, asked')
      BY <3>2, <3>3 DEF SameStarts
    <3> QED
      BY <1>3, <3>1, <3>4, LossTypes, AgreeKept
  <2> QED
    BY <2>1, <2>2
<1> QED
  BY <1>1, <1>2, <1>3, <1>4 DEF Losses

\* The same for the server, whose responses do not move up.
LEMMA ServerLosses ==
  ASSUME TypeOK, Lists, Losses, capture = "lossy",
         NEW len \in Nat, NEW http \in {"none", "rsp"}, NEW fin \in BOOLEAN,
         ServerMove(len, http, fin)
  PROVE  Losses'
<1>1. /\ Sent /\ FromServer(len, http, fin) /\ asked' = asked
      /\ intact' = intact /\ ahead' = ahead
      /\ Grew(answered, answered', dst, len, http, fin)
  BY DEF ServerMove, Captured, losses
<1>2. /\ responses' = IF http = "rsp" /\ ~ fin THEN Append(responses, Len(dst) + 1) ELSE responses
      /\ requests' = requests
  BY <1>1, ResponsesNext
<1>3. /\ Agree(requests, asked, intact) /\ Agree(responses, answered, intact)
      /\ ~ ahead => Shifted(responses, answered)
  BY DEF Losses
<1>4. Agree(responses', answered', intact) /\ (~ ahead => Shifted(responses', answered'))
  <2>1. CASE http = "rsp" /\ ~ fin
    <3>1. responses' = Append(responses, Len(dst) + 1)
      BY <1>2, <2>1
    <3>2. answered' = Append(answered, [at |-> Len(dst) + 1, bytes |-> len])
      BY <1>1, <2>1 DEF Grew, Began
    <3>3. Agree(responses', answered', intact)
      BY <1>3, <3>1, <3>2, LossTypes, AgreeBegun
    <3>4. ~ ahead => Shifted(responses', answered')
      BY <1>3, <3>1, <3>2, LossTypes, ShiftedBegun
    <3> QED
      BY <3>3, <3>4
  <2>2. CASE ~ (http = "rsp" /\ ~ fin)
    <3>1. responses' = responses
      BY <1>2, <2>2
    <3>2. /\ answered' \in Seq(Messages)
          /\ Len(answered') = Len(answered) + (IF http # "none" /\ ~ fin THEN 1 ELSE 0)
          /\ \A k \in 1 .. Len(answered) : answered'[k].at = answered[k].at
      BY <1>1, LossTypes, GrewIs
    <3>3. Len(answered') = Len(answered)
      BY <2>2, <3>2, LossTypes
    <3>4. SameStarts(answered, answered')
      BY <3>2, <3>3 DEF SameStarts
    <3>5. Agree(responses', answered', intact)
      BY <1>3, <3>1, <3>4, LossTypes, AgreeKept
    <3>6. ~ ahead => Shifted(responses', answered')
      <4>1. Len(answered') \in Nat /\ Len(answered) <= Len(answered')
        BY <3>3, LossTypes
      <4>2. \A k \in 1 .. Len(answered) : answered'[k].at = answered[k].at
        BY <3>2
      <4> QED
        BY <1>3, <3>1, <4>1, <4>2, LossTypes, ShiftedKept
    <3> QED
      BY <3>5, <3>6
  <2> QED
    BY <2>1, <2>2
<1> QED
  BY <1>1, <1>2, <1>3, <1>4 DEF Losses

\* Every step of a flow with losses keeps the agreement up to the first loss.
LEMMA LossesNext == TypeOK /\ Lists /\ Losses /\ [Next]_vars => Losses'
<1> SUFFICES ASSUME TypeOK, Lists, Losses, [Next]_vars PROVE Losses'
  OBVIOUS
<1>1. CASE UNCHANGED vars
  BY <1>1 DEF vars, losses, Losses, requests, responses
<1>2. ASSUME Next PROVE capture' = capture
  BY <1>2 DEF Next, Request, Response, MissedRequest, MissedResponse, Interim, ClientSegment,
              ServerSegment, ClientFin, ServerFin, RepeatedClient, RepeatedServer, Captured, Sent
<1>3. CASE Next /\ capture # "lossy"
  BY <1>2, <1>3 DEF Losses
<1>4. CASE Next /\ capture = "lossy"
  <2>1. /\ Agree(requests, asked, intact) /\ Agree(responses, answered, intact)
        /\ ~ ahead => Shifted(responses, answered)
    BY <1>4 DEF Losses
  <2>2. ASSUME NEW len \in Nat, NEW http \in {"none", "req"}, NEW fin \in BOOLEAN,
               ClientMove(len, http, fin)
        PROVE  Losses'
    BY <1>4, <2>2, ClientLosses
  <2>3. ASSUME NEW len \in Nat, NEW http \in {"none", "rsp"}, NEW fin \in BOOLEAN,
               ServerMove(len, http, fin)
        PROVE  Losses'
    BY <1>4, <2>3, ServerLosses
  <2>4. ASSUME NEW len \in Sizes, MissedRequest(len) PROVE Losses'
    <3>1. /\ len \in Nat /\ Sent
          /\ FromClient(len, "none", FALSE) \/ (src' = src /\ dst' = dst)
          /\ \E at \in Nat : asked' = Append(asked, [at |-> at, bytes |-> len])
          /\ intact' \in Nat /\ intact' <= intact /\ intact' <= Len(asked)
          /\ ahead' = TRUE /\ answered' = answered
      BY <2>4, MissedRequestIs
    <3>2. requests' = requests /\ responses' = responses
      <4>1. CASE FromClient(len, "none", FALSE)
        <5>1. ("none" = "req" /\ ~ FALSE) = FALSE
          OBVIOUS
        <5> QED
          BY <3>1, <4>1, <5>1, RequestsNext
      <4>2. CASE src' = src /\ dst' = dst
        BY <4>2 DEF requests, responses
      <4> QED
        BY <3>1, <4>1, <4>2
    <3>3. Agree(requests, asked', intact')
      BY <2>1, <3>1, LossTypes, AgreeMissed
    <3>4. Agree(responses, answered, intact')
      BY <2>1, <3>1, LossTypes, AgreeKept
    <3> QED
      BY <3>1, <3>2, <3>3, <3>4 DEF Losses
  <2>5. ASSUME NEW len \in Sizes, MissedResponse(len) PROVE Losses'
    <3>1. /\ len \in Nat /\ Sent
          /\ FromServer(len, "none", FALSE) \/ (src' = src /\ dst' = dst)
          /\ \E at \in Nat : answered' = Append(answered, [at |-> at, bytes |-> len])
          /\ intact' \in Nat /\ intact' <= intact /\ intact' <= Len(answered)
          /\ ahead' = ahead /\ asked' = asked
      BY <2>5, MissedResponseIs
    <3>2. requests' = requests /\ responses' = responses
      <4>1. CASE FromServer(len, "none", FALSE)
        <5>1. ("none" = "rsp" /\ ~ FALSE) = FALSE
          OBVIOUS
        <5> QED
          BY <3>1, <4>1, <5>1, ResponsesNext
      <4>2. CASE src' = src /\ dst' = dst
        BY <4>2 DEF requests, responses
      <4> QED
        BY <3>1, <4>1, <4>2
    <3>3. Agree(responses, answered', intact')
      BY <2>1, <3>1, LossTypes, AgreeMissed
    <3>4. Agree(requests, asked, intact')
      BY <2>1, <3>1, LossTypes, AgreeKept
    <3>5. ~ ahead => Shifted(responses, answered')
      <4>1. PICK at \in Nat : answered' = Append(answered, [at |-> at, bytes |-> len])
        BY <3>1
      <4>2. /\ answered' \in Seq(Messages) /\ Len(answered') = Len(answered) + 1
            /\ \A k \in 1 .. Len(answered) : answered'[k] = answered[k]
        BY <3>1, <4>1, LossTypes, BeganIs
      <4>3. Len(answered') \in Nat /\ Len(answered) <= Len(answered')
        BY <4>2, LossTypes
      <4>4. \A k \in 1 .. Len(answered) : answered'[k].at = answered[k].at
        BY <4>2
      <4> QED
        BY <2>1, <4>3, <4>4, LossTypes, ShiftedKept
    <3> QED
      BY <3>1, <3>2, <3>3, <3>4, <3>5 DEF Losses
  <2>6. ASSUME NEW len \in Sizes, Interim(len) PROVE Losses'
    <3>1. /\ len \in Nat /\ Sent /\ FromServer(len, "rsp", FALSE)
          /\ intact' \in Nat /\ intact' <= intact /\ intact' <= Len(answered)
          /\ ahead' = TRUE /\ asked' = asked /\ answered' = answered
      BY <2>6, InterimIs
    <3>2. responses' = Append(responses, Len(dst) + 1) /\ requests' = requests
      BY <3>1, ResponsesNext
    <3>3. Agree(responses', answered, intact')
      BY <2>1, <3>1, <3>2, LossTypes, AgreeExtra
    <3>4. Agree(requests, asked, intact')
      BY <2>1, <3>1, LossTypes, AgreeKept
    <3> QED
      BY <3>1, <3>2, <3>3, <3>4 DEF Losses
  <2>7. CASE \/ \E i \in DOMAIN src : RepeatedClient(i)
             \/ \E i \in DOMAIN dst : RepeatedServer(i)
    <3>1. /\ src' = src /\ dst' = dst /\ asked' = asked /\ answered' = answered
          /\ intact' = intact /\ ahead' = ahead /\ capture' = capture
      BY <1>2, <1>4, <2>7, RepeatIs
    <3> QED
      BY <3>1 DEF Losses, requests, responses
  <2> QED
    BY <1>4, <2>2, <2>3, <2>4, <2>5, <2>6, <2>7, Moves
<1> QED
  BY <1>1, <1>3, <1>4

-----------------------------------------------------------------------------
(* The order of the two sides. *)

\* What Ordered says of one side.
SideOrdered(messages, list, num, o, b, ag, over) ==
  Within(messages, b) /\ Along(list, num, b, over) /\ Kept(list, o, b, ag)

\* Ordered side by side.
LEMMA OrderedIs ==
  Ordered <=> /\ SideOrdered(asked, src, number.src, order.src, sent.src, again.src, closed)
              /\ SideOrdered(answered, dst, number.dst, order.dst, sent.dst, again.dst, closed)
BY DEF Ordered, SideOrdered

\* A message has no more bytes than a greater number.
LEMMA WithinMore ==
  ASSUME NEW messages \in Seq(Messages), NEW b \in Nat, NEW c \in Nat, b <= c, Within(messages, b)
  PROVE  Within(messages, c)
<1> SUFFICES ASSUME NEW k \in DOMAIN messages PROVE messages[k].bytes <= c
  BY DEF Within
<1>1. messages[k] \in Messages
  BY LenProperties
<1>2. messages[k].bytes \in Nat /\ messages[k].bytes <= b
  BY <1>1 DEF Within, Messages
<1> QED
  BY <1>2

\* Nor has one begun, when its side has used its numbers.
LEMMA WithinBegun ==
  ASSUME NEW messages \in Seq(Messages), NEW b \in Nat, NEW at \in Nat, NEW len \in Nat,
         Within(messages, b)
  PROVE  Within(Append(messages, [at |-> at, bytes |-> len]), b + len)
<1> DEFINE m   == [at |-> at, bytes |-> len]
           new == Append(messages, m)
<1>1. /\ new \in Seq(Messages) /\ Len(messages) \in Nat
      /\ Len(new) = Len(messages) + 1
      /\ \A k \in 1 .. Len(messages) : new[k] = messages[k]
      /\ new[Len(messages) + 1] = m
  BY BeganIs
<1>2. Within(messages, b + len)
  BY WithinMore
<1>3. m.bytes <= b + len
  OBVIOUS
<1>4. DOMAIN messages = 1 .. Len(messages) /\ DOMAIN new = 1 .. Len(messages) + 1
  BY <1>1, LenProperties
<1> HIDE DEF new, m
<1>5. ASSUME NEW k \in 1 .. Len(messages) + 1 PROVE new[k].bytes <= b + len
  <2>1. CASE k \in 1 .. Len(messages)
    BY <1>1, <1>2, <1>4, <2>1 DEF Within
  <2>2. CASE k = Len(messages) + 1
    BY <1>1, <1>3, <2>2
  <2> QED
    BY <1>1, <2>1, <2>2
<1> QED
  BY <1>4, <1>5 DEF Within, new, m

\* Nor one that a packet has lengthened.
LEMMA GrewWithin ==
  ASSUME NEW messages \in Seq(Messages), NEW new, NEW list \in Seq(Nodes), NEW len \in Nat,
         NEW http, NEW fin \in BOOLEAN, Grew(messages, new, list, len, http, fin),
         NEW b \in Nat, Within(messages, b)
  PROVE  Within(new, b + Used(len, fin))
<1>1. CASE fin \/ new = messages
  <2>1. new = messages
    BY <1>1 DEF Grew
  <2>2. b + Used(len, fin) \in Nat /\ b <= b + Used(len, fin)
    BY DEF Used
  <2> QED
    BY <2>1, <2>2, WithinMore
<1>2. CASE ~ fin /\ new = Began(messages, list, len)
  <2>1. Len(list) + 1 \in Nat
    BY LenProperties
  <2>2. Within(new, b + len)
    BY <1>2, <2>1, WithinBegun DEF Began
  <2> QED
    BY <1>2, <2>2 DEF Used
<1>3. CASE ~ fin /\ messages # <<>> /\ new = Longer(messages, len)
  <2> DEFINE last == Len(messages)
  <2>1. /\ last \in Nat \ {0} /\ SameStarts(messages, new)
        /\ \A k \in 1 .. last - 1 : new[k] = messages[k]
        /\ new[last].bytes = messages[last].bytes + len
    BY <1>3, LongerIs
  <2>2. DOMAIN messages = 1 .. last /\ DOMAIN new = 1 .. last
    BY <2>1, LenProperties DEF SameStarts
  <2>3. \A k \in 1 .. last : messages[k].bytes \in Nat /\ messages[k].bytes <= b
    <3> SUFFICES ASSUME NEW k \in 1 .. last
                 PROVE  messages[k].bytes \in Nat /\ messages[k].bytes <= b
      OBVIOUS
    <3>1. messages[k] \in Messages
      BY <2>2, LenProperties
    <3> QED
      BY <2>2, <3>1 DEF Within, Messages
  <2> HIDE DEF last
  <2>4. ASSUME NEW k \in 1 .. last PROVE new[k].bytes <= b + len
    <3>1. CASE k = last
      BY <2>1, <2>3, <3>1
    <3>2. CASE k \in 1 .. last - 1
      BY <2>1, <2>3, <3>2
    <3> QED
      BY <2>1, <3>1, <3>2
  <2>5. Within(new, b + len)
    BY <2>2, <2>4 DEF Within
  <2> QED
    BY <1>3, <2>5 DEF Used
<1> QED
  BY <1>1, <1>2, <1>3 DEF Grew

\* A side that goes on gets a packet.
LEMMA SideFollows ==
  ASSUME NEW messages, NEW list \in Seq(Nodes), NEW num, NEW b \in Nat \ {0}, NEW n \in Nodes,
         NEW x, NEW y, Follows(n, num, x, y), NEW o, DOMAIN o = DOMAIN NewOrder, NEW ag,
         SideOrdered(messages, list, num, o, b, ag, FALSE),
         NEW new, Within(new, b + y), NEW to, NEW over, ~ over => to = (num + y) % SeqWord
  PROVE  SideOrdered(new, Append(list, n), to, tcp_order(o, n), b + y, ag, over)
<1>1. Along(list, num, b, FALSE) /\ Kept(list, o, b, ag)
  BY DEF SideOrdered
<1>2. Along(Append(list, n), to, b + y, over)
  BY Zenon, <1>1, AlongStep
<1>3. Kept(Append(list, n), tcp_order(o, n), b + y, ag)
  BY Zenon, <1>1, KeptStep
<1> QED
  BY <1>2, <1>3 DEF SideOrdered

\* A plain side was plain before it used more numbers.
LEMMA KeptMore ==
  ASSUME NEW list \in Seq(Nodes), list # <<>>, NEW o, NEW b \in Nat, NEW y \in Nat, NEW ag,
         Kept(list, o, b, ag)
  PROVE  Kept(list, o, b + y, ag)
<1>1. 1 \in 1 .. Len(list)
  BY EmptyIs
<1>2. list[1] \in Nodes
  BY <1>1, ElementOfSeq
<1>3. list[1].seq \in 0 .. SeqWord - 1
  BY <1>2 DEF Nodes
<1>4. Below(list, b + y) => Below(list, b)
  BY <1>3, WordAssumption DEF Below
<1>5. b + y < SeqWord => b < SeqWord
  BY WordAssumption
<1>6. Plain(list, b + y, ag) => Plain(list, b, ag)
  BY <1>4, <1>5 DEF Plain
<1> QED
  BY <1>6 DEF Kept

\* A packet of a side is missed.
LEMMA SideMissed ==
  ASSUME NEW messages, NEW list \in Seq(Nodes), NEW num, NEW b \in Nat \ {0}, NEW y \in Nat,
         NEW o, NEW ag, SideOrdered(messages, list, num, o, b, ag, FALSE),
         NEW new, Within(new, b + y)
  PROVE  SideOrdered(new, list, (num + y) % SeqWord, o, b + y, ag, FALSE)
<1>1. Along(list, num, b, FALSE) /\ Kept(list, o, b, ag)
  BY DEF SideOrdered
<1>2. Along(list, (num + y) % SeqWord, b + y, FALSE)
  BY Zenon, <1>1, AlongMissed
<1>3. list # <<>>
  BY <1>1 DEF Along
<1>4. Kept(list, o, b + y, ag)
  BY <1>1, <1>3, KeptMore
<1> QED
  BY <1>2, <1>4 DEF SideOrdered

\* A side waits while the other goes on, or ends.
LEMMA SideWaits ==
  ASSUME NEW messages, NEW list, NEW num, NEW b, NEW o, NEW ag, NEW over,
         SideOrdered(messages, list, num, o, b, ag, FALSE)
  PROVE  SideOrdered(messages, list, num, o, b, ag, over)
BY DEF SideOrdered, Along

\* A packet of a side is captured again.
LEMMA SideRepeats ==
  ASSUME NEW messages, NEW list \in Seq(Nodes), NEW num, NEW b \in Nat \ {0},
         NEW i \in 1 .. Len(list), list[i].dl > 0,
         NEW n, n.seq = list[i].seq, n.nxt = list[i].nxt,
         NEW o, NEW ag, NEW over, SideOrdered(messages, list, num, o, b, ag, over),
         NEW out, out = (ag \/ ~ (Contiguous(list) /\ Below(list, b)))
  PROVE  SideOrdered(messages, list, num, tcp_order(o, n), b, out, over)
<1>1. Along(list, num, b, over) /\ Kept(list, o, b, ag)
  BY DEF SideOrdered
<1>2. Kept(list, tcp_order(o, n), b, out)
  BY <1>1, KeptRepeat
<1> QED
  BY <1>1, <1>2 DEF SideOrdered

\* A SYN begins a side.
LEMMA SideSyn ==
  ASSUME NEW isn \in 0 .. SeqWord - 1
  PROVE  SideOrdered(<<>>, <<Syn(isn)>>, (isn + 1) % SeqWord, tcp_order(NewOrder, Syn(isn)), 1,
                     FALSE, FALSE)
<1> DEFINE s    == Syn(isn)
           list == <<s>>
<1>1. s \in Nodes /\ s.seq = isn /\ s.nxt = (isn + 1) % SeqWord /\ s.dl = 0
  BY Handshake
<1> HIDE DEF s
<1>2. list \in Seq(Nodes) /\ Len(list) = 1 /\ list[1] = s /\ DOMAIN list = 1 .. 1
  BY <1>1
<1>3. 1 .. 1 = {1}
  OBVIOUS
<1>4. isn + 1 < SeqWord => (isn + 1) % SeqWord = isn + 1
  <2>1. isn + 1 < SeqWord => isn + 1 \in 0 .. SeqWord - 1 /\ isn + 1 \in Int
    BY WordAssumption
  <2> QED
    BY <2>1, Cut
<1>5. Along(list, (isn + 1) % SeqWord, 1, FALSE)
  <2>1. list # <<>>
    BY <1>2
  <2>2. AlongAll(list, list[1].seq, 1)
    BY <1>1, <1>2, <1>3 DEF AlongAll
  <2>3. isn + 1 < SeqWord => AlongUp(list)
    <3>1. isn + 1 < SeqWord => s.seq <= s.nxt
      BY <1>1, <1>4
    <3>2. ~ (s.dl > 0)
      BY <1>1
    <3> QED
      BY <1>2, <1>3, <3>1, <3>2 DEF AlongUp
  <2> HIDE DEF list
  <2> QED
    BY <1>1, <1>2, <2>1, <2>2, <2>3, AlongIs
<1>6. Kept(list, tcp_order(NewOrder, s), 1, FALSE)
  <2>1. NewOrder.list = <<>>
    BY DEF NewOrder
  <2>2. tcp_order(NewOrder, s) = [list |-> <<s>>, last |-> 1, num |-> NewOrder.num + 1]
    BY Zenon, <2>1 DEF tcp_order
  <2>3. tcp_order(NewOrder, s).list = list /\ tcp_order(NewOrder, s).last = 1
    BY <2>2
  <2>4. 1 < SeqWord => ~ (s.seq = 0 /\ s.nxt = 0)
    <3>1. 0 + 1 = 1
      OBVIOUS
    <3> QED
      BY <1>1, <1>4, <3>1
  <2>5. 1 \in DOMAIN list
    BY <1>2
  <2> HIDE DEF list
  <2> QED
    BY <1>2, <2>3, <2>4, <2>5 DEF Kept, Plain
<1>7. Within(<<>>, 1)
  BY DEF Within
<1> QED
  BY <1>5, <1>6, <1>7 DEF SideOrdered, s

\* The sides are in order at the start.
LEMMA OrderedInit == Init => Ordered
<1> SUFFICES ASSUME Init PROVE Ordered
  OBVIOUS
<1>1. PICK isn \in 0 .. SeqWord - 1 :
        /\ src = <<Syn(isn), Ack(isn)>> /\ dst = <<Syn(isn)>>
        /\ order = [src |-> tcp_order(tcp_order(NewOrder, Syn(isn)), Ack(isn)),
                    dst |-> tcp_order(NewOrder, Syn(isn))]
        /\ number = [src |-> (isn + 1) % SeqWord, dst |-> (isn + 1) % SeqWord]
  BY InitIs
<1> DEFINE q == (isn + 1) % SeqWord
           o == tcp_order(NewOrder, Syn(isn))
           p == tcp_order(o, Ack(isn))
<1>2. SideOrdered(<<>>, <<Syn(isn)>>, q, o, 1, FALSE, FALSE)
  BY Zenon, SideSyn
<1>3. DOMAIN o = DOMAIN NewOrder
  BY Zenon, OrderFields
<1>4. q \in 0 .. SeqWord - 1
  <2>1. isn + 1 \in Int
    BY WordAssumption
  <2> QED
    BY <2>1, Cut
<1>5. Syn(isn) \in Nodes /\ Ack(isn) \in Nodes /\ Ack(isn).seq = q /\ Ack(isn).nxt = q /\ Ack(isn).dl = 0
  BY Handshake
<1>6. number.src = q /\ number.dst = q /\ order.src = p /\ order.dst = o
  BY <1>1
<1> HIDE DEF q, o
<1>7. Follows(Ack(isn), q, 0, 0)
  <2>1. q + 0 = q /\ q % SeqWord = q
    BY <1>4, Cut
  <2> QED
    BY <1>5, <2>1 DEF Follows
<1>8. SideOrdered(<<>>, Append(<<Syn(isn)>>, Ack(isn)), q, p, 1 + 0, FALSE, FALSE)
  <2>1. <<Syn(isn)>> \in Seq(Nodes) /\ 1 \in Nat \ {0}
    BY <1>5
  <2>2. (q + 0) % SeqWord = q
    BY <1>4, Cut
  <2>3. Within(<<>>, 1 + 0)
    BY DEF Within
  <2> QED
    BY Zenon, <1>2, <1>3, <1>5, <1>7, <2>1, <2>2, <2>3, SideFollows
<1>9. Append(<<Syn(isn)>>, Ack(isn)) = src /\ 1 + 0 = 1
  <2>1. ASSUME NEW x \in Nodes, NEW y \in Nodes PROVE Append(<<x>>, y) = <<x, y>>
    <3>1. <<x>> \in Seq(Nodes) /\ Len(<<x>>) = 1 /\ <<x>>[1] = x
      OBVIOUS
    <3>2. <<x, y>> \in Seq(Nodes) /\ Len(<<x, y>>) = 2 /\ <<x, y>>[1] = x /\ <<x, y>>[2] = y
      OBVIOUS
    <3> DEFINE a == Append(<<x>>, y)
               c == <<x, y>>
    <3>3. a \in Seq(Nodes) /\ Len(a) = 2 /\ a[1] = x /\ a[2] = y
      BY <3>1, Appended
    <3>4. \A i \in 1 .. 2 : i = 1 \/ i = 2
      OBVIOUS
    <3>5. c \in Seq(Nodes) /\ Len(c) = 2 /\ c[1] = x /\ c[2] = y
      BY <3>2
    <3> HIDE DEF a, c
    <3>6. \A i \in 1 .. Len(a) : a[i] = c[i]
      BY <3>3, <3>4, <3>5
    <3>7. a = c
      BY <3>3, <3>5, <3>6, SeqEqual
    <3> QED
      BY <3>7 DEF a, c
  <2> QED
    BY <1>1, <1>5, <2>1
<1>10. /\ sent.src = 1 /\ sent.dst = 1 /\ again.src = FALSE /\ again.dst = FALSE
       /\ asked = <<>> /\ answered = <<>> /\ closed = FALSE
  BY DEF Init
<1> HIDE DEF p
<1> QED
  BY <1>1, <1>2, <1>6, <1>8, <1>9, <1>10, OrderedIs

\* A packet of the client keeps the sides in order.
LEMMA OrderedClient ==
  ASSUME TypeOK, Ordered, Sent, NEW len \in Nat, NEW http \in {"none", "req"}, NEW fin \in BOOLEAN,
         http # "none" => len >= Header,
         FromClient(len, http, fin), closed' = fin, answered' = answered,
         Within(asked', sent.src + Used(len, fin))
  PROVE  Ordered'
<1> DEFINE n == Node(number.src, len, http, fin)
           y == Used(len, fin)
<1>1. now' \in Nat /\ closed = FALSE
  BY Times DEF TypeOK, Sent
<1>2. /\ src' = Append(src, n) /\ dst' = dst /\ n \in Nodes /\ number.src \in 0 .. SeqWord - 1
      /\ number'.src = (number.src + len) % SeqWord /\ number'.dst = number.dst
      /\ order'.src = tcp_order(order.src, n) /\ order'.dst = order.dst
      /\ sent'.src = sent.src + y /\ sent'.dst = sent.dst /\ again' = again
  BY <1>1, FromClientIs
<1>3. PICK x \in Nat : Follows(n, number.src, x, y)
  BY <1>2, NodeFollows
<1>4. ~ fin => number'.src = (number.src + y) % SeqWord
  <2>1. ~ fin => y = len
    BY DEF Used
  <2> QED
    BY <1>2, <2>1
<1>5. /\ src \in Seq(Nodes) /\ sent.src \in Nat \ {0} /\ DOMAIN order.src = DOMAIN NewOrder
  BY DEF TypeOK
<1>6. /\ SideOrdered(asked, src, number.src, order.src, sent.src, again.src, FALSE)
      /\ SideOrdered(answered, dst, number.dst, order.dst, sent.dst, again.dst, FALSE)
  BY <1>1, OrderedIs
<1> HIDE DEF n, y
<1>7. SideOrdered(asked', Append(src, n), number'.src, tcp_order(order.src, n), sent.src + y,
                  again.src, fin)
  <2>1. Within(asked', sent.src + y)
    BY DEF y
  <2> QED
    BY Zenon, <1>2, <1>3, <1>4, <1>5, <1>6, <2>1, SideFollows
<1>8. SideOrdered(answered, dst, number.dst, order.dst, sent.dst, again.dst, fin)
  BY Zenon, <1>6, SideWaits
<1>9. /\ SideOrdered(asked', src', number'.src, order'.src, sent'.src, again'.src, closed')
      /\ SideOrdered(answered', dst', number'.dst, order'.dst, sent'.dst, again'.dst, closed')
  BY <1>2, <1>7, <1>8
<1> QED
  BY <1>9 DEF Ordered, SideOrdered

\* A packet of the server does.
LEMMA OrderedServer ==
  ASSUME TypeOK, Ordered, Sent, NEW len \in Nat, NEW http \in {"none", "rsp"}, NEW fin \in BOOLEAN,
         http # "none" => len >= Header,
         FromServer(len, http, fin), closed' = fin, asked' = asked,
         Within(answered', sent.dst + Used(len, fin))
  PROVE  Ordered'
<1> DEFINE n == Node(number.dst, len, http, fin)
           y == Used(len, fin)
<1>1. now' \in Nat /\ closed = FALSE
  BY Times DEF TypeOK, Sent
<1>2. /\ dst' = Append(dst, n) /\ src' = src /\ n \in Nodes /\ number.dst \in 0 .. SeqWord - 1
      /\ number'.dst = (number.dst + len) % SeqWord /\ number'.src = number.src
      /\ order'.dst = tcp_order(order.dst, n) /\ order'.src = order.src
      /\ sent'.dst = sent.dst + y /\ sent'.src = sent.src /\ again' = again
  BY <1>1, FromServerIs
<1>3. PICK x \in Nat : Follows(n, number.dst, x, y)
  BY <1>2, NodeFollows
<1>4. ~ fin => number'.dst = (number.dst + y) % SeqWord
  <2>1. ~ fin => y = len
    BY DEF Used
  <2> QED
    BY <1>2, <2>1
<1>5. /\ dst \in Seq(Nodes) /\ sent.dst \in Nat \ {0} /\ DOMAIN order.dst = DOMAIN NewOrder
  BY DEF TypeOK
<1>6. /\ SideOrdered(asked, src, number.src, order.src, sent.src, again.src, FALSE)
      /\ SideOrdered(answered, dst, number.dst, order.dst, sent.dst, again.dst, FALSE)
  BY <1>1, OrderedIs
<1> HIDE DEF n, y
<1>7. SideOrdered(answered', Append(dst, n), number'.dst, tcp_order(order.dst, n), sent.dst + y,
                  again.dst, fin)
  <2>1. Within(answered', sent.dst + y)
    BY DEF y
  <2> QED
    BY Zenon, <1>2, <1>3, <1>4, <1>5, <1>6, <2>1, SideFollows
<1>8. SideOrdered(asked, src, number.src, order.src, sent.src, again.src, fin)
  BY Zenon, <1>6, SideWaits
<1>9. /\ SideOrdered(asked', src', number'.src, order'.src, sent'.src, again'.src, closed')
      /\ SideOrdered(answered', dst', number'.dst, order'.dst, sent'.dst, again'.dst, closed')
  BY <1>2, <1>7, <1>8
<1> QED
  BY <1>9 DEF Ordered, SideOrdered

\* So does every step.
LEMMA OrderedNext == TypeOK /\ Ordered /\ [Next]_vars => Ordered'
<1> SUFFICES ASSUME TypeOK, Ordered, [Next]_vars PROVE Ordered'
  OBVIOUS
<1>0. /\ Within(asked, sent.src) /\ Within(answered, sent.dst)
      /\ asked \in Seq(Messages) /\ answered \in Seq(Messages)
      /\ src \in Seq(Nodes) /\ dst \in Seq(Nodes)
      /\ sent.src \in Nat \ {0} /\ sent.dst \in Nat \ {0}
      /\ sent \in [src : Nat \ {0}, dst : Nat \ {0}] /\ again \in [src : BOOLEAN, dst : BOOLEAN]
      /\ DOMAIN order = {"src", "dst"}
      /\ \A side \in DOMAIN order : DOMAIN order[side] = DOMAIN NewOrder
      /\ number \in [src : 0 .. SeqWord - 1, dst : 0 .. SeqWord - 1]
  BY DEF TypeOK, Ordered
<1>1. CASE UNCHANGED vars
  BY <1>1 DEF vars, Ordered
<1>2. ASSUME NEW len \in Nat, NEW http \in {"none", "req"}, NEW fin \in BOOLEAN,
             http # "none" => len >= Header, ClientMove(len, http, fin)
      PROVE  Ordered'
  <2>1. /\ Sent /\ FromClient(len, http, fin) /\ closed' = fin /\ answered' = answered
        /\ Grew(asked, asked', src, len, http, fin)
    BY <1>2 DEF ClientMove, Captured
  <2>2. Within(asked', sent.src + Used(len, fin))
    BY <1>0, <2>1, GrewWithin
  <2> QED
    BY <1>2, <2>1, <2>2, OrderedClient
<1>3. ASSUME NEW len \in Nat, NEW http \in {"none", "rsp"}, NEW fin \in BOOLEAN,
             http # "none" => len >= Header, ServerMove(len, http, fin)
      PROVE  Ordered'
  <2>1. /\ Sent /\ FromServer(len, http, fin) /\ closed' = fin /\ asked' = asked
        /\ Grew(answered, answered', dst, len, http, fin)
    BY <1>3 DEF ServerMove, Captured
  <2>2. Within(answered', sent.dst + Used(len, fin))
    BY <1>0, <2>1, GrewWithin
  <2> QED
    BY <1>3, <2>1, <2>2, OrderedServer
<1>4. ASSUME NEW len \in Sizes, MissedRequest(len) PROVE Ordered'
  <2>1. /\ len \in Nat /\ Sent /\ ahead' = TRUE /\ closed' = closed /\ closed = FALSE
        /\ answered' = answered
        /\ \E at \in Nat : asked' = Append(asked, [at |-> at, bytes |-> len])
    BY <1>4, MissedRequestIs DEF Sent, TypeOK
  <2>2. Within(asked', sent.src + len)
    BY <1>0, <2>1, WithinBegun
  <2>3. CASE FromClient(len, "none", FALSE)
    <3>1. Used(len, FALSE) = len
      BY <2>1 DEF Used
    <3> QED
      BY <2>1, <2>2, <2>3, <3>1, OrderedClient
  <2>4. CASE /\ number' = [number EXCEPT !.src = (@ + len) % SeqWord]
             /\ sent' = [sent EXCEPT !.src = @ + len]
             /\ UNCHANGED <<src, dst, order, again>>
    <3>1. /\ number'.src = (number.src + len) % SeqWord /\ number'.dst = number.dst
          /\ sent'.src = sent.src + len /\ sent'.dst = sent.dst
      BY <1>0, <2>4
    <3>2. /\ SideOrdered(asked, src, number.src, order.src, sent.src, again.src, FALSE)
          /\ SideOrdered(answered, dst, number.dst, order.dst, sent.dst, again.dst, FALSE)
      BY <2>1, OrderedIs
    <3>3. SideOrdered(asked', src, (number.src + len) % SeqWord, order.src, sent.src + len,
                      again.src, FALSE)
      BY Zenon, <1>0, <2>1, <2>2, <3>2, SideMissed
    <3>4. /\ SideOrdered(asked', src', number'.src, order'.src, sent'.src, again'.src, closed')
          /\ SideOrdered(answered', dst', number'.dst, order'.dst, sent'.dst, again'.dst, closed')
      BY <2>1, <2>4, <3>1, <3>2, <3>3
    <3> QED
      BY <3>4 DEF Ordered, SideOrdered
  <2> QED
    BY <1>4, <2>3, <2>4 DEF MissedRequest
<1>5. ASSUME NEW len \in Sizes, MissedResponse(len) PROVE Ordered'
  <2>1. /\ len \in Nat /\ Sent /\ closed' = closed /\ closed = FALSE
        /\ asked' = asked
        /\ \E at \in Nat : answered' = Append(answered, [at |-> at, bytes |-> len])
    BY <1>5, MissedResponseIs DEF Sent, TypeOK
  <2>2. Within(answered', sent.dst + len)
    BY <1>0, <2>1, WithinBegun
  <2>3. CASE FromServer(len, "none", FALSE)
    <3>1. Used(len, FALSE) = len
      BY <2>1 DEF Used
    <3> QED
      BY <2>1, <2>2, <2>3, <3>1, OrderedServer
  <2>4. CASE /\ number' = [number EXCEPT !.dst = (@ + len) % SeqWord]
             /\ sent' = [sent EXCEPT !.dst = @ + len]
             /\ UNCHANGED <<src, dst, order, again>>
    <3>1. /\ number'.dst = (number.dst + len) % SeqWord /\ number'.src = number.src
          /\ sent'.dst = sent.dst + len /\ sent'.src = sent.src
      BY <1>0, <2>4
    <3>2. /\ SideOrdered(asked, src, number.src, order.src, sent.src, again.src, FALSE)
          /\ SideOrdered(answered, dst, number.dst, order.dst, sent.dst, again.dst, FALSE)
      BY <2>1, OrderedIs
    <3>3. SideOrdered(answered', dst, (number.dst + len) % SeqWord, order.dst, sent.dst + len,
                      again.dst, FALSE)
      BY Zenon, <1>0, <2>1, <2>2, <3>2, SideMissed
    <3>4. /\ SideOrdered(asked', src', number'.src, order'.src, sent'.src, again'.src, closed')
          /\ SideOrdered(answered', dst', number'.dst, order'.dst, sent'.dst, again'.dst, closed')
      BY <2>1, <2>4, <3>1, <3>2, <3>3
    <3> QED
      BY <3>4 DEF Ordered, SideOrdered
  <2> QED
    BY <1>5, <2>3, <2>4 DEF MissedResponse
<1>6. ASSUME NEW len \in Sizes, Interim(len) PROVE Ordered'
  <2>1. /\ len \in Nat /\ Sent /\ FromServer(len, "rsp", FALSE) /\ closed' = closed
        /\ closed = FALSE /\ asked' = asked /\ answered' = answered /\ len >= Header
    BY <1>6, InterimIs, ConversationAssumption DEF Sent, TypeOK
  <2>2. Within(answered', sent.dst + Used(len, FALSE))
    <3>1. sent.dst + Used(len, FALSE) \in Nat /\ sent.dst <= sent.dst + Used(len, FALSE)
          /\ sent.dst \in Nat
      BY <1>0, <2>1 DEF Used
    <3> QED
      BY <1>0, <2>1, <3>1, WithinMore
  <2> QED
    BY <2>1, <2>2, OrderedServer
<1>7. ASSUME NEW i \in DOMAIN src, RepeatedClient(i) PROVE Ordered'
  <2> DEFINE n == [src[i] EXCEPT !.time = now']
             a == again.src \/ ~ (Contiguous(src) /\ Below(src, sent.src))
  <2>1. /\ src[i].dl > 0 /\ order' = [order EXCEPT !.src = tcp_order(@, n)]
        /\ again' = [again EXCEPT !.src = a]
        /\ src' = src /\ dst' = dst /\ number' = number /\ sent' = sent
        /\ closed' = closed /\ asked' = asked /\ answered' = answered
    BY <1>7 DEF RepeatedClient
  <2>2. i \in 1 .. Len(src) /\ src[i] \in Nodes
    BY <1>0, LenProperties
  <2>3. n.seq = src[i].seq /\ n.nxt = src[i].nxt
    BY <2>2 DEF Nodes
  <2> HIDE DEF n, a
  <2>4. order'.src = tcp_order(order.src, n) /\ order'.dst = order.dst
    BY <1>0, <2>1, OrderSide
  <2>5. again'.src = a /\ again'.dst = again.dst
    BY <1>0, <2>1
  <2>6. /\ SideOrdered(asked, src, number.src, order.src, sent.src, again.src, closed)
        /\ SideOrdered(answered, dst, number.dst, order.dst, sent.dst, again.dst, closed)
    BY OrderedIs
  <2>7. SideOrdered(asked, src, number.src, tcp_order(order.src, n), sent.src, a, closed)
    BY Zenon, <1>0, <2>1, <2>2, <2>3, <2>6, SideRepeats DEF a
  <2>8. /\ SideOrdered(asked', src', number'.src, order'.src, sent'.src, again'.src, closed')
        /\ SideOrdered(answered', dst', number'.dst, order'.dst, sent'.dst, again'.dst, closed')
    BY <2>1, <2>4, <2>5, <2>6, <2>7
  <2> QED
    BY <2>8 DEF Ordered, SideOrdered
<1>8. ASSUME NEW i \in DOMAIN dst, RepeatedServer(i) PROVE Ordered'
  <2> DEFINE n == [dst[i] EXCEPT !.time = now']
             a == again.dst \/ ~ (Contiguous(dst) /\ Below(dst, sent.dst))
  <2>1. /\ dst[i].dl > 0 /\ order' = [order EXCEPT !.dst = tcp_order(@, n)]
        /\ again' = [again EXCEPT !.dst = a]
        /\ src' = src /\ dst' = dst /\ number' = number /\ sent' = sent
        /\ closed' = closed /\ asked' = asked /\ answered' = answered
    BY <1>8 DEF RepeatedServer
  <2>2. i \in 1 .. Len(dst) /\ dst[i] \in Nodes
    BY <1>0, LenProperties
  <2>3. n.seq = dst[i].seq /\ n.nxt = dst[i].nxt
    BY <2>2 DEF Nodes
  <2> HIDE DEF n, a
  <2>4. order'.dst = tcp_order(order.dst, n) /\ order'.src = order.src
    BY <1>0, <2>1, OrderSide
  <2>5. again'.dst = a /\ again'.src = again.src
    BY <1>0, <2>1
  <2>6. /\ SideOrdered(asked, src, number.src, order.src, sent.src, again.src, closed)
        /\ SideOrdered(answered, dst, number.dst, order.dst, sent.dst, again.dst, closed)
    BY OrderedIs
  <2>7. SideOrdered(answered, dst, number.dst, tcp_order(order.dst, n), sent.dst, a, closed)
    BY Zenon, <1>0, <2>1, <2>2, <2>3, <2>6, SideRepeats DEF a
  <2>8. /\ SideOrdered(asked', src', number'.src, order'.src, sent'.src, again'.src, closed')
        /\ SideOrdered(answered', dst', number'.dst, order'.dst, sent'.dst, again'.dst, closed')
    BY <2>1, <2>4, <2>5, <2>6, <2>7
  <2> QED
    BY <2>8 DEF Ordered, SideOrdered
<1> QED
  BY <1>1, <1>2, <1>3, <1>4, <1>5, <1>6, <1>7, <1>8, Moves

\* IInv is an invariant.
THEOREM Invariance == Spec => []IInv
<1>1. Init => IInv
  BY TypeInit, ListsInit, MatchedInit, OrderedInit DEF IInv
<1>2. IInv /\ [Next]_vars => IInv'
  BY TypeNext, ListsNext, MatchedNext, LossesNext, OrderedNext DEF IInv
<1> QED
  BY <1>1, <1>2, PTL DEF Spec
-----------------------------------------------------------------------------
(* How far the extraction gets. *)

\* What the extraction makes of the packets in the order of their capture.
finTime == FinTime(src, dst)
whole   == Pairs(src, dst)
reqs    == Starts(src, "req", Visited(src, finTime))
rsps    == Starts(dst, "rsp", Visited(dst, finTime))

\* A list with a FIN has it at the time of the latest packet.
LEMMA FirstFinIs ==
  ASSUME NEW list \in Seq(Nodes), NEW kind, NEW t, NEW over, Listed(list, kind, t, over)
  PROVE  FirstFin(list) = IF Fins(list) = {} THEN Never ELSE t
<1>1. CASE Fins(list) = {}
  BY <1>1 DEF FirstFin
<1>2. CASE Fins(list) # {}
  <2>1. PICK i \in Fins(list) : TRUE
    BY <1>2
  <2>2. \A j \in Fins(list) : j = Len(list) /\ list[j].time = t
    BY DEF Fins, Listed
  <2>3. Len(list) \in Int
    BY LenProperties
  <2>4. Fins(list) \subseteq Int /\ \A j \in Fins(list) : i <= j
    BY <2>1, <2>2, <2>3
  <2>5. Least(Fins(list)) = i
    BY <2>1, <2>4, LeastIs
  <2> QED
    BY <1>2, <2>1, <2>2, <2>5 DEF FirstFin
<1> QED
  BY <1>1, <1>2

\* The time of the FIN is that of the latest packet.
LEMMA FinTimeIs ==
  ASSUME TypeOK, Lists
  PROVE  finTime = (IF closed THEN now ELSE Never) /\ finTime \in Int /\ now \in Nat
<1>1. src \in Seq(Nodes) /\ dst \in Seq(Nodes) /\ now \in Nat /\ closed \in BOOLEAN
  BY ConversationAssumption DEF TypeOK, Bound
<1>2. /\ FirstFin(src) = IF Fins(src) = {} THEN Never ELSE now
      /\ FirstFin(dst) = IF Fins(dst) = {} THEN Never ELSE now
  BY <1>1, FirstFinIs DEF Lists
<1>3. now # Never /\ Never \in Int
  BY <1>1 DEF Never
<1>4. CASE closed
  <2>1. {FirstFin(src), FirstFin(dst)} \ {Never} = {now}
    BY <1>2, <1>3, <1>4 DEF Lists
  <2>2. {now} \subseteq Int /\ now \in {now} /\ \A y \in {now} : now <= y
    BY <1>1
  <2>3. Least({now}) = now
    BY <2>2, LeastIs
  <2>4. finTime = Least({now})
    <3> DEFINE found == {FirstFin(src), FirstFin(dst)} \ {Never}
    <3>1. finTime = IF found = {} THEN Never ELSE Least(found)
      BY DEF finTime, FinTime
    <3>2. found = {now} /\ found # {}
      BY <2>1
    <3> HIDE DEF found
    <3> QED
      BY <3>1, <3>2
  <2> QED
    BY <1>1, <1>4, <2>3, <2>4
<1>5. CASE ~ closed
  <2>1. Fins(src) = {} /\ Fins(dst) = {}
    BY <1>5 DEF Lists, Listed, Fins
  <2>2. {FirstFin(src), FirstFin(dst)} \ {Never} = {}
    BY <1>2, <2>1
  <2>3. finTime = Never
    BY <2>2 DEF finTime, FinTime
  <2> QED
    BY <1>1, <1>3, <1>5, <2>3
<1> QED
  BY <1>4, <1>5

\* In a list in order of time the extraction visits the nodes before the FIN's time.
LEMMA VisitedIs ==
  ASSUME NEW list \in Seq(Nodes), NEW fin \in Int,
         \A i, j \in DOMAIN list : i <= j => list[i].time <= list[j].time
  PROVE  /\ Visited(list, fin) \in 0 .. Len(list)
         /\ \A i \in 1 .. Len(list) : i <= Visited(list, fin) <=> ~ FromFin(list[i], fin)
<1> DEFINE stops == {i \in DOMAIN list : FromFin(list[i], fin)}
<1>1. /\ Len(list) \in Nat /\ DOMAIN list = 1 .. Len(list)
      /\ \A i \in 1 .. Len(list) : list[i].time \in Nat
  <2>1. Len(list) \in Nat /\ DOMAIN list = 1 .. Len(list)
    BY LenProperties
  <2>2. \A i \in 1 .. Len(list) : list[i] \in Nodes
    BY <2>1, ElementOfSeq
  <2> QED
    BY <2>1, <2>2 DEF Nodes
<1>2. CASE stops = {}
  <2>1. Visited(list, fin) = Len(list)
    BY <1>2 DEF Visited
  <2>2. \A i \in 1 .. Len(list) : ~ FromFin(list[i], fin) /\ i <= Len(list)
    BY <1>1, <1>2
  <2> QED
    BY <1>1, <2>1, <2>2
<1>3. CASE stops # {}
  <2>1. stops \subseteq Nat
    BY <1>1
  <2>2. PICK x \in stops : \A y \in stops : x <= y
    BY <1>3, <2>1, HasLeast
  <2>3. Least(stops) = x
    <3> HIDE DEF stops
    <3>1. stops \subseteq Int
      BY <2>1
    <3> QED
      BY <3>1, <2>2, LeastIs
  <2>4. Visited(list, fin) = x - 1 /\ x \in 1 .. Len(list) /\ FromFin(list[x], fin)
    BY <1>1, <1>3, <2>2, <2>3 DEF Visited
  <2>5. ASSUME NEW i \in 1 .. Len(list) PROVE i <= x - 1 <=> ~ FromFin(list[i], fin)
    <3>1. CASE i < x
      <4>1. i \notin stops
        BY <2>2, <2>4, <3>1
      <4> QED
        BY <1>1, <2>4, <3>1, <4>1
    <3>2. CASE x <= i
      <4>1. list[x].time <= list[i].time
        BY <1>1, <2>4, <3>2
      <4>2. FromFin(list[i], fin)
        BY <1>1, <2>4, <4>1 DEF FromFin
      <4> QED
        BY <2>4, <3>2, <4>2
    <3> QED
      BY <2>4, <3>1, <3>2
  <2> HIDE DEF stops
  <2> QED
    BY <1>1, <2>4, <2>5
<1> QED
  BY <1>2, <1>3

\* Up to a number are the number and those below it.
LEMMA UpTo ==
  ASSUME NEW n \in Nat, NEW i \in 1 .. n
  PROVE  (i = n \/ i < n) /\ (i < n => i # n)
OBVIOUS

\* The nodes before the FIN are those that are none.
LEMMA BeforeIs ==
  ASSUME NEW list \in Seq(Nodes), NEW kind, NEW t, NEW over, Listed(list, kind, t, over)
  PROVE  \A i \in 1 .. Len(list) : i <= Before(list) <=> ~ list[i].fin
<1>0. Len(list) \in Nat /\ DOMAIN list = 1 .. Len(list)
  BY LenProperties
<1>1. \A i \in 1 .. Len(list) : list[i].fin => i = Len(list)
  BY <1>0 DEF Listed
<1> SUFFICES ASSUME NEW i \in 1 .. Len(list)
             PROVE  i <= Before(list) <=> ~ list[i].fin
  OBVIOUS
<1>2. list # <<>>
  <2>1. Len(list) # 0
    BY <1>0
  <2> QED
    BY <2>1, EmptySeq, LenProperties
<1>3. CASE list[Len(list)].fin
  <2>1. Before(list) = Len(list) - 1
    BY <1>2, <1>3 DEF Before
  <2>2. CASE i = Len(list)
    <3>1. ~ (i <= Before(list))
      BY <1>0, <2>1, <2>2
    <3>2. list[i].fin
      BY <1>3, <2>2
    <3> QED
      BY <3>1, <3>2
  <2>3. CASE i < Len(list)
    <3>1. i # Len(list)
      BY <1>0, <2>3, UpTo
    <3>2. ~ list[i].fin
      BY <1>1, <3>1
    <3>3. i <= Before(list)
      BY <1>0, <2>1, <2>3
    <3> QED
      BY <3>2, <3>3
  <2>4. i = Len(list) \/ i < Len(list)
    BY <1>0, UpTo
  <2> QED
    BY <2>2, <2>3, <2>4
<1>4. CASE ~ list[Len(list)].fin
  <2>1. Before(list) = Len(list)
    BY <1>2, <1>4 DEF Before
  <2>2. ~ list[i].fin
    BY <1>1, <1>4
  <2>3. i <= Before(list)
    BY <1>0, <2>1
  <2> QED
    BY <2>2, <2>3
<1> QED
  BY <1>3, <1>4

\* The extraction does not visit the FIN; where packets have different times it
\* visits everything before it.
LEMMA VisitedSide ==
  ASSUME TypeOK, Lists, NEW list \in {src, dst}, list \in Seq(Nodes), NEW kind,
         Listed(list, kind, now, closed)
  PROVE  /\ Len(list) \in Nat /\ Before(list) \in 0 .. Len(list)
         /\ Visited(list, finTime) \in 0 .. Before(list)
         /\ capture # "coarse" => Visited(list, finTime) = Before(list)
         /\ \A i \in 1 .. Len(list) :
              i <= Visited(list, finTime) <=> ~ FromFin(list[i], finTime)
<1> DEFINE v == Visited(list, finTime)
           b == Before(list)
<1>1. /\ Len(list) \in Nat /\ DOMAIN list = 1 .. Len(list) /\ b \in 0 .. Len(list)
      /\ \A i \in 1 .. Len(list) : list[i].time \in Nat
  <2>1. Len(list) \in Nat /\ DOMAIN list = 1 .. Len(list)
    BY LenProperties
  <2>2. \A i \in 1 .. Len(list) : list[i] \in Nodes
    BY <2>1, ElementOfSeq
  <2>3. b \in 0 .. Len(list)
    BY BeforeType
  <2> QED
    BY <2>1, <2>2, <2>3 DEF Nodes
<1>2. finTime = (IF closed THEN now ELSE Never) /\ finTime \in Int /\ now \in Nat
  BY FinTimeIs
<1>3. /\ v \in 0 .. Len(list)
      /\ \A i \in 1 .. Len(list) : i <= v <=> ~ FromFin(list[i], finTime)
  BY <1>2, VisitedIs DEF Listed
<1>4. \A i \in 1 .. Len(list) : i <= b <=> ~ list[i].fin
  BY BeforeIs
<1> HIDE DEF v, b
<1>5. v <= b
  <2> SUFFICES ASSUME b < v PROVE FALSE
    BY <1>1, <1>3
  <2>1. v \in 1 .. Len(list) /\ ~ (v <= b)
    BY <1>1, <1>3
  <2>2. list[v].fin
    BY <1>4, <2>1
  <2>3. closed /\ list[v].time = now
    BY <1>1, <2>1, <2>2 DEF Listed
  <2>4. FromFin(list[v], finTime)
    BY <1>2, <2>3 DEF FromFin, Never
  <2> QED
    BY <1>3, <2>1, <2>4
<1>6. ASSUME capture # "coarse" PROVE b <= v
  <2> SUFFICES ASSUME v < b PROVE FALSE
    BY <1>1, <1>3
  <2>1. b \in 1 .. Len(list) /\ ~ (b <= v)
    BY <1>1, <1>3
  <2>2. ~ list[b].fin /\ FromFin(list[b], finTime)
    BY <1>1, <1>3, <1>4, <2>1
  <2>3. closed
    BY <1>2, <2>2 DEF FromFin
  <2>4. list[b].time < now
    BY <1>1, <1>6, <2>1, <2>2, <2>3 DEF Lists
  <2> QED
    BY <1>1, <1>2, <2>1, <2>2, <2>3, <2>4 DEF FromFin
<1>7. v \in 0 .. b /\ (capture # "coarse" => v = b)
  BY <1>1, <1>3, <1>5, <1>6
<1> QED
  BY <1>1, <1>3, <1>7 DEF v, b
\* The messages that begin among the nodes visited are the first ones.
LEMMA StartsVisited ==
  ASSUME NEW list, NEW kind, NEW messages \in Seq(Messages), NEW b \in Nat, NEW v \in 0 .. b,
         Begin(Starts(list, kind, b), messages), NEW few, few = Starts(list, kind, v)
  PROVE  /\ few \in Seq(Nat) /\ Len(few) \in 0 .. Len(messages)
         /\ \A k \in 1 .. Len(few) : few[k] = messages[k].at
         /\ \A k \in 1 .. Len(messages) : k <= Len(few) <=> messages[k].at <= v
<1> DEFINE all == Starts(list, kind, b)
<1>1. v \in Nat
  OBVIOUS
<1>2. few \in Seq(Nat) /\ all \in Seq(Nat)
  BY <1>1, StartsEnumerate
<1>3. /\ Len(few) <= Len(all)
      /\ \A k \in 1 .. Len(few) : few[k] = all[k]
      /\ \A k \in 1 .. Len(all) : k <= Len(few) <=> all[k] <= v
  BY StartsPrefix
<1>4. Len(all) = Len(messages) /\ \A k \in DOMAIN all : all[k] = messages[k].at
  BY DEF Begin
<1> HIDE DEF all
<1>5. Len(few) \in Nat /\ Len(all) \in Nat /\ DOMAIN all = 1 .. Len(all)
  BY <1>2, LenProperties
<1>6. \A k \in 1 .. Len(few) : k \in 1 .. Len(all)
  BY <1>3, <1>5
<1>7. /\ Len(few) \in 0 .. Len(messages)
      /\ \A k \in 1 .. Len(few) : few[k] = messages[k].at
      /\ \A k \in 1 .. Len(messages) : k <= Len(few) <=> messages[k].at <= v
  BY <1>3, <1>4, <1>5, <1>6
<1> QED
  BY <1>2, <1>7

\* The nodes of a message are its own; when all is visited, all of them.
LEMMA MessageIs ==
  ASSUME NEW list \in Seq(Nodes), NEW kind, NEW messages \in Seq(Messages),
         Begin(Starts(list, kind, Before(list)), messages),
         NEW fin, Visited(list, fin) \in 0 .. Before(list),
         NEW k \in 1 .. Len(Starts(list, kind, Visited(list, fin)))
  PROVE  \E hi \in messages[k].at .. End(list, messages, k) :
           /\ Message(list, kind, fin, k) = messages[k].at .. hi
           /\ Visited(list, fin) = Before(list) => hi = End(list, messages, k)
<1> DEFINE v   == Visited(list, fin)
           b   == Before(list)
           few == Starts(list, kind, v)
           hi  == IF k < Len(few) THEN few[k + 1] - 1 ELSE v
<1>1. b \in Nat /\ v \in 0 .. b /\ Begin(Starts(list, kind, b), messages)
  BY BeforeType, LenProperties
<1>2. /\ few \in Seq(Nat) /\ Len(few) \in 0 .. Len(messages)
      /\ \A i \in 1 .. Len(few) : few[i] = messages[i].at
      /\ \A i \in 1 .. Len(messages) : i <= Len(few) <=> messages[i].at <= v
      /\ v = b => Len(few) = Len(messages)
  <2>1. few = Starts(list, kind, v)
    OBVIOUS
  <2> HIDE DEF v, b, few, hi
  <2>2. messages \in Seq(Messages)
    OBVIOUS
  <2> QED
    <3>1. Len(few) \in 0 .. Len(messages)
      BY <1>1, <2>1, <2>2, StartsVisited
    <3>2. \A i \in 1 .. Len(few) : few[i] = messages[i].at
      BY <1>1, <2>1, <2>2, StartsVisited
    <3>3. \A i \in 1 .. Len(messages) : i <= Len(few) <=> messages[i].at <= v
      BY <1>1, <2>1, <2>2, StartsVisited
    <3>4. v = b => Len(few) = Len(messages)
      BY <1>1, <2>1 DEF Begin
    <3>5. few \in Seq(Nat)
      BY <1>1, <2>1, <2>2, StartsVisited
    <3> QED
      BY <3>1, <3>2, <3>3, <3>4, <3>5
<1>3. Message(list, kind, fin, k) = few[k] .. hi
  BY DEF Message
<1>4. /\ \A i \in 1 .. Len(messages) : messages[i].at \in 1 .. b
      /\ \A i, j \in 1 .. Len(messages) : i < j => messages[i].at < messages[j].at
  BY Placed
<1>5. End(list, messages, k) = IF k < Len(messages) THEN messages[k + 1].at - 1 ELSE b
  BY DEF End
<1>6. k \in 1 .. Len(few) /\ Len(messages) \in Nat
  BY LenProperties
<1> HIDE DEF v, b, few
<1>7. few[k] = messages[k].at /\ k \in 1 .. Len(messages) /\ messages[k].at <= v
  BY <1>2, <1>6
<1>8. CASE k < Len(few)
  <2>1. k + 1 \in 1 .. Len(few) /\ k + 1 \in 1 .. Len(messages) /\ k < k + 1 /\ k < Len(messages)
    BY <1>2, <1>6, <1>8
  <2>2. few[k + 1] = messages[k + 1].at /\ messages[k].at < messages[k + 1].at
    BY <1>2, <1>4, <1>7, <2>1
  <2>3. hi = messages[k + 1].at - 1 /\ End(list, messages, k) = hi
    BY <1>5, <1>8, <2>1, <2>2
  <2>4. messages[k].at \in Nat /\ messages[k + 1].at \in Nat
    BY <1>1, <1>4, <1>7, <2>1
  <2>5. hi \in messages[k].at .. End(list, messages, k)
    <3>1. messages[k + 1].at - 1 \in messages[k].at .. messages[k + 1].at - 1
      BY <2>2, <2>4
    <3> HIDE DEF hi
    <3> QED
      BY <2>3, <3>1
  <2> QED
    BY <1>3, <1>7, <2>3, <2>5
<1>9. CASE ~ (k < Len(few))
  <2>1. hi = v /\ k = Len(few)
    BY <1>2, <1>6, <1>9
  <2>2. messages[k].at \in Nat /\ v \in Nat /\ v <= b
    BY <1>1, <1>4, <1>7
  <2>3. v <= End(list, messages, k) /\ End(list, messages, k) \in Int
    <3>1. CASE k < Len(messages)
      <4>1. k + 1 \in 1 .. Len(messages) /\ ~ (k + 1 <= Len(few))
        BY <1>2, <1>6, <2>1, <3>1
      <4>2. ~ (messages[k + 1].at <= v) /\ messages[k + 1].at \in 1 .. b
        BY <1>2, <1>4, <4>1
      <4>3. End(list, messages, k) = messages[k + 1].at - 1
        BY <1>5, <3>1
      <4> QED
        BY <1>1, <2>2, <4>2, <4>3
    <3>2. CASE ~ (k < Len(messages))
      BY <1>1, <1>5, <2>2, <3>2
    <3> QED
      BY <3>1, <3>2
  <2>4. v = b => End(list, messages, k) = v
    BY <1>2, <1>5, <1>6, <2>1
  <2>5. hi \in messages[k].at .. End(list, messages, k)
    BY <1>7, <2>1, <2>2, <2>3
  <2> QED
    BY <1>3, <1>7, <2>1, <2>4, <2>5 DEF v, b
<1> QED
  BY <1>8, <1>9

\* A message is never given more than its bytes.
LEMMA TotalLenBound ==
  ASSUME NEW list \in Seq(Nodes), NEW kind, NEW messages \in Seq(Messages),
         Begin(Starts(list, kind, Before(list)), messages),
         NEW fin, Visited(list, fin) \in 0 .. Before(list),
         NEW k \in 1 .. Len(Starts(list, kind, Visited(list, fin))),
         k \in 1 .. Len(messages), MeasuredAt(list, messages, k)
  PROVE  TotalLen(list, kind, fin, k) <= messages[k].bytes
<1> DEFINE m    == messages[k]
           ends == {i \in Message(list, kind, fin, k) : Last(list, i, fin) /\ list[i].nxt # 0}
<1>1. PICK hi \in m.at .. End(list, messages, k) : Message(list, kind, fin, k) = m.at .. hi
  BY MessageIs
<1>2. /\ m.at \in 1 .. Before(list) /\ End(list, messages, k) \in m.at .. Before(list)
      /\ Before(list) \in 0 .. Len(list) /\ Len(list) \in Nat
  BY Placed, BeforeType, LenProperties
<1>3. m \in Messages
  BY ElementOfSeq
<1>4. m.bytes \in Nat
  BY <1>3 DEF Messages
<1>5. CASE ends = {}
  <2>1. TotalLen(list, kind, fin, k) = 0
    BY <1>5 DEF TotalLen
  <2> QED
    BY <1>4, <2>1
<1>6. CASE ends # {}
  <2> DEFINE e == Greatest(ends)
  <2>1. ends \subseteq m.at .. hi
    BY <1>1
  <2>2. m.at \in Nat /\ hi \in Nat /\ m.at <= hi
    BY <1>1, <1>2
  <2>3. e \in ends
    <3>1. ends \subseteq Nat /\ \A i \in ends : i <= hi
      BY <2>1, <2>2
    <3> HIDE DEF ends
    <3> QED
      BY <1>6, <2>2, <3>1, GreatestIn
  <2>4. Least(m.at .. hi) = m.at
    <3>1. m.at \in m.at .. hi /\ \A i \in m.at .. hi : m.at <= i
      BY <2>2
    <3>2. m.at .. hi \subseteq Int
      OBVIOUS
    <3> QED
      BY <3>1, <3>2, LeastIs
  <2>5. TotalLen(list, kind, fin, k) = (list[e].nxt - list[m.at].seq) % SeqWord
    BY <1>1, <1>6, <2>4 DEF TotalLen
  <2> HIDE DEF e, ends
  <2>6. e \in m.at .. End(list, messages, k)
    BY <1>1, <1>2, <2>1, <2>2, <2>3
  <2>7. PICK p \in 0 .. m.bytes : list[e].nxt = (list[m.at].seq + p) % SeqWord
    BY <2>6 DEF MeasuredAt
  <2>8. list[m.at].seq \in Int
    <3>1. m.at \in 1 .. Len(list)
      BY <1>2
    <3> DEFINE first == list[m.at]
    <3>2. first \in Nodes
      BY <3>1, ElementOfSeq
    <3> HIDE DEF first
    <3>3. first.seq \in 0 .. SeqWord - 1
      BY ONLY <3>2 DEF Nodes
    <3>4. first.seq \in Int
      BY ONLY <3>3
    <3> QED
      BY ONLY <3>4 DEF first
  <2>9. p \in Int /\ p \in Nat /\ p <= m.bytes
    BY <1>4
  <2>10. TotalLen(list, kind, fin, k) = p % SeqWord
    <3>1. (((list[m.at].seq + p) % SeqWord) - list[m.at].seq) % SeqWord = p % SeqWord
      BY <2>8, <2>9, Distance
    <3> QED
      BY <2>5, <2>7, <3>1
  <2>11. p % SeqWord <= p /\ p % SeqWord \in 0 .. SeqWord - 1
    BY <2>9, Cut
  <2> QED
    BY <1>4, <2>9, <2>10, <2>11, WordAssumption
<1> QED
  BY <1>5, <1>6
-----------------------------------------------------------------------------
(* The pairs. *)

\* How far the extraction gets on either side.
LEMMA Sides ==
  ASSUME TypeOK, Lists
  PROVE  /\ src \in Seq(Nodes) /\ dst \in Seq(Nodes)
         /\ Before(src) \in Nat /\ Before(dst) \in Nat
         /\ Visited(src, finTime) \in 0 .. Before(src)
         /\ Visited(dst, finTime) \in 0 .. Before(dst)
         /\ capture # "coarse" => /\ Visited(src, finTime) = Before(src)
                                  /\ Visited(dst, finTime) = Before(dst)
<1>1. /\ src \in Seq(Nodes) /\ dst \in Seq(Nodes)
      /\ Listed(src, "req", now, closed) /\ Listed(dst, "rsp", now, closed)
  BY DEF TypeOK, Lists
<1>2. /\ Len(src) \in Nat /\ Before(src) \in 0 .. Len(src)
      /\ Visited(src, finTime) \in 0 .. Before(src)
      /\ capture # "coarse" => Visited(src, finTime) = Before(src)
  BY <1>1, VisitedSide
<1>3. /\ Len(dst) \in Nat /\ Before(dst) \in 0 .. Len(dst)
      /\ Visited(dst, finTime) \in 0 .. Before(dst)
      /\ capture # "coarse" => Visited(dst, finTime) = Before(dst)
  BY <1>1, VisitedSide
<1> QED
  BY <1>1, <1>2, <1>3

\* Everything before the FIN is visited unless packets may carry equal times.
LEMMA AllVisited ==
  ASSUME TypeOK, Lists, capture # "coarse"
  PROVE  reqs = requests /\ rsps = responses
BY Sides DEF reqs, rsps, requests, responses

\* The messages extracted are the first ones of each side.
LEMMA Extracts ==
  ASSUME TypeOK, Lists, Found, capture # "lossy"
  PROVE  /\ asked \in Seq(Messages) /\ answered \in Seq(Messages)
         /\ Len(asked) \in Nat /\ Len(answered) \in Nat /\ Len(answered) <= Len(asked)
         /\ Len(reqs) \in 0 .. Len(asked) /\ Len(rsps) \in 0 .. Len(answered)
         /\ \A k \in 1 .. Len(reqs) : reqs[k] = asked[k].at
         /\ \A k \in 1 .. Len(rsps) : rsps[k] = answered[k].at
         /\ \A k \in 1 .. Len(asked) : k <= Len(reqs) <=> asked[k].at <= Visited(src, finTime)
         /\ \A k \in 1 .. Len(answered) :
              k <= Len(rsps) <=> answered[k].at <= Visited(dst, finTime)
<1>1. /\ asked \in Seq(Messages) /\ answered \in Seq(Messages)
      /\ Len(asked) \in Nat /\ Len(answered) \in Nat /\ Len(answered) <= Len(asked)
  BY LenProperties DEF TypeOK
<1>2. /\ Begin(Starts(src, "req", Before(src)), asked)
      /\ Begin(Starts(dst, "rsp", Before(dst)), answered)
  BY DEF Found, requests, responses
<1>3. reqs = Starts(src, "req", Visited(src, finTime))
  BY DEF reqs
<1>4. /\ reqs \in Seq(Nat) /\ Len(reqs) \in 0 .. Len(asked)
      /\ \A k \in 1 .. Len(reqs) : reqs[k] = asked[k].at
      /\ \A k \in 1 .. Len(asked) : k <= Len(reqs) <=> asked[k].at <= Visited(src, finTime)
  <2>1. Before(src) \in Nat /\ Visited(src, finTime) \in 0 .. Before(src)
    BY Sides
  <2>2. reqs \in Seq(Nat) /\ Len(reqs) \in 0 .. Len(asked)
    BY <1>1, <1>2, <1>3, <2>1, StartsVisited
  <2>3. \A k \in 1 .. Len(reqs) : reqs[k] = asked[k].at
    BY <1>1, <1>2, <1>3, <2>1, StartsVisited
  <2>4. \A k \in 1 .. Len(asked) : k <= Len(reqs) <=> asked[k].at <= Visited(src, finTime)
    <3> DEFINE v == Visited(src, finTime)
               b == Before(src)
    <3>1. b \in Nat /\ v \in 0 .. b /\ Begin(Starts(src, "req", b), asked)
          /\ reqs = Starts(src, "req", v)
      BY <1>2, <1>3, <2>1
    <3> HIDE DEF v, b
    <3>2. \A k \in 1 .. Len(asked) : k <= Len(reqs) <=> asked[k].at <= v
      BY <1>1, <3>1, StartsVisited
    <3> QED
      BY <3>2 DEF v
  <2> QED
    BY <2>2, <2>3, <2>4
<1>5. rsps = Starts(dst, "rsp", Visited(dst, finTime))
  BY DEF rsps
<1>6. /\ rsps \in Seq(Nat) /\ Len(rsps) \in 0 .. Len(answered)
      /\ \A k \in 1 .. Len(rsps) : rsps[k] = answered[k].at
      /\ \A k \in 1 .. Len(answered) :
           k <= Len(rsps) <=> answered[k].at <= Visited(dst, finTime)
  <2>1. Before(dst) \in Nat /\ Visited(dst, finTime) \in 0 .. Before(dst)
    BY Sides
  <2>2. rsps \in Seq(Nat) /\ Len(rsps) \in 0 .. Len(answered)
    BY <1>1, <1>2, <1>5, <2>1, StartsVisited
  <2>3. \A k \in 1 .. Len(rsps) : rsps[k] = answered[k].at
    BY <1>1, <1>2, <1>5, <2>1, StartsVisited
  <2>4. \A k \in 1 .. Len(answered) : k <= Len(rsps) <=> answered[k].at <= Visited(dst, finTime)
    <3> DEFINE v == Visited(dst, finTime)
               b == Before(dst)
    <3>1. b \in Nat /\ v \in 0 .. b /\ Begin(Starts(dst, "rsp", b), answered)
          /\ rsps = Starts(dst, "rsp", v)
      BY <1>2, <1>5, <2>1
    <3> HIDE DEF v, b
    <3>2. \A k \in 1 .. Len(answered) : k <= Len(rsps) <=> answered[k].at <= v
      BY <1>1, <3>1, StartsVisited
    <3> QED
      BY <3>2 DEF v
  <2> QED
    BY <2>2, <2>3, <2>4
<1> QED
  BY <1>1, <1>4, <1>6

\* No response is extracted without its request, for it is not the older one.
LEMMA NoneLeft ==
  ASSUME TypeOK, Lists, Found, Answers, capture # "lossy"
  PROVE  Len(rsps) <= Len(reqs)
<1>1. /\ asked \in Seq(Messages) /\ answered \in Seq(Messages)
      /\ Len(asked) \in Nat /\ Len(answered) \in Nat /\ Len(answered) <= Len(asked)
      /\ Len(reqs) \in 0 .. Len(asked) /\ Len(rsps) \in 0 .. Len(answered)
      /\ \A k \in 1 .. Len(asked) : k <= Len(reqs) <=> asked[k].at <= Visited(src, finTime)
      /\ \A k \in 1 .. Len(answered) :
           k <= Len(rsps) <=> answered[k].at <= Visited(dst, finTime)
  BY Extracts
<1> SUFFICES ASSUME Len(reqs) < Len(rsps) PROVE FALSE
  BY <1>1
<1> DEFINE k == Len(rsps)
<1>2. k \in 1 .. Len(asked) /\ k \in 1 .. Len(answered) /\ k <= Len(rsps) /\ ~ (k <= Len(reqs))
  BY <1>1
<1> DEFINE i == asked[k].at
           j == answered[k].at
<1> HIDE DEF k
<1>3. ~ (i <= Visited(src, finTime)) /\ j <= Visited(dst, finTime)
  BY <1>1, <1>2
<1>4. i \in 1 .. Before(src) /\ j \in 1 .. Before(dst)
  <2>1. /\ src \in Seq(Nodes) /\ dst \in Seq(Nodes)
        /\ Begin(Starts(src, "req", Before(src)), asked)
        /\ Begin(Starts(dst, "rsp", Before(dst)), answered)
    BY Sides DEF Found, requests, responses
  <2>2. \A n \in 1 .. Len(asked) : asked[n].at \in 1 .. Before(src)
    BY <1>1, <2>1, Placed
  <2>3. \A n \in 1 .. Len(answered) : answered[n].at \in 1 .. Before(dst)
    BY <1>1, <2>1, Placed
  <2> QED
    BY <1>2, <2>2, <2>3
<1>5. i \in 1 .. Len(src) /\ j \in 1 .. Len(dst)
  <2>1. /\ Before(src) \in 0 .. Len(src) /\ Before(dst) \in 0 .. Len(dst)
        /\ Len(src) \in Nat /\ Len(dst) \in Nat
    BY BeforeType, Sides, LenProperties
  <2> QED
    BY <1>4, <2>1
<1>6. FromFin(src[i], finTime) /\ ~ FromFin(dst[j], finTime)
  <2>1. /\ src \in Seq(Nodes) /\ dst \in Seq(Nodes)
        /\ Listed(src, "req", now, closed) /\ Listed(dst, "rsp", now, closed)
    BY DEF TypeOK, Lists
  <2>2. \A n \in 1 .. Len(src) : n <= Visited(src, finTime) <=> ~ FromFin(src[n], finTime)
    BY <2>1, VisitedSide
  <2>3. \A n \in 1 .. Len(dst) : n <= Visited(dst, finTime) <=> ~ FromFin(dst[n], finTime)
    BY <2>1, VisitedSide
  <2> QED
    BY <1>3, <1>5, <2>2, <2>3
<1>7. src[i].time <= dst[j].time
  <2>1. DOMAIN answered = 1 .. Len(answered)
    BY <1>1, LenProperties
  <2> QED
    BY <1>2, <2>1 DEF Answers
<1>8. src[i].time \in Nat /\ dst[j].time \in Nat /\ finTime \in Int
  <2>1. src[i] \in Nodes /\ dst[j] \in Nodes
    BY <1>5, Sides, ElementOfSeq
  <2> QED
    BY <2>1, FinTimeIs DEF Nodes
<1> HIDE DEF i, j
<1> QED
  BY <1>6, <1>7, <1>8 DEF FromFin

\* The pairs, field by field.
LEMMA PairsAre ==
  ASSUME Len(reqs) \in Nat
  PROVE  /\ Len(whole) = Len(reqs) /\ DOMAIN whole = 1 .. Len(reqs)
         /\ \A k \in 1 .. Len(reqs) :
              /\ whole[k].req = reqs[k]
              /\ whole[k].req_len = TotalLen(src, "req", finTime, k)
              /\ whole[k].rsp = IF k <= Len(rsps) THEN rsps[k] ELSE 0
              /\ whole[k].rsp_len =
                   IF k <= Len(rsps) THEN TotalLen(dst, "rsp", finTime, k) ELSE 0
              /\ whole[k].body =
                   IF k <= Len(rsps) THEN BodyLen(dst[rsps[k]], whole[k].rsp_len) ELSE 0
<1> DEFINE n      == Len(reqs)
           Ans(k) == k <= Len(rsps)
           len(k) == IF Ans(k) THEN TotalLen(dst, "rsp", finTime, k) ELSE 0
           Pair(k) == [req     |-> reqs[k],
                       req_len |-> TotalLen(src, "req", finTime, k),
                       rsp     |-> IF Ans(k) THEN rsps[k] ELSE 0,
                       rsp_len |-> len(k),
                       body    |-> IF Ans(k) THEN BodyLen(dst[rsps[k]], len(k)) ELSE 0]
<1>1. whole = [k \in 1 .. n |-> Pair(k)]
  BY DEF whole, Pairs, reqs, rsps, finTime
<1> HIDE DEF n
<1>2. n \in Nat
  BY DEF n
<1>3. Len(whole) = n /\ DOMAIN whole = 1 .. n
  <2> HIDE DEF Pair
  <2>1. Len([k \in 1 .. n |-> Pair(k)]) = n
    BY <1>2
  <2> QED
    BY <1>1, <2>1
<1>4. \A k \in 1 .. n : whole[k] = Pair(k)
  <2> HIDE DEF Pair
  <2> QED
    BY <1>1
<1>5. ASSUME NEW k \in 1 .. n
      PROVE  /\ whole[k].req = reqs[k]
             /\ whole[k].req_len = TotalLen(src, "req", finTime, k)
             /\ whole[k].rsp = IF k <= Len(rsps) THEN rsps[k] ELSE 0
             /\ whole[k].rsp_len =
                  IF k <= Len(rsps) THEN TotalLen(dst, "rsp", finTime, k) ELSE 0
             /\ whole[k].body =
                  IF k <= Len(rsps) THEN BodyLen(dst[rsps[k]], whole[k].rsp_len) ELSE 0
  <2>1. whole[k] = Pair(k)
    BY <1>4
  <2>2. /\ Pair(k).req = reqs[k]
        /\ Pair(k).req_len = TotalLen(src, "req", finTime, k)
        /\ Pair(k).rsp = IF k <= Len(rsps) THEN rsps[k] ELSE 0
        /\ Pair(k).rsp_len = len(k)
        /\ Pair(k).body = IF k <= Len(rsps) THEN BodyLen(dst[rsps[k]], len(k)) ELSE 0
    BY Zenon
  <2>3. len(k) = IF k <= Len(rsps) THEN TotalLen(dst, "rsp", finTime, k) ELSE 0
    OBVIOUS
  <2> HIDE DEF Pair, len
  <2> QED
    BY <2>1, <2>2, <2>3
<1> QED
  BY <1>3, <1>5 DEF n

\* In sequence the lists are those, and so are the pairs.
LEMMA InOrderAre ==
  ASSUME IInv, InSequence
  PROVE  pairs = whole /\ order.src.list = src /\ order.dst.list = dst
<1>1. /\ Plain(src, sent.src, again.src) /\ Kept(src, order.src, sent.src, again.src)
      /\ Plain(dst, sent.dst, again.dst) /\ Kept(dst, order.dst, sent.dst, again.dst)
  BY DEF InSequence, IInv, Ordered
<1>2. order.src.list = src /\ order.dst.list = dst
  BY <1>1, Zenon DEF Kept
<1>3. pairs = whole
  BY <1>2, Zenon DEF pairs, whole
<1> QED
  BY <1>2, <1>3

\* A message of either side, as the extraction measures it, takes none of another.
LEMMA RequestBound ==
  ASSUME TypeOK, Lists, Found, Lengths, capture # "lossy", NEW k \in 1 .. Len(reqs)
  PROVE  TotalLen(src, "req", finTime, k) <= asked[k].bytes
<1>1. k \in 1 .. Len(asked) /\ asked \in Seq(Messages) /\ src \in Seq(Nodes)
  BY Extracts, Sides
<1>2. Begin(Starts(src, "req", Before(src)), asked)
  BY DEF Found, requests
<1>3. MeasuredAt(src, asked, k)
  BY <1>1, MeasuredIs DEF Lengths
<1>4. k \in 1 .. Len(Starts(src, "req", Visited(src, finTime)))
  BY DEF reqs
<1>5. Visited(src, finTime) \in 0 .. Before(src)
  BY Sides
<1> QED
  BY <1>1, <1>2, <1>3, <1>4, <1>5, TotalLenBound

\* The same of a response.
LEMMA ResponseBound ==
  ASSUME TypeOK, Lists, Found, Lengths, capture # "lossy", NEW k \in 1 .. Len(rsps)
  PROVE  TotalLen(dst, "rsp", finTime, k) <= answered[k].bytes
<1>1. k \in 1 .. Len(answered) /\ answered \in Seq(Messages) /\ dst \in Seq(Nodes)
  BY Extracts, Sides
<1>2. Begin(Starts(dst, "rsp", Before(dst)), answered)
  BY DEF Found, responses
<1>3. MeasuredAt(dst, answered, k)
  BY <1>1, MeasuredIs DEF Lengths
<1>4. k \in 1 .. Len(Starts(dst, "rsp", Visited(dst, finTime)))
  BY DEF rsps
<1>5. Visited(dst, finTime) \in 0 .. Before(dst)
  BY Sides
<1> QED
  BY <1>1, <1>2, <1>3, <1>4, <1>5, TotalLenBound

\* The result says whether there is a pair.
LEMMA ResultIs ==
  ASSUME Len(reqs) \in Nat, Len(rsps) \in Nat, reqs \in Seq(Nat), Len(rsps) <= Len(reqs)
  PROVE  Result(src, dst) = 0 <=> Len(reqs) # 0
<1>1. Result(src, dst) = IF reqs = <<>> \/ Len(rsps) > Len(reqs) THEN 1 ELSE 0
  BY DEF Result, reqs, rsps, finTime
<1>2. reqs = <<>> <=> Len(reqs) = 0
  BY EmptySeq
<1>3. ~ (Len(rsps) > Len(reqs))
  OBVIOUS
<1> QED
  BY <1>1, <1>2, <1>3

\* The starts are sequences of numbers.
LEMMA StartTypes ==
  ASSUME TypeOK, Lists
  PROVE  reqs \in Seq(Nat) /\ rsps \in Seq(Nat) /\ Len(reqs) \in Nat /\ Len(rsps) \in Nat
<1>1. Visited(src, finTime) \in Nat /\ Visited(dst, finTime) \in Nat
  BY Sides
<1>2. reqs \in Seq(Nat) /\ rsps \in Seq(Nat)
  BY <1>1, StartsEnumerate DEF reqs, rsps
<1> QED
  BY <1>2, LenProperties

\* No request is given the response to another, and no length is too large.
LEMMA NeverMismatchedHolds == IInv => NeverMismatched
<1> SUFFICES ASSUME IInv, capture # "lossy", InSequence
             PROVE  /\ Len(whole) <= Len(asked)
                    /\ \A k \in DOMAIN whole :
                         /\ whole[k].req = asked[k].at
                         /\ whole[k].req_len <= asked[k].bytes
                         /\ whole[k].rsp # 0 => /\ k <= Len(answered)
                                                /\ whole[k].rsp = answered[k].at
                                                /\ whole[k].rsp_len <= answered[k].bytes
                    /\ Result(src, dst) = 0 <=> whole # <<>>
  BY InOrderAre DEF NeverMismatched
<1>1. TypeOK /\ Lists /\ Found /\ Lengths /\ Answers
  BY DEF IInv
<1>2. /\ Len(asked) \in Nat /\ Len(answered) \in Nat
      /\ Len(reqs) \in 0 .. Len(asked) /\ Len(rsps) \in 0 .. Len(answered)
      /\ \A k \in 1 .. Len(reqs) : reqs[k] = asked[k].at
      /\ \A k \in 1 .. Len(rsps) : rsps[k] = answered[k].at
  BY <1>1, Extracts
<1>3. Len(rsps) <= Len(reqs)
  BY <1>1, NoneLeft
<1>4. reqs \in Seq(Nat) /\ Len(reqs) \in Nat /\ Len(rsps) \in Nat
  BY <1>1, StartTypes
<1>5. Len(whole) = Len(reqs) /\ DOMAIN whole = 1 .. Len(reqs)
  BY <1>4, PairsAre
<1>6. ASSUME NEW k \in 1 .. Len(reqs)
      PROVE  /\ whole[k].req = asked[k].at
             /\ whole[k].req_len <= asked[k].bytes
             /\ whole[k].rsp # 0 => /\ k <= Len(answered)
                                    /\ whole[k].rsp = answered[k].at
                                    /\ whole[k].rsp_len <= answered[k].bytes
  <2>1. /\ whole[k].req = reqs[k]
        /\ whole[k].req_len = TotalLen(src, "req", finTime, k)
        /\ whole[k].rsp = IF k <= Len(rsps) THEN rsps[k] ELSE 0
        /\ whole[k].rsp_len = IF k <= Len(rsps) THEN TotalLen(dst, "rsp", finTime, k) ELSE 0
    BY <1>4, PairsAre
  <2>2. whole[k].req_len <= asked[k].bytes
    BY <1>1, <2>1, RequestBound
  <2>3. ASSUME whole[k].rsp # 0
        PROVE  /\ k <= Len(answered) /\ whole[k].rsp = answered[k].at
               /\ whole[k].rsp_len <= answered[k].bytes
    <3>1. k <= Len(rsps)
      BY <2>1, <2>3
    <3>2. k \in 1 .. Len(rsps) /\ k <= Len(answered)
      BY <1>2, <1>4, <3>1
    <3>3. TotalLen(dst, "rsp", finTime, k) <= answered[k].bytes
      BY <1>1, <3>2, ResponseBound
    <3> QED
      BY <1>2, <2>1, <3>1, <3>2, <3>3
  <2> QED
    BY <1>2, <2>1, <2>2, <2>3
<1>7. Result(src, dst) = 0 <=> whole # <<>>
  <2>1. Result(src, dst) = 0 <=> Len(reqs) # 0
    BY <1>3, <1>4, ResultIs
  <2>2. whole # <<>> <=> Len(reqs) # 0
    <3>1. whole \in Seq({whole[k] : k \in 1 .. Len(reqs)})
      <4>1. whole = [k \in 1 .. Len(reqs) |-> whole[k]]
        BY <1>4, <1>5 DEF whole, Pairs, reqs, finTime
      <4> DEFINE p == whole
                 n == Len(reqs)
      <4>2. n \in Nat /\ p = [k \in 1 .. n |-> p[k]]
        BY <1>4, <4>1
      <4> HIDE DEF p, n
      <4>3. p \in Seq({p[k] : k \in 1 .. n})
        BY <4>2
      <4> QED
        BY <4>3 DEF p, n
    <3> QED
      BY <1>5, <3>1, EmptyIs
  <2> QED
    BY <2>1, <2>2
<1> QED
  BY <1>2, <1>5, <1>6, <1>7

\* The theorem: where packets carry different times or the same, no request is
\* given the response to another and no message the bytes of another.
THEOREM NoMismatch == Spec => []NeverMismatched
BY Invariance, NeverMismatchedHolds, PTL

\* Where packets are told apart by their times, every request is extracted.
LEMMA AllPairedHolds == IInv => AllPaired
<1> SUFFICES ASSUME IInv, capture = "exact", InSequence
             PROVE  /\ Len(whole) = Len(asked)
                    /\ \A k \in DOMAIN whole :
                         /\ whole[k].req = asked[k].at
                         /\ whole[k].rsp = IF k <= Len(answered) THEN answered[k].at ELSE 0
                    /\ Result(src, dst) = 0 <=> asked # <<>>
  BY InOrderAre DEF AllPaired
<1>1. TypeOK /\ Lists /\ Found /\ Lengths /\ Answers /\ capture # "lossy" /\ capture # "coarse"
  BY DEF IInv
<1>2. /\ Len(asked) \in Nat /\ Len(answered) \in Nat /\ asked \in Seq(Messages)
      /\ Len(reqs) \in 0 .. Len(asked) /\ Len(rsps) \in 0 .. Len(answered)
      /\ \A k \in 1 .. Len(reqs) : reqs[k] = asked[k].at
      /\ \A k \in 1 .. Len(rsps) : rsps[k] = answered[k].at
  BY <1>1, Extracts
<1>3. Len(rsps) <= Len(reqs)
  BY <1>1, NoneLeft
<1>4. reqs \in Seq(Nat) /\ Len(reqs) \in Nat /\ Len(rsps) \in Nat
  BY <1>1, StartTypes
<1>5. Len(reqs) = Len(asked) /\ Len(rsps) = Len(answered)
  BY <1>1, AllVisited DEF Found, Begin
<1>6. Len(whole) = Len(asked) /\ DOMAIN whole = 1 .. Len(asked)
  BY <1>4, <1>5, PairsAre
<1>7. ASSUME NEW k \in 1 .. Len(asked)
      PROVE  /\ whole[k].req = asked[k].at
             /\ whole[k].rsp = IF k <= Len(answered) THEN answered[k].at ELSE 0
  <2>1. /\ whole[k].req = reqs[k]
        /\ whole[k].rsp = IF k <= Len(rsps) THEN rsps[k] ELSE 0
    BY <1>4, <1>5, PairsAre
  <2>2. k <= Len(rsps) => k \in 1 .. Len(rsps)
    BY <1>4
  <2> QED
    BY <1>2, <1>5, <2>1, <2>2
<1>8. Result(src, dst) = 0 <=> asked # <<>>
  <2>1. Result(src, dst) = 0 <=> Len(reqs) # 0
    BY <1>3, <1>4, ResultIs
  <2>2. asked # <<>> <=> Len(asked) # 0
    BY <1>2, EmptyIs
  <2> QED
    BY <1>5, <2>1, <2>2
<1> QED
  BY <1>6, <1>7, <1>8

\* The theorem: every request captured before the FIN is extracted with its response.
THEOREM EveryPair == Spec => []AllPaired
BY Invariance, AllPairedHolds, PTL

\* A missed header shifts the responses, and only those that follow.
LEMMA LossesShiftOnlyHolds == IInv => LossesShiftOnly
<1> SUFFICES ASSUME IInv, capture = "lossy", InSequence, NEW k \in DOMAIN whole
             PROVE  /\ k <= intact =>
                         /\ whole[k].req = asked[k].at
                         /\ whole[k].rsp = IF k <= Len(answered) THEN answered[k].at ELSE 0
                    /\ ~ ahead /\ whole[k].rsp # 0 =>
                         \E i \in k .. Len(answered) : whole[k].rsp = answered[i].at
  BY InOrderAre DEF LossesShiftOnly
<1>1. TypeOK /\ Lists /\ Losses /\ capture # "coarse"
  BY DEF IInv
<1>2. reqs = requests /\ rsps = responses
  BY <1>1, AllVisited
<1>3. reqs \in Seq(Nat) /\ rsps \in Seq(Nat) /\ Len(reqs) \in Nat /\ Len(rsps) \in Nat
  BY <1>1, StartTypes
<1>4. k \in 1 .. Len(reqs)
  BY <1>3, PairsAre
<1>5. /\ whole[k].req = reqs[k]
      /\ whole[k].rsp = IF k <= Len(rsps) THEN rsps[k] ELSE 0
  BY <1>3, <1>4, PairsAre
<1>6. ASSUME k <= intact
      PROVE  /\ whole[k].req = asked[k].at
             /\ whole[k].rsp = IF k <= Len(answered) THEN answered[k].at ELSE 0
  <2>1. intact \in Nat /\ Len(answered) \in Nat
    BY <1>1, LenProperties DEF TypeOK
  <2>2. k \in 1 .. intact
    BY <1>3, <1>4, <1>6, <2>1
  <2>3. k <= Len(reqs) /\ (k <= Len(reqs) => reqs[k] = asked[k].at)
    BY <1>1, <1>2, <1>3, <1>4, <2>2 DEF Losses, Agree
  <2>4. /\ k <= Len(rsps) <=> k <= Len(answered)
        /\ k <= Len(rsps) => rsps[k] = answered[k].at
    BY <1>1, <1>2, <2>2 DEF Losses, Agree
  <2> QED
    BY <1>5, <2>3, <2>4
<1>7. ASSUME ~ ahead, whole[k].rsp # 0
      PROVE  \E i \in k .. Len(answered) : whole[k].rsp = answered[i].at
  <2>1. k <= Len(rsps) /\ whole[k].rsp = rsps[k]
    BY <1>5, <1>7
  <2>2. k \in DOMAIN rsps
    BY <1>3, <1>4, <2>1, LenProperties
  <2>3. \E i \in k .. Len(answered) : rsps[k] = answered[i].at
    BY <1>1, <1>2, <1>7, <2>2 DEF Losses, Shifted
  <2> QED
    BY <2>1, <2>3
<1> QED
  BY <1>6, <1>7

\* The theorem: what a missed header costs.
THEOREM OnlyShifted == Spec => []LossesShiftOnly
BY Invariance, LossesShiftOnlyHolds, PTL

\* The lists and the history keep their types and ranges.
THEOREM TypeCorrect == Spec => []TypeOK
<1>1. IInv => TypeOK
  BY DEF IInv
<1> QED
  BY <1>1, Invariance, PTL

-----------------------------------------------------------------------------
(* The lengths and the last byte, where all is visited. *)

\* The last node of a message is the one at its end.
LEMMA LastIs ==
  ASSUME NEW list \in Seq(Nodes), NEW messages \in Seq(Messages), NEW kind, kind # "none",
         \A i \in 1 .. Len(list) : list[i].http \in {"none", kind},
         Begin(Starts(list, kind, Before(list)), messages), NEW fin,
         \A i \in 1 .. Len(list) : i <= Before(list) <=> ~ FromFin(list[i], fin),
         NEW k \in 1 .. Len(messages), NEW i \in messages[k].at .. End(list, messages, k)
  PROVE  Last(list, i, fin) <=> i = End(list, messages, k)
<1> DEFINE b  == Before(list)
           e  == End(list, messages, k)
           at == messages[k].at
<1>1. Len(list) \in Nat /\ b \in 0 .. Len(list) /\ Len(messages) \in Nat
  BY BeforeType, LenProperties
<1>2. /\ \A j \in 1 .. Len(messages) : messages[j].at \in 1 .. b
      /\ \A j \in 1 .. Len(messages) : list[messages[j].at].http = kind
      /\ \A j \in 1 .. Len(messages) : End(list, messages, j) \in messages[j].at .. b
      /\ \A j, n \in 1 .. Len(messages) : j < n => messages[j].at < messages[n].at
      /\ \A n \in 1 .. b : list[n].http = kind => \E j \in 1 .. Len(messages) : messages[j].at = n
  BY Placed
<1>3. e = IF k < Len(messages) THEN messages[k + 1].at - 1 ELSE b
  BY DEF End
<1>4. at \in 1 .. b /\ e \in at .. b /\ i \in at .. e
  BY <1>2
<1> HIDE DEF b, e, at
<1>5. ASSUME i < e PROVE ~ Last(list, i, fin)
  <2>1. /\ i + 1 \in 1 .. b /\ i + 1 \in 1 .. Len(list) /\ i + 1 <= e /\ at < i + 1
        /\ i + 1 <= b /\ i # Len(list)
    BY <1>1, <1>4, <1>5
  <2>2. ~ FromFin(list[i + 1], fin)
    BY <2>1 DEF b
  <2>3. list[i + 1].http # kind
    <3> SUFFICES ASSUME list[i + 1].http = kind PROVE FALSE
      OBVIOUS
    <3>1. PICK j \in 1 .. Len(messages) : messages[j].at = i + 1
      BY <1>2, <2>1
    <3>2. k < j
      <4> SUFFICES ASSUME j <= k PROVE FALSE
        BY <1>1
      <4>1. j < k => messages[j].at < messages[k].at
        BY <1>2
      <4>2. messages[j].at <= at
        BY <4>1, <1>1, <1>4, <3>1, <2>1 DEF at
      <4> QED
        BY <1>4, <2>1, <3>1, <4>2
    <3>3. k < Len(messages) /\ k + 1 \in 1 .. Len(messages)
      BY <1>1, <3>2
    <3>4. messages[k + 1].at <= messages[j].at
      <4>1. k + 1 < j => messages[k + 1].at < messages[j].at
        BY <1>2, <3>3
      <4>2. messages[k + 1].at \in 1 .. b /\ messages[j].at \in 1 .. b
        BY <1>2, <3>3
      <4>3. k + 1 = j \/ k + 1 < j
        BY <1>1, <3>2
      <4> QED
        BY <1>1, <4>1, <4>2, <4>3
    <3>5. e = messages[k + 1].at - 1 /\ messages[k + 1].at \in 1 .. b
      BY <1>2, <1>3, <3>3
    <3> QED
      BY <1>1, <1>4, <2>1, <3>1, <3>4, <3>5
  <2>4. list[i + 1].http = "none"
    BY <2>1, <2>3
  <2> QED
    BY <2>1, <2>2, <2>4 DEF Last
<1>6. ASSUME i = e PROVE Last(list, i, fin)
  <2>1. CASE k < Len(messages)
    <3>1. k + 1 \in 1 .. Len(messages)
      BY <1>1, <2>1
    <3>2. messages[k + 1].at \in 1 .. b /\ list[messages[k + 1].at].http = kind
      BY <1>2, <3>1
    <3>3. i = messages[k + 1].at - 1
      BY <1>3, <1>6, <2>1
    <3>4. i + 1 = messages[k + 1].at
      BY <1>1, <3>2, <3>3
    <3> QED
      BY <3>2, <3>4 DEF Last
  <2>2. CASE ~ (k < Len(messages))
    <3>1. i = b
      BY <1>3, <1>6, <2>2
    <3>2. CASE b = Len(list)
      BY <3>1, <3>2 DEF Last
    <3>3. CASE b < Len(list)
      <4>1. i + 1 \in 1 .. Len(list) /\ ~ (i + 1 <= b)
        BY <1>1, <3>1, <3>3
      <4>2. FromFin(list[i + 1], fin)
        BY <4>1 DEF b
      <4> QED
        BY <4>2 DEF Last
    <3> QED
      BY <1>1, <3>2, <3>3
  <2> QED
    BY <2>1, <2>2
<1>7. i = e \/ i < e
  BY <1>1, <1>4
<1>8. i < e => i # e
  BY <1>1, <1>4
<1> QED
  BY <1>5, <1>6, <1>7, <1>8 DEF e

\* The length of a message is the one its bytes and its nodes give it.
LEMMA TotalLenIs ==
  ASSUME NEW list \in Seq(Nodes), NEW messages \in Seq(Messages), NEW kind, kind # "none",
         \A i \in 1 .. Len(list) : list[i].http \in {"none", kind},
         Begin(Starts(list, kind, Before(list)), messages), NEW fin,
         Visited(list, fin) = Before(list),
         \A i \in 1 .. Len(list) : i <= Before(list) <=> ~ FromFin(list[i], fin),
         NEW k \in 1 .. Len(messages),
         k \in 1 .. Len(Starts(list, kind, Visited(list, fin))),
         MeasuredAt(list, messages, k), messages[k].bytes < SeqWord
  PROVE  /\ TotalLen(list, kind, fin, k) = Length(list, messages, k)
         /\ Length(list, messages, k) \in {0, Header, messages[k].bytes}
<1> DEFINE m    == messages[k]
           e    == End(list, messages, k)
           len  == IF e = m.at THEN Header ELSE m.bytes
           ends == {i \in Message(list, kind, fin, k) : Last(list, i, fin) /\ list[i].nxt # 0}
<1>1. /\ Before(list) \in 0 .. Len(list) /\ Len(list) \in Nat
      /\ Visited(list, fin) \in 0 .. Before(list)
  BY BeforeType, LenProperties
<1>2. m.at \in 1 .. Before(list) /\ e \in m.at .. Before(list)
  BY Placed
<1>3. Message(list, kind, fin, k) = m.at .. e
  <2>1. PICK hi \in m.at .. e : /\ Message(list, kind, fin, k) = m.at .. hi
                                /\ Visited(list, fin) = Before(list) => hi = e
    BY <1>1, MessageIs
  <2> QED
    BY <2>1
<1>4. \A i \in m.at .. e : Last(list, i, fin) <=> i = e
  BY LastIs
<1>5. m.bytes \in Nat /\ m.bytes >= Header /\ Header \in Nat
  <2>1. m \in Messages
    BY ElementOfSeq
  <2> QED
    BY <2>1, ConversationAssumption DEF MeasuredAt, Messages
<1>6. list[m.at].seq \in Int
  <2>1. m.at \in 1 .. Len(list)
    BY <1>1, <1>2
  <2>2. list[m.at] \in Nodes
    BY <2>1, ElementOfSeq
  <2>3. list[m.at].seq \in 0 .. SeqWord - 1
    <3> HIDE DEF m
    <3> QED
      BY <2>2 DEF Nodes
  <2>4. 0 .. SeqWord - 1 \subseteq Int
    BY WordAssumption
  <2> QED
    BY <2>3, <2>4
<1>7. list[e].nxt = (list[m.at].seq + len) % SeqWord
  BY DEF MeasuredAt
<1>8. len \in 0 .. SeqWord - 1 /\ len \in Int
  <2>1. m.bytes < SeqWord
    OBVIOUS
  <2> HIDE DEF m, e
  <2> QED
    BY <1>5, <2>1, WordAssumption
<1>9. Length(list, messages, k) = IF list[e].nxt = 0 THEN 0 ELSE len
  BY <1>7 DEF Length
<1>10. Least(m.at .. e) = m.at
  <2>1. m.at \in m.at .. e /\ \A i \in m.at .. e : m.at <= i
    BY <1>1, <1>2
  <2>2. m.at .. e \subseteq Int
    OBVIOUS
  <2> QED
    BY <2>1, <2>2, LeastIs
<1>11. ends = IF list[e].nxt = 0 THEN {} ELSE {e}
  <2>1. e \in m.at .. e
    BY <1>1, <1>2
  <2> HIDE DEF m, e
  <2> QED
    BY <1>3, <1>4, <2>1
<1>12. TotalLen(list, kind, fin, k) =
         IF ends = {} THEN 0 ELSE (list[Greatest(ends)].nxt - list[m.at].seq) % SeqWord
  BY <1>3, <1>10 DEF TotalLen
<1>13. Length(list, messages, k) \in {0, Header, m.bytes}
  BY <1>9
<1>14. CASE list[e].nxt = 0
  BY <1>9, <1>11, <1>12, <1>13, <1>14
<1>15. CASE list[e].nxt # 0
  <2>1. Greatest({e}) = e
    <3>1. {e} \subseteq Int /\ e \in {e} /\ \A i \in {e} : i <= e
      BY <1>1, <1>2
    <3> DEFINE S == {e}
    <3>2. S \subseteq Int /\ e \in S /\ \A i \in S : i <= e
      BY <3>1
    <3> HIDE DEF S, e
    <3>3. Greatest(S) = e
      BY <3>2, GreatestIs
    <3> QED
      BY <3>3 DEF S
  <2>2. ends = {e} /\ ends # {}
    BY <1>11, <1>15
  <2> HIDE DEF ends
  <2>3. TotalLen(list, kind, fin, k) = (list[e].nxt - list[m.at].seq) % SeqWord
    BY <1>12, <2>1, <2>2
  <2> HIDE DEF m, e, len
  <2>4. (list[e].nxt - list[m.at].seq) % SeqWord = len % SeqWord
    <3>1. (((list[m.at].seq + len) % SeqWord) - list[m.at].seq) % SeqWord = len % SeqWord
      BY <1>6, <1>8, Distance
    <3> QED
      BY <1>7, <3>1
  <2>5. len % SeqWord = len
    BY <1>8, Cut
  <2>6. TotalLen(list, kind, fin, k) = len
    BY <2>3, <2>4, <2>5
  <2> QED
    BY <1>9, <1>13, <1>15, <2>6 DEF m
<1> QED
  BY <1>14, <1>15

\* No message is as long as the sequence space: a difference of two sequence
\* numbers cannot tell a longer one from a short one.
Short == /\ \A k \in DOMAIN asked    : asked[k].bytes < SeqWord
         /\ \A k \in DOMAIN answered : answered[k].bytes < SeqWord

\* A side in sequence has no such message.
LEMMA ShortAre == IInv /\ InSequence => Short
<1> SUFFICES ASSUME IInv, InSequence PROVE Short
  OBVIOUS
<1>1. /\ sent.src < SeqWord /\ Within(asked, sent.src) /\ sent.src \in Nat
      /\ sent.dst < SeqWord /\ Within(answered, sent.dst) /\ sent.dst \in Nat
  BY DEF InSequence, Plain, IInv, Ordered, TypeOK
<1>2. asked \in Seq(Messages) /\ answered \in Seq(Messages)
  BY DEF IInv, TypeOK
<1>3. /\ \A k \in DOMAIN asked : asked[k].bytes \in Nat
      /\ \A k \in DOMAIN answered : answered[k].bytes \in Nat
  <2>1. DOMAIN asked = 1 .. Len(asked) /\ DOMAIN answered = 1 .. Len(answered)
    BY <1>2, LenProperties
  <2>2. /\ \A k \in DOMAIN asked : asked[k] \in Messages
        /\ \A k \in DOMAIN answered : answered[k] \in Messages
    BY <1>2, <2>1, ElementOfSeq
  <2> QED
    BY <2>2 DEF Messages
<1> QED
  BY <1>1, <1>3, WordAssumption DEF Short, Within

\* What the extraction makes of either side where it visits all of it.
LEMMA ExactSides ==
  ASSUME TypeOK, Lists, Found, capture = "exact"
  PROVE  /\ src \in Seq(Nodes) /\ dst \in Seq(Nodes)
         /\ \A i \in 1 .. Len(src) : src[i].http \in {"none", "req"}
         /\ \A i \in 1 .. Len(dst) : dst[i].http \in {"none", "rsp"}
         /\ Begin(Starts(src, "req", Before(src)), asked)
         /\ Begin(Starts(dst, "rsp", Before(dst)), answered)
         /\ Visited(src, finTime) = Before(src) /\ Visited(dst, finTime) = Before(dst)
         /\ \A i \in 1 .. Len(src) : i <= Before(src) <=> ~ FromFin(src[i], finTime)
         /\ \A i \in 1 .. Len(dst) : i <= Before(dst) <=> ~ FromFin(dst[i], finTime)
<1>1. /\ src \in Seq(Nodes) /\ dst \in Seq(Nodes)
      /\ Listed(src, "req", now, closed) /\ Listed(dst, "rsp", now, closed)
  BY DEF TypeOK, Lists
<1>2. /\ \A i \in 1 .. Len(src) : src[i].http \in {"none", "req"}
      /\ \A i \in 1 .. Len(dst) : dst[i].http \in {"none", "rsp"}
  <2>1. DOMAIN src = 1 .. Len(src) /\ DOMAIN dst = 1 .. Len(dst)
    BY <1>1, LenProperties
  <2> QED
    BY <1>1, <2>1 DEF Listed
<1>3. /\ Begin(Starts(src, "req", Before(src)), asked)
      /\ Begin(Starts(dst, "rsp", Before(dst)), answered)
  BY DEF Found, requests, responses
<1>4. Visited(src, finTime) = Before(src) /\ Visited(dst, finTime) = Before(dst)
  BY Sides
<1>5. \A i \in 1 .. Len(src) : i <= Visited(src, finTime) <=> ~ FromFin(src[i], finTime)
  BY <1>1, VisitedSide
<1>6. \A i \in 1 .. Len(dst) : i <= Visited(dst, finTime) <=> ~ FromFin(dst[i], finTime)
  BY <1>1, VisitedSide
<1> QED
  BY <1>1, <1>2, <1>3, <1>4, <1>5, <1>6

\* The lengths of requests and of responses.
LEMMA ExactLengths ==
  ASSUME TypeOK, Lists, Found, Lengths, Short, capture = "exact"
  PROVE  /\ \A k \in 1 .. Len(asked) :
              TotalLen(src, "req", finTime, k) = Length(src, asked, k)
         /\ \A k \in 1 .. Len(answered) :
              /\ TotalLen(dst, "rsp", finTime, k) = Length(dst, answered, k)
              /\ Length(dst, answered, k) \in {0, Header, answered[k].bytes}
<1>1. /\ asked \in Seq(Messages) /\ answered \in Seq(Messages)
      /\ DOMAIN asked = 1 .. Len(asked) /\ DOMAIN answered = 1 .. Len(answered)
  BY LenProperties DEF TypeOK
<1>2. /\ Len(Starts(src, "req", Visited(src, finTime))) = Len(asked)
      /\ Len(Starts(dst, "rsp", Visited(dst, finTime))) = Len(answered)
  BY ExactSides DEF Begin
<1>3. ASSUME NEW k \in 1 .. Len(asked)
      PROVE  TotalLen(src, "req", finTime, k) = Length(src, asked, k)
  <2>1. MeasuredAt(src, asked, k)
    BY <1>1, MeasuredIs DEF Lengths
  <2>2. asked[k].bytes < SeqWord
    BY <1>1 DEF Short
  <2>3. k \in 1 .. Len(Starts(src, "req", Visited(src, finTime)))
    BY <1>2
  <2>4. "req" # "none"
    OBVIOUS
  <2>5. /\ src \in Seq(Nodes)
        /\ \A i \in 1 .. Len(src) : src[i].http \in {"none", "req"}
        /\ Begin(Starts(src, "req", Before(src)), asked)
        /\ Visited(src, finTime) = Before(src)
        /\ \A i \in 1 .. Len(src) : i <= Before(src) <=> ~ FromFin(src[i], finTime)
    BY ExactSides
  <2> QED
    BY <1>1, <2>1, <2>2, <2>3, <2>4, <2>5, TotalLenIs
<1>4. ASSUME NEW k \in 1 .. Len(answered)
      PROVE  /\ TotalLen(dst, "rsp", finTime, k) = Length(dst, answered, k)
             /\ Length(dst, answered, k) \in {0, Header, answered[k].bytes}
  <2>1. MeasuredAt(dst, answered, k)
    BY <1>1, MeasuredIs DEF Lengths
  <2>2. answered[k].bytes < SeqWord
    BY <1>1 DEF Short
  <2>3. k \in 1 .. Len(Starts(dst, "rsp", Visited(dst, finTime)))
    BY <1>2
  <2>4. "rsp" # "none"
    OBVIOUS
  <2>5. /\ dst \in Seq(Nodes)
        /\ \A i \in 1 .. Len(dst) : dst[i].http \in {"none", "rsp"}
        /\ Begin(Starts(dst, "rsp", Before(dst)), answered)
        /\ Visited(dst, finTime) = Before(dst)
        /\ \A i \in 1 .. Len(dst) : i <= Before(dst) <=> ~ FromFin(dst[i], finTime)
    BY ExactSides
  <2> QED
    BY <1>1, <2>1, <2>2, <2>3, <2>4, <2>5, TotalLenIs
<1> QED
  BY <1>3, <1>4

\* The pairs report the lengths of their messages.
LEMMA LengthsMatchHolds == IInv => LengthsMatch
<1> SUFFICES ASSUME IInv, capture = "exact", InSequence, NEW k \in DOMAIN whole
             PROVE  /\ whole[k].req_len = Length(src, asked, k)
                    /\ whole[k].rsp # 0 =>
                         /\ whole[k].rsp_len = Length(dst, answered, k)
                         /\ whole[k].rsp_len # 0 => whole[k].body = whole[k].rsp_len - Header
  BY InOrderAre DEF LengthsMatch
<1>0. Short
  BY ShortAre
<1>1. TypeOK /\ Lists /\ Found /\ Lengths /\ Answers /\ capture # "lossy" /\ capture # "coarse"
  BY DEF IInv
<1>2. Len(reqs) \in Nat /\ Len(rsps) \in Nat
  BY <1>1, StartTypes
<1>3. Len(reqs) = Len(asked) /\ Len(rsps) = Len(answered)
  BY <1>1, AllVisited DEF Found, Begin
<1>4. k \in 1 .. Len(reqs) /\ k \in 1 .. Len(asked)
  BY <1>2, <1>3, PairsAre
<1>5. /\ whole[k].req_len = TotalLen(src, "req", finTime, k)
      /\ whole[k].rsp = IF k <= Len(rsps) THEN rsps[k] ELSE 0
      /\ whole[k].rsp_len = IF k <= Len(rsps) THEN TotalLen(dst, "rsp", finTime, k) ELSE 0
      /\ whole[k].body =
           IF k <= Len(rsps) THEN BodyLen(dst[rsps[k]], whole[k].rsp_len) ELSE 0
  BY <1>2, <1>4, PairsAre
<1>6. whole[k].req_len = Length(src, asked, k)
  BY <1>0, <1>1, <1>4, <1>5, ExactLengths
<1>7. ASSUME whole[k].rsp # 0
      PROVE  /\ whole[k].rsp_len = Length(dst, answered, k)
             /\ whole[k].rsp_len # 0 => whole[k].body = whole[k].rsp_len - Header
  <2>1. k \in 1 .. Len(rsps) /\ k \in 1 .. Len(answered) /\ k <= Len(rsps)
    BY <1>2, <1>3, <1>4, <1>5, <1>7
  <2>2. /\ whole[k].rsp_len = Length(dst, answered, k)
        /\ whole[k].rsp_len \in {0, Header, answered[k].bytes}
    BY <1>0, <1>1, <1>5, <2>1, ExactLengths
  <2>3. dst[rsps[k]].hdlen = Header /\ dst[rsps[k]].dl = Header /\ answered[k].bytes >= Header
    <3>1. answered \in Seq(Messages)
      BY <1>1 DEF TypeOK
    <3>2. MeasuredAt(dst, answered, k)
      BY <1>1, <2>1, <3>1, MeasuredIs DEF Lengths
    <3>3. rsps[k] = answered[k].at
      BY <1>1, <2>1, Extracts
    <3> QED
      BY <3>2, <3>3 DEF MeasuredAt
  <2>4. answered[k].bytes \in Nat /\ answered[k].bytes < SeqWord /\ Header \in Nat
    <3>1. answered \in Seq(Messages)
      BY <1>1 DEF TypeOK
    <3>2. answered[k] \in Messages /\ DOMAIN answered = 1 .. Len(answered)
      BY <2>1, <3>1, ElementOfSeq, LenProperties
    <3> QED
      BY <1>0, <2>1, <3>2, ConversationAssumption DEF Messages, Short
  <2>5. ASSUME whole[k].rsp_len # 0
        PROVE  whole[k].body = whole[k].rsp_len - Header
    <3> DEFINE len == whole[k].rsp_len
    <3>1. len \in {Header, answered[k].bytes}
      BY <2>2, <2>5
    <3>2. whole[k].body = (len - Header) % SeqWord
      <4>1. ~ (dst[rsps[k]].dl + 1 < dst[rsps[k]].hdlen)
        BY <2>3, <2>4
      <4>2. whole[k].body = BodyLen(dst[rsps[k]], whole[k].rsp_len)
        BY <1>5, <2>1
      <4> QED
        BY <2>3, <2>5, <4>1, <4>2 DEF BodyLen
    <3> HIDE DEF len
    <3>3. len - Header \in 0 .. SeqWord - 1 /\ len - Header \in Int
      BY <2>3, <2>4, <3>1, WordAssumption
    <3>4. (len - Header) % SeqWord = len - Header
      BY <3>3, Cut
    <3> QED
      BY <3>2, <3>4 DEF len
  <2> QED
    BY <2>2, <2>5
<1> QED
  BY <1>6, <1>7

\* The theorem: in sequence the lengths hold, across the end of the sequence space too.
THEOREM LengthsExact == Spec => []LengthsMatch
BY Invariance, LengthsMatchHolds, PTL

\* The times of the last nodes of the messages of a side, and of all its nodes
\* from the first message on and before the FIN.
EndTimes(list, messages, kind) ==
  UNION {{list[i].time : i \in {j \in Message(list, kind, finTime, k) : Last(list, j, finTime)}} :
           k \in 1 .. Len(messages)}
AllTimes(list, messages) ==
  IF messages = <<>> THEN {}
  ELSE {list[i].time : i \in {j \in messages[1].at .. Len(list) : ~ list[j].fin}}

\* The latest of these is one of those.
LEMMA TimesSide ==
  ASSUME NEW list \in Seq(Nodes), NEW messages \in Seq(Messages), NEW kind, kind # "none",
         NEW t, NEW over, Listed(list, kind, t, over),
         Begin(Starts(list, kind, Before(list)), messages),
         Visited(list, finTime) = Before(list),
         \A i \in 1 .. Len(list) : i <= Before(list) <=> ~ FromFin(list[i], finTime)
  PROVE  /\ EndTimes(list, messages, kind) \subseteq AllTimes(list, messages)
         /\ AllTimes(list, messages) \subseteq Nat
         /\ messages = <<>> => AllTimes(list, messages) = {}
         /\ messages # <<>> => \E x \in EndTimes(list, messages, kind) :
                                 \A y \in AllTimes(list, messages) : y <= x
<1> DEFINE b     == Before(list)
           End1(k) == End(list, messages, k)
           Of(k) == {list[i].time : i \in {j \in Message(list, kind, finTime, k) :
                                             Last(list, j, finTime)}}
<1>1. /\ Len(list) \in Nat /\ b \in 0 .. Len(list) /\ Len(messages) \in Nat
      /\ DOMAIN list = 1 .. Len(list)
  BY BeforeType, LenProperties
<1>2. /\ \A k \in 1 .. Len(messages) : messages[k].at \in 1 .. b
      /\ \A k \in 1 .. Len(messages) : End1(k) \in messages[k].at .. b
      /\ \A j, k \in 1 .. Len(messages) : j < k => messages[j].at < messages[k].at
  BY Placed
<1>3. \A i \in 1 .. Len(list) : i <= b <=> ~ list[i].fin
  BY BeforeIs
<1>4. /\ \A i \in 1 .. Len(list) : list[i].http \in {"none", kind}
      /\ \A i, j \in 1 .. Len(list) : i <= j => list[i].time <= list[j].time
  BY <1>1 DEF Listed
<1>5. \A i \in 1 .. Len(list) : list[i].time \in Nat
  <2>1. \A i \in 1 .. Len(list) : list[i] \in Nodes
    BY ElementOfSeq
  <2> QED
    BY <2>1 DEF Nodes
<1>6. ASSUME NEW k \in 1 .. Len(messages) PROVE Of(k) = {list[End1(k)].time}
  <2>1. /\ Len(Starts(list, kind, Visited(list, finTime))) = Len(messages)
        /\ Visited(list, finTime) \in 0 .. Before(list)
    BY <1>1 DEF Begin
  <2>2. k \in 1 .. Len(Starts(list, kind, Visited(list, finTime)))
    BY <2>1
  <2>3. Message(list, kind, finTime, k) = messages[k].at .. End1(k)
    <3>1. PICK hi \in messages[k].at .. End(list, messages, k) :
            /\ Message(list, kind, finTime, k) = messages[k].at .. hi
            /\ Visited(list, finTime) = Before(list) => hi = End(list, messages, k)
      BY <2>1, <2>2, MessageIs
    <3> QED
      BY <3>1
  <2>4. \A i \in messages[k].at .. End1(k) : Last(list, i, finTime) <=> i = End1(k)
    BY <1>4, LastIs
  <2>5. End1(k) \in messages[k].at .. End1(k)
    BY <1>1, <1>2
  <2> HIDE DEF End1
  <2>6. {j \in Message(list, kind, finTime, k) : Last(list, j, finTime)} = {End1(k)}
    BY <2>3, <2>4, <2>5
  <2> QED
    BY <2>6
<1>7. EndTimes(list, messages, kind) = UNION {Of(k) : k \in 1 .. Len(messages)}
  BY DEF EndTimes
<1> HIDE DEF Of
<1>8. EndTimes(list, messages, kind) = {list[End1(k)].time : k \in 1 .. Len(messages)}
  <2> HIDE DEF End1
  <2> QED
    BY <1>6, <1>7
<1> HIDE DEF b, End1
<1>9. CASE messages = <<>>
  <2>1. Len(messages) = 0
    BY <1>9
  <2>2. AllTimes(list, messages) = {}
    BY <1>9 DEF AllTimes
  <2>3. EndTimes(list, messages, kind) = {}
    <3>1. 1 .. Len(messages) = {}
      BY <2>1
    <3> QED
      BY <1>8, <3>1
  <2> QED
    BY <1>9, <2>2, <2>3
<1>10. CASE messages # <<>>
  <2> DEFINE n  == Len(messages)
             at == messages[1].at
             F  == {j \in at .. Len(list) : ~ list[j].fin}
  <2>1. n \in Nat /\ n # 0
    BY <1>10, EmptyIs
  <2>2. 1 \in 1 .. n /\ n \in 1 .. n
    BY <2>1
  <2>3. at \in 1 .. b /\ End1(n) = b /\ b \in 1 .. Len(list)
    <3>1. at \in 1 .. b
      BY <1>2, <2>2
    <3>2. End1(n) = b
      BY <2>1 DEF End, End1, b
    <3> QED
      BY <1>1, <3>1, <3>2
  <2>4. AllTimes(list, messages) = {list[i].time : i \in F}
    BY <1>10 DEF AllTimes
  <2>5. \A i \in F : i \in 1 .. Len(list) /\ i <= b
    <3>1. \A i \in F : i \in 1 .. Len(list) /\ ~ list[i].fin
      BY <1>1, <2>3
    <3> QED
      BY <1>3, <3>1
  <2>6. \A k \in 1 .. n : End1(k) \in F
    <3> SUFFICES ASSUME NEW k \in 1 .. n PROVE End1(k) \in F
      OBVIOUS
    <3>1. at <= messages[k].at
      <4>1. k = 1 \/ 1 < k
        BY <2>1
      <4>2. 1 < k => at < messages[k].at
        BY <1>2, <2>2
      <4>3. messages[k].at \in 1 .. b
        BY <1>2
      <4> QED
        BY <1>1, <2>3, <4>1, <4>2, <4>3
    <3>2. End1(k) \in messages[k].at .. b /\ messages[k].at \in 1 .. b
      BY <1>2
    <3>3. End1(k) \in at .. Len(list) /\ End1(k) \in 1 .. Len(list) /\ End1(k) <= b
      <4> HIDE DEF at
      <4> QED
        BY <1>1, <2>3, <3>1, <3>2
    <3>4. ~ list[End1(k)].fin
      BY <1>3, <3>3
    <3> QED
      BY <3>3, <3>4
  <2>7. b \in F
    BY <2>2, <2>3, <2>6
  <2> HIDE DEF F
  <2>8. EndTimes(list, messages, kind) \subseteq AllTimes(list, messages)
    BY <1>8, <2>4, <2>6
  <2>9. AllTimes(list, messages) \subseteq Nat
    BY <1>5, <2>4, <2>5
  <2>10. list[b].time \in EndTimes(list, messages, kind)
    BY <1>8, <2>2, <2>3
  <2>11. \A y \in AllTimes(list, messages) : y <= list[b].time
    BY <1>4, <2>3, <2>4, <2>5
  <2> QED
    BY <1>10, <2>8, <2>9, <2>10, <2>11
<1> QED
  BY <1>9, <1>10

\* Two sets, one with the greatest number of both, have the same greatest number.
LEMMA SameGreatest ==
  ASSUME NEW S, NEW T, S \subseteq T, T \subseteq Nat, NEW x \in S, \A y \in T : y <= x
  PROVE  Greatest(S) = Greatest(T)
<1>1. S \subseteq Int /\ T \subseteq Int /\ x \in T /\ \A y \in S : y <= x
  OBVIOUS
<1>2. Greatest(S) = x
  BY <1>1, GreatestIs
<1>3. Greatest(T) = x
  BY <1>1, GreatestIs
<1> QED
  BY <1>2, <1>3

\* The last byte time is that of the latest packet of a message.
LEMMA LastByteIsLastHolds == IInv => LastByteIsLast
<1> SUFFICES ASSUME IInv, capture = "exact", InSequence PROVE LastByteIsLast
  BY DEF LastByteIsLast
<1> DEFINE ends1 == EndTimes(src, asked, "req")
           ends2 == EndTimes(dst, answered, "rsp")
           all1  == AllTimes(src, asked)
           all2  == AllTimes(dst, answered)
<1>1. TypeOK /\ Lists /\ Found /\ Lengths /\ Answers /\ capture # "lossy" /\ capture # "coarse"
  BY DEF IInv
<1>2. /\ asked \in Seq(Messages) /\ answered \in Seq(Messages)
      /\ Len(asked) \in Nat /\ Len(answered) \in Nat /\ Len(answered) <= Len(asked)
  BY <1>1, Extracts
<1>3. /\ Len(Starts(src, "req", Visited(src, finTime))) = Len(asked)
      /\ Len(Starts(dst, "rsp", Visited(dst, finTime))) = Len(answered)
  BY <1>1, ExactSides DEF Begin
<1>4. LastByte(src, dst) = IF ends1 \cup ends2 = {} THEN 0 ELSE Greatest(ends1 \cup ends2)
  <2> DEFINE Of1(k) == {src[i].time : i \in {j \in Message(src, "req", finTime, k) :
                                             Last(src, j, finTime)}}
             Of2(k) == {dst[i].time : i \in {j \in Message(dst, "rsp", finTime, k) :
                                             Last(dst, j, finTime)}}
             n1 == Len(Starts(src, "req", Visited(src, finTime)))
             n2 == Len(Starts(dst, "rsp", Visited(dst, finTime)))
             found1 == UNION {Of1(k) : k \in 1 .. n1}
             found2 == UNION {Of2(k) : k \in {i \in 1 .. n2 : i <= n1}}
  <2>1. LastByte(src, dst) = IF found1 \cup found2 = {} THEN 0 ELSE Greatest(found1 \cup found2)
    BY Zenon DEF LastByte, finTime
  <2>2. ends1 = UNION {Of1(k) : k \in 1 .. Len(asked)}
    BY DEF EndTimes
  <2>3. ends2 = UNION {Of2(k) : k \in 1 .. Len(answered)}
    BY DEF EndTimes
  <2>4. n1 = Len(asked) /\ n2 = Len(answered)
    BY <1>3
  <2> HIDE DEF Of1, Of2, n1, n2, ends1, ends2
  <2>5. found1 = ends1
    <3>1. \A x : x \in ends1 <=> \E k \in 1 .. Len(asked) : x \in Of1(k)
      BY <2>2
    <3>2. \A x : x \in found1 <=> \E k \in 1 .. n1 : x \in Of1(k)
      OBVIOUS
    <3> HIDE DEF found1
    <3> QED
      BY <2>4, <3>1, <3>2
  <2>6. found2 = ends2
    <3>1. \A x : x \in ends2 <=> \E k \in 1 .. Len(answered) : x \in Of2(k)
      BY <2>3
    <3>2. \A x : x \in found2 <=> \E k \in 1 .. n2 : k <= n1 /\ x \in Of2(k)
      OBVIOUS
    <3>3. \A k \in 1 .. n2 : k <= n1
      BY <1>2, <2>4
    <3> HIDE DEF found2
    <3> QED
      BY <2>4, <3>1, <3>2, <3>3
  <2> HIDE DEF found1, found2
  <2> QED
    BY <2>1, <2>5, <2>6
<1>5. LastByteIsLast <=>
        LastByte(src, dst) = IF all1 \cup all2 = {} THEN 0 ELSE Greatest(all1 \cup all2)
  <2>1. order.src.list = src /\ order.dst.list = dst
    BY InOrderAre
  <2> QED
    BY <2>1 DEF LastByteIsLast, AllTimes
<1>6. /\ ends1 \subseteq all1 /\ all1 \subseteq Nat
      /\ asked = <<>> => all1 = {}
      /\ asked # <<>> => \E x \in ends1 : \A y \in all1 : y <= x
  <2>1. "req" # "none" /\ Listed(src, "req", now, closed)
    BY <1>1 DEF Lists
  <2> QED
    BY <1>1, <1>2, <2>1, ExactSides, TimesSide
<1>7. /\ ends2 \subseteq all2 /\ all2 \subseteq Nat
      /\ answered = <<>> => all2 = {}
      /\ answered # <<>> => \E x \in ends2 : \A y \in all2 : y <= x
  <2>1. "rsp" # "none" /\ Listed(dst, "rsp", now, closed)
    BY <1>1 DEF Lists
  <2> QED
    BY <1>1, <1>2, <2>1, ExactSides, TimesSide
<1> HIDE DEF ends1, ends2, all1, all2
<1>8. CASE asked = <<>> /\ answered = <<>>
  <2>1. all1 \cup all2 = {} /\ ends1 \cup ends2 = {}
    BY <1>6, <1>7, <1>8
  <2> QED
    BY <1>4, <1>5, <2>1
<1>9. CASE ~ (asked = <<>> /\ answered = <<>>)
  <2>1. \E x \in ends1 \cup ends2 : \A y \in all1 \cup all2 : y <= x
    <3>1. CASE answered = <<>>
      <4>1. PICK x \in ends1 : \A y \in all1 : y <= x
        BY <1>6, <1>9, <3>1
      <4> QED
        BY <1>7, <3>1, <4>1
    <3>2. CASE asked = <<>>
      <4>1. PICK x \in ends2 : \A y \in all2 : y <= x
        BY <1>7, <1>9, <3>2
      <4> QED
        BY <1>6, <3>2, <4>1
    <3>3. CASE asked # <<>> /\ answered # <<>>
      <4>1. PICK x \in ends1 : \A y \in all1 : y <= x
        BY <1>6, <3>3
      <4>2. PICK z \in ends2 : \A y \in all2 : y <= z
        BY <1>7, <3>3
      <4>3. x \in Nat /\ z \in Nat
        BY <1>6, <1>7
      <4>4. CASE x <= z
        BY <1>6, <4>1, <4>2, <4>3, <4>4, <1>7
      <4>5. CASE z <= x
        BY <1>6, <4>1, <4>2, <4>3, <4>5, <1>7
      <4> QED
        BY <4>3, <4>4, <4>5
    <3> QED
      BY <3>1, <3>2, <3>3
  <2>2. PICK x \in ends1 \cup ends2 : \A y \in all1 \cup all2 : y <= x
    BY <2>1
  <2>3. /\ ends1 \cup ends2 \subseteq all1 \cup all2 /\ all1 \cup all2 \subseteq Nat
        /\ ends1 \cup ends2 # {} /\ all1 \cup all2 # {}
    BY <1>6, <1>7, <2>2
  <2>4. Greatest(ends1 \cup ends2) = Greatest(all1 \cup all2)
    BY <2>2, <2>3, SameGreatest
  <2> QED
    BY <1>4, <1>5, <2>3, <2>4
<1> QED
  BY <1>8, <1>9

\* The theorem: the last byte time of the flow is that of its last packet.
THEOREM LastByteExact == Spec => []LastByteIsLast
BY Invariance, LastByteIsLastHolds, PTL

=============================================================================
