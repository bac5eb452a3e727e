-------------------------- MODULE PreprocessProofs --------------------------
(***************************************************************************)
(* Theorems about Preprocess for payloads of any length put together from  *)
(* any pieces: what a segment is taken for and where its header ends does  *)
(* not depend on what follows the header, the packet holds the header, the *)
(* whole header and nothing else, the parser takes it for what it was      *)
(* recognised as, and what is written of it is what its lines say.         *)
(***************************************************************************)
EXTENDS Preprocess, SequenceTheorems, WellFoundedInduction, TLAPS

\* The least element of a set of natural numbers is in it and is its least.
LEMMA LeastProperties ==
  ASSUME NEW S, S \subseteq Nat, S # {}
  PROVE  Least(S) \in S /\ \A j \in S : Least(S) <= j
<1>1. PICK x \in S : \A y \in S : ~ (<<y, x>> \in OpToRel(<, Nat))
  BY WFMin, NatLessThanWellFounded
<1>2. ASSUME NEW y \in S PROVE x <= y
  <2>1. x \in Nat /\ y \in Nat
    OBVIOUS
  <2>2. ~ (y < x)
    <3>1. <<y, x>> \in Nat \X Nat
      BY <2>1
    <3>2. y < x => <<y, x>> \in OpToRel(<, Nat)
      BY <3>1 DEF OpToRel
    <3> QED
      BY <1>1, <3>2
  <2> QED
    BY <2>1, <2>2
<1> QED
  BY <1>2 DEF Least

\* A larger set has the same least element if what it adds is greater.
LEMMA LeastKept ==
  ASSUME NEW S, NEW T, S \subseteq T, T \subseteq Nat, S # {},
         \A i \in S : \A j \in T \ S : i < j
  PROVE  Least(T) = Least(S)
<1>1. Least(S) \in S /\ \A j \in S : Least(S) <= j
  BY LeastProperties
<1>2. Least(T) \in T /\ \A j \in T : Least(T) <= j
  BY LeastProperties
<1> HIDE DEF Least
<1>3. Least(S) \in Nat /\ Least(T) \in Nat
  BY <1>1, <1>2
<1>4. Least(T) <= Least(S)
  BY <1>1, <1>2
<1>5. CASE Least(T) \in S
  BY <1>1, <1>3, <1>4, <1>5
<1>6. CASE Least(T) \notin S
  BY <1>1, <1>2, <1>3, <1>4, <1>6
<1> QED
  BY <1>5, <1>6

\* The symbols of a text stay where they are when another one is appended.
LEMMA Prefix ==
  ASSUME NEW t \in Seq(Atoms), NEW u \in Seq(Atoms)
  PROVE  /\ t \o u \in Seq(Atoms)
         /\ Len(t) \in Nat /\ Len(u) \in Nat /\ Len(t \o u) = Len(t) + Len(u)
         /\ DOMAIN t = 1 .. Len(t) /\ DOMAIN (t \o u) = 1 .. Len(t) + Len(u)
         /\ \A i \in 1 .. Len(t) : (t \o u)[i] = t[i]
BY ConcatProperties, LenProperties

\* The end of a header is a position of the text after the first.
LEMMA HeaderEnd ==
  ASSUME NEW S, NEW t \in Seq(S)
  PROVE  /\ Ends(t) \subseteq 1 .. Len(t)
         /\ find_header_end(t) = 0 <=> Ends(t) = {}
         /\ Ends(t) # {} => /\ find_header_end(t) \in Ends(t)
                            /\ \A j \in Ends(t) : find_header_end(t) <= j
<1>1. DOMAIN t = 1 .. Len(t) /\ Len(t) \in Nat
  BY LenProperties
<1>2. Ends(t) \subseteq 1 .. Len(t) /\ Ends(t) \subseteq Nat
  BY <1>1 DEF Ends
<1>3. CASE Ends(t) = {}
  BY <1>2, <1>3 DEF find_header_end
<1>4. CASE Ends(t) # {}
  <2>1. Least(Ends(t)) \in Ends(t) /\ \A j \in Ends(t) : Least(Ends(t)) <= j
    BY <1>2, <1>4, LeastProperties
  <2>2. find_header_end(t) = Least(Ends(t))
    BY <1>4 DEF find_header_end
  <2>3. find_header_end(t) # 0
    BY <1>2, <2>1, <2>2
  <2> QED
    BY <1>2, <1>4, <2>1, <2>2, <2>3
<1> QED
  BY <1>3, <1>4

\* Where two texts agree, they have the same blank lines.
LEMMA SameEnds ==
  ASSUME NEW t, DOMAIN t = 1 .. Len(t), Len(t) \in Nat,
         NEW v, DOMAIN v = 1 .. Len(v), Len(v) \in Nat,
         NEW n \in Nat, n <= Len(t), n <= Len(v), \A i \in 1 .. n : v[i] = t[i],
         NEW j \in 1 .. n
  PROVE  j \in Ends(t) <=> j \in Ends(v)
<1>1. \A i \in 1 .. n : i \in DOMAIN t /\ i \in DOMAIN v
  OBVIOUS
<1>2. ASSUME NEW i \in 1 .. n PROVE Blank(t, i, j) <=> Blank(v, i, j)
  <2>1. v[i] = t[i] /\ v[j] = t[j]
    OBVIOUS
  <2>2. j = i + 2 => v[i + 1] = t[i + 1]
    <3>1. j = i + 2 => i + 1 \in 1 .. n
      OBVIOUS
    <3> QED
      BY <3>1
  <2> QED
    BY <2>1, <2>2 DEF Blank
<1>3. /\ \A i \in DOMAIN t : Blank(t, i, j) => i \in 1 .. n
      /\ \A i \in DOMAIN v : Blank(v, i, j) => i \in 1 .. n
  <2>1. \A i \in Nat : i >= 1 /\ (j = i + 1 \/ j = i + 2) => i \in 1 .. n
    OBVIOUS
  <2> QED
    BY <2>1 DEF Blank
<1> QED
  BY <1>1, <1>2, <1>3 DEF Ends

\* find_header_end does not look at what follows the header.
LEMMA HeaderEndKept ==
  ASSUME NEW t \in Seq(Atoms), NEW u \in Seq(Atoms), find_header_end(t) # 0
  PROVE  find_header_end(t \o u) = find_header_end(t)
<1>1. Ends(t) # {} /\ Ends(t) \subseteq 1 .. Len(t)
  BY HeaderEnd
<1>2. ASSUME NEW j \in 1 .. Len(t) PROVE j \in Ends(t) <=> j \in Ends(t \o u)
  <2> DEFINE v == t \o u
             n == Len(t)
  <2>1. /\ n \in Nat /\ Len(t) \in Nat /\ n <= Len(t) /\ n <= Len(v) /\ Len(v) \in Nat
        /\ DOMAIN t = 1 .. Len(t) /\ DOMAIN v = 1 .. Len(v)
        /\ \A i \in 1 .. n : v[i] = t[i]
    BY Prefix
  <2>2. j \in 1 .. n
    OBVIOUS
  <2> HIDE DEF v, n
  <2>3. j \in Ends(t) <=> j \in Ends(v)
    BY <2>1, <2>2, SameEnds
  <2> QED
    BY <2>3 DEF v
<1>3. Ends(t \o u) \subseteq 1 .. Len(t) + Len(u)
  BY Prefix, HeaderEnd
<1>4. Ends(t) \subseteq Ends(t \o u)
  BY <1>1, <1>2
<1>5. ASSUME NEW i \in Ends(t), NEW j \in Ends(t \o u) \ Ends(t) PROVE i < j
  <2>1. j \notin 1 .. Len(t)
    BY <1>2, <1>5
  <2> QED
    BY <1>1, <1>3, <2>1, Prefix
<1>6. Ends(t \o u) \subseteq Nat
  BY <1>3, Prefix
<1>7. Least(Ends(t \o u)) = Least(Ends(t))
  BY <1>1, <1>4, <1>5, <1>6, LeastKept
<1> QED
  BY <1>1, <1>4, <1>7 DEF find_header_end

\* Where the method of a text would begin.
DataAt(t) == CASE t[1] = "M-" -> 2
               [] 2 < Len(t) + 1 /\ t[1] = "CR" /\ t[2] = "LF" -> 3
               [] OTHER -> 1
SpaceAt(t, data) == Least({i \in data .. Len(t) : t[i] = "SP"} \cup {Len(t) + 1})

\* http_request_method in terms of these two positions.
LEMMA MethodAt ==
  ASSUME NEW t \in Seq(Atoms), t # <<>>
  PROVE  /\ http_request_method(t, 1, Len(t) + 1)
              = IF SpaceAt(t, DataAt(t)) = DataAt(t) + 1 /\ t[DataAt(t)] \in Methods
                THEN t[DataAt(t)] ELSE "NONE"
         /\ Len(t) \in Nat \ {0} /\ DataAt(t) \in 1 .. 3 /\ DataAt(t) <= Len(t) + 1
         /\ SpaceAt(t, DataAt(t)) \in
              {i \in DataAt(t) .. Len(t) : t[i] = "SP"} \cup {Len(t) + 1}
<1>1. Len(t) \in Nat \ {0} /\ Len(t) + 1 - 1 = Len(t) /\ 1 + 1 = 2 /\ 1 + 2 = 3
  BY LenProperties, EmptySeq
<1>2. DataAt(t) \in 1 .. 3 /\ DataAt(t) <= Len(t) + 1
  BY <1>1 DEF DataAt
<1>3. SpaceAt(t, DataAt(t)) \in {i \in DataAt(t) .. Len(t) : t[i] = "SP"} \cup {Len(t) + 1}
  <2> DEFINE S == {i \in DataAt(t) .. Len(t) : t[i] = "SP"} \cup {Len(t) + 1}
  <2>1. S \subseteq Nat /\ S # {}
    BY <1>1, <1>2
  <2> QED
    BY <2>1, LeastProperties DEF SpaceAt
<1>4. http_request_method(t, 1, Len(t) + 1)
        = IF SpaceAt(t, DataAt(t)) = DataAt(t) + 1 /\ t[DataAt(t)] \in Methods
          THEN t[DataAt(t)] ELSE "NONE"
  BY <1>1 DEF http_request_method, DataAt, SpaceAt
<1> QED
  BY <1>1, <1>2, <1>3, <1>4

\* A recognised text with a whole header has a space behind its method.
LEMMA SpaceFollows ==
  ASSUME NEW t \in Seq(Atoms), t # <<>>, find_header_end(t) # 0,
         http_request_method(t, 1, Len(t) + 1) # "NONE"
  PROVE  /\ DataAt(t) + 1 \in 1 .. Len(t) /\ t[DataAt(t) + 1] = "SP"
         /\ t[DataAt(t)] \in Methods
<1> DEFINE data == DataAt(t)
<1>1. /\ SpaceAt(t, data) = data + 1 /\ t[data] \in Methods
      /\ Len(t) \in Nat \ {0} /\ data \in 1 .. 3 /\ data <= Len(t) + 1
      /\ SpaceAt(t, data) \in {i \in data .. Len(t) : t[i] = "SP"} \cup {Len(t) + 1}
  BY MethodAt
<1>2. CASE data + 1 # Len(t) + 1
  BY <1>1, <1>2
<1>3. CASE data + 1 = Len(t) + 1
  <2>1. data = Len(t)
    BY <1>1, <1>3
  <2>2. PICK i \in 1 .. Len(t), j \in 1 .. Len(t) : Blank(t, i, j)
    <3>1. Ends(t) # {} /\ DOMAIN t = 1 .. Len(t)
      BY HeaderEnd, LenProperties
    <3> QED
      BY <3>1 DEF Ends
  <2>3. t[i] = "LF" /\ t[j] = "LF" /\ i # j
    BY <2>2 DEF Blank
  <2>4. i # data /\ j # data
    BY <1>1, <2>3 DEF Methods
  <2>5. i < Len(t) /\ j < Len(t)
    BY <2>1, <2>4
  <2>6. CASE data = 1
    BY <2>1, <2>5, <2>6
  <2>7. CASE data = 2
    <3>1. i = 1 /\ j = 1
      BY <2>1, <2>5, <2>7
    <3> QED
      BY <2>3, <3>1
  <2>8. CASE data = 3
    <3>1. t[1] = "CR"
      BY <2>8 DEF DataAt
    <3>2. i = 2 /\ j = 2
      BY <2>1, <2>3, <2>5, <2>8, <3>1
    <3> QED
      BY <2>3, <3>2
  <2> QED
    BY <1>1, <2>6, <2>7, <2>8
<1> QED
  BY <1>2, <1>3

\* http_request_method does not look at what follows a whole header either.
LEMMA MethodKept ==
  ASSUME NEW t \in Seq(Atoms), NEW u \in Seq(Atoms), t # <<>>, find_header_end(t) # 0,
         http_request_method(t, 1, Len(t) + 1) # "NONE"
  PROVE  http_request_method(t \o u, 1, Len(t \o u) + 1)
           = http_request_method(t, 1, Len(t) + 1)
<1> DEFINE v == t \o u
           data == DataAt(t)
<1>1. /\ v \in Seq(Atoms) /\ Len(v) = Len(t) + Len(u) /\ Len(u) \in Nat
      /\ \A i \in 1 .. Len(t) : v[i] = t[i]
  BY Prefix
<1>2. /\ data + 1 \in 1 .. Len(t) /\ t[data + 1] = "SP" /\ t[data] \in Methods
      /\ Len(t) \in Nat \ {0} /\ data \in 1 .. 3
  BY SpaceFollows, MethodAt
<1> HIDE DEF v
<1>3. v # <<>> /\ Len(v) >= Len(t)
  BY <1>1, <1>2, EmptySeq, LenProperties
<1>4. 1 \in 1 .. Len(t) /\ 2 \in 1 .. Len(t)
  BY <1>2
<1>5. DataAt(v) = data
  <2>1. v[1] = t[1] /\ v[2] = t[2] /\ 2 < Len(t) + 1 /\ 2 < Len(v) + 1
    BY <1>1, <1>2, <1>3, <1>4
  <2> QED
    BY <2>1 DEF DataAt
<1>6. data \in 1 .. Len(t) /\ v[data] = t[data] /\ v[data + 1] = "SP"
  <2>1. data \in 1 .. Len(t)
    BY <1>2
  <2> QED
    BY <1>1, <1>2, <2>1
<1>7. SpaceAt(v, data) = data + 1
  <2> DEFINE S == {i \in data .. Len(v) : v[i] = "SP"} \cup {Len(v) + 1}
  <2>1. data + 1 \in S /\ S \subseteq Nat
    BY <1>1, <1>2, <1>3, <1>6
  <2>2. Least(S) \in S /\ \A j \in S : Least(S) <= j
    BY <2>1, LeastProperties
  <2>3. data \notin S
    <3>1. v[data] # "SP"
      BY <1>2, <1>6 DEF Methods
    <3>2. data # Len(v) + 1
      BY <1>2, <1>3, <1>1
    <3> QED
      BY <3>1, <3>2
  <2>4. \A j \in S : j >= data
    BY <1>1, <1>2, <1>3
  <2>5. Least(S) \in Nat /\ Least(S) >= data /\ Least(S) <= data + 1 /\ Least(S) # data
    BY <2>1, <2>2, <2>3, <2>4
  <2> HIDE DEF S
  <2>6. Least(S) = data + 1
    BY <1>2, <2>5
  <2> QED
    BY <2>6 DEF SpaceAt, S
<1>8. http_request_method(v, 1, Len(v) + 1) = t[data]
  BY <1>1, <1>2, <1>3, <1>5, <1>6, <1>7, MethodAt
<1>9. http_request_method(t, 1, Len(t) + 1) = t[data]
  BY MethodAt
<1> QED
  BY <1>8, <1>9 DEF v

\* A segment keeps what it was taken for when its body grows.
LEMMA RecognitionKept ==
  ASSUME NEW t \in Seq(Atoms), NEW u \in Seq(Atoms), t # <<>>
  PROVE  /\ IsRequest(t) # 0 => IsRequest(t \o u) = IsRequest(t)
         /\ IsResponse(t) # 0 => IsResponse(t \o u) = IsResponse(t)
<1>1. ASSUME IsRequest(t) # 0 PROVE IsRequest(t \o u) = IsRequest(t)
  BY <1>1, MethodKept, HeaderEndKept DEF IsRequest
<1>2. ASSUME IsResponse(t) # 0 PROVE IsResponse(t \o u) = IsResponse(t)
  <2>1. 1 \in 1 .. Len(t)
    BY LenProperties, EmptySeq
  <2>2. (t \o u)[1] = t[1]
    BY <2>1, Prefix
  <2> QED
    BY <1>2, <2>2, HeaderEndKept DEF IsResponse, http_response_version
<1> QED
  BY <1>1, <1>2

\* Where a text has no line of one character, its header ends at the first blank line.
LEMMA BlankLine ==
  ASSUME NEW t \in Seq(Atoms), NoShortLine(t)
  PROVE  Ends(t) = {n \in 1 .. Len(t) : EndsBlank(SubSeq(t, 1, n))}
<1>1. DOMAIN t = 1 .. Len(t) /\ Len(t) \in Nat
  BY LenProperties
<1> SUFFICES ASSUME NEW n \in 1 .. Len(t)
             PROVE  n \in Ends(t) <=> EndsBlank(SubSeq(t, 1, n))
  BY <1>1 DEF Ends
<1>2. n \in Nat /\ n >= 1 /\ n <= Len(t)
  BY <1>1
<1>3. /\ Len(SubSeq(t, 1, n)) = n
      /\ \A i \in 1 .. n : SubSeq(t, 1, n)[i] = t[i]
  <2>1. \A i \in 1 .. n : t[i] \in Atoms
    BY <1>1, <1>2, ElementOfSeq
  <2> QED
    BY <1>2, <2>1, SubSeqProperties
<1>4. EndsBlank(SubSeq(t, 1, n)) <=>
        \/ n > 1 /\ t[n - 1] = "LF" /\ t[n] = "LF"
        \/ n > 2 /\ t[n - 2] = "LF" /\ t[n - 1] = "CR" /\ t[n] = "LF"
  <2>1. n \in 1 .. n /\ (n > 1 => n - 1 \in 1 .. n) /\ (n > 2 => n - 2 \in 1 .. n)
    BY <1>2
  <2> QED
    BY <1>3, <2>1 DEF EndsBlank
<1>5. ASSUME n \in Ends(t) PROVE EndsBlank(SubSeq(t, 1, n))
  <2>1. PICK i \in 1 .. Len(t) : Blank(t, i, n)
    BY <1>1, <1>5 DEF Ends
  <2>2. CASE n = i + 1
    <3>1. i = n - 1 /\ n > 1
      BY <1>2, <2>2
    <3> QED
      BY <1>4, <2>1, <3>1 DEF Blank
  <2>3. CASE n = i + 2
    <3>1. i = n - 2 /\ i + 1 = n - 1 /\ n > 2
      BY <1>2, <2>3
    <3>2. t[n - 2] = "LF" /\ t[n] = "LF" /\ t[n - 1] \in Chars \ {"LF"}
      BY <2>1, <2>3, <3>1 DEF Blank
    <3>3. n - 1 \in 2 .. Len(t) - 1 /\ n - 1 - 1 = n - 2 /\ n - 1 + 1 = n
      BY <1>2, <3>1
    <3>4. t[n - 1] \notin {"SP", "NUL", "char"}
      BY <3>2, <3>3 DEF NoShortLine
    <3>5. t[n - 1] = "CR"
      BY <3>2, <3>4 DEF Chars
    <3> QED
      BY <1>4, <3>1, <3>2, <3>5
  <2> QED
    BY <2>1, <2>2, <2>3 DEF Blank
<1>6. ASSUME EndsBlank(SubSeq(t, 1, n)) PROVE n \in Ends(t)
  <2>1. CASE n > 1 /\ t[n - 1] = "LF" /\ t[n] = "LF"
    <3>1. n - 1 \in 1 .. Len(t) /\ n = n - 1 + 1
      BY <1>2, <2>1
    <3>2. Blank(t, n - 1, n)
      BY <2>1, <3>1 DEF Blank
    <3> QED
      BY <1>1, <3>1, <3>2 DEF Ends
  <2>2. CASE n > 2 /\ t[n - 2] = "LF" /\ t[n - 1] = "CR" /\ t[n] = "LF"
    <3>1. n - 2 \in 1 .. Len(t) /\ n = n - 2 + 2 /\ n - 2 + 1 = n - 1
      BY <1>2, <2>2
    <3>2. Blank(t, n - 2, n)
      BY <2>2, <3>1 DEF Blank, Chars
    <3> QED
      BY <1>1, <3>1, <3>2 DEF Ends
  <2> QED
    BY <1>4, <1>6, <2>1, <2>2
<1> QED
  BY <1>5, <1>6

\* A text that begins with a version is no request.
LEMMA NotBoth ==
  ASSUME NEW t \in Seq(Atoms), t # <<>>, IsRequest(t) # 0
  PROVE  t[1] \notin Versions
<1>1. /\ find_header_end(t) # 0
      /\ http_request_method(t, 1, Len(t) + 1) # "NONE"
  BY DEF IsRequest
<1>2. t[DataAt(t)] \in Methods
  BY <1>1, SpaceFollows
<1>3. t[1] \in {"M-", "CR"} \cup Methods
  BY <1>2 DEF DataAt
<1> QED
  BY <1>3 DEF Methods, Versions

\* What is kept of an HTTP segment is the text up to the end of its header.
LEMMA StoredHeader ==
  ASSUME NEW t \in Seq(Atoms), t # <<>>, IsHttpPacket(t)
  PROVE  /\ find_header_end(t) # 0
         /\ Store(t, Len(t)).tcp_dl = find_header_end(t)
         /\ Store(t, Len(t)).tcp_odata = SubSeq(t, 1, find_header_end(t))
         /\ Store(t, Len(t)).http = IF IsRequest(t) # 0 THEN "req" ELSE "rsp"
<1> DEFINE eoh  == find_header_end(t)
           kept == IF IsRequest(t) # 0 THEN SubSeq(t, 1, IsRequest(t)) ELSE t
           len  == IF IsResponse(kept) # 0 THEN IsResponse(kept) ELSE Len(kept)
<1>1. eoh # 0 /\ eoh \in 1 .. Len(t) /\ Len(t) \in Nat \ {0}
  <2>1. eoh # 0
    BY DEF IsHttpPacket, IsRequest, IsResponse
  <2> QED
    BY <2>1, HeaderEnd, LenProperties, EmptySeq
<1>2. /\ SubSeq(t, 1, eoh) \in Seq(Atoms)
      /\ Len(SubSeq(t, 1, eoh)) = eoh
      /\ SubSeq(t, 1, eoh)[1] = t[1]
      /\ SubSeq(SubSeq(t, 1, eoh), 1, eoh) = SubSeq(t, 1, eoh)
  <2>1. \A i \in 1 .. eoh : t[i] \in Atoms
    BY <1>1, ElementOfSeq
  <2>2. /\ SubSeq(t, 1, eoh) \in Seq(Atoms)
        /\ Len(SubSeq(t, 1, eoh)) = eoh
        /\ \A i \in 1 .. eoh : SubSeq(t, 1, eoh)[i] = t[1 + i - 1]
    BY <1>1, <2>1, SubSeqProperties
  <2>3. 1 \in 1 .. eoh
    BY <1>1
  <2> QED
    BY <2>2, <2>3, SubSeqFull
<1>3. /\ len = eoh /\ SubSeq(kept, 1, len) = SubSeq(t, 1, eoh)
      /\ IsResponse(kept) # 0 <=> IsRequest(t) = 0
  <2>1. CASE IsRequest(t) # 0
    <3>1. IsRequest(t) = eoh
      BY <2>1 DEF IsRequest
    <3>2. kept = SubSeq(t, 1, eoh)
      BY <2>1, <3>1
    <3>3. IsResponse(kept) = 0
      <4>1. kept[1] \notin Versions
        BY <1>2, <2>1, <3>2, NotBoth
      <4> QED
        BY <4>1 DEF IsResponse, http_response_version
    <3>4. len = eoh /\ SubSeq(kept, 1, len) = SubSeq(t, 1, eoh)
      BY <1>2, <3>2, <3>3
    <3> QED
      BY <2>1, <3>3, <3>4
  <2>2. CASE IsRequest(t) = 0
    <3>1. kept = t /\ IsResponse(t) # 0
      BY <2>2 DEF IsHttpPacket
    <3>2. IsResponse(t) = eoh
      BY <3>1 DEF IsResponse
    <3>3. len = eoh /\ SubSeq(kept, 1, len) = SubSeq(t, 1, eoh)
      BY <3>1, <3>2
    <3> QED
      BY <2>2, <3>1, <3>3
  <2> QED
    BY <2>1, <2>2
<1>4. Store(t, Len(t)) = [http |-> IF IsResponse(kept) # 0 THEN "rsp" ELSE "req",
                          tcp_dl |-> len, tcp_odata |-> SubSeq(kept, 1, len)]
  BY <1>1 DEF Store
<1> HIDE DEF kept, len
<1> QED
  BY <1>1, <1>3, <1>4

\* A segment that begins as a request or a response and has a blank line is one.
LEMMA Recognised ==
  ASSUME NEW t \in Seq(Atoms), t # <<>>, find_header_end(t) # 0, ~ IsHttpPacket(t)
  PROVE  t[1] \notin Versions /\ ~ (t[1] \in Methods /\ t[2] = "SP")
<1>1. http_response_version(t) = "NONE" /\ http_request_method(t, 1, Len(t) + 1) = "NONE"
  BY DEF IsHttpPacket, IsRequest, IsResponse
<1>2. t[1] \notin Versions
  BY <1>1 DEF http_response_version, Versions
<1>3. ASSUME t[1] \in Methods, t[2] = "SP" PROVE FALSE
  <2>1. DataAt(t) = 1
    BY <1>3 DEF DataAt, Methods
  <2>2. Len(t) \in Nat /\ Len(t) >= 2
    <3>1. Ends(t) # {} /\ DOMAIN t = 1 .. Len(t) /\ Len(t) \in Nat
      BY HeaderEnd, LenProperties
    <3>2. PICK j \in 1 .. Len(t), i \in 1 .. Len(t) : Blank(t, i, j)
      BY <3>1 DEF Ends
    <3>3. i # j
      BY <3>1, <3>2 DEF Blank
    <3> QED
      BY <3>1, <3>3
  <2>3. SpaceAt(t, 1) = 2
    <3> DEFINE S == {i \in 1 .. Len(t) : t[i] = "SP"} \cup {Len(t) + 1}
    <3>1. 2 \in S /\ S \subseteq Nat /\ 1 \notin S /\ \A j \in S : j >= 1
      <4>1. t[1] # "SP"
        BY <1>3 DEF Methods
      <4> QED
        BY <1>3, <2>2, <4>1
    <3>2. Least(S) \in S /\ \A j \in S : Least(S) <= j
      BY <3>1, LeastProperties
    <3> HIDE DEF S
    <3>3. Least(S) = 2
      <4>1. Least(S) \in Nat /\ Least(S) >= 1 /\ Least(S) # 1 /\ Least(S) <= 2
        BY <3>1, <3>2
      <4> QED
        BY <4>1
    <3> QED
      BY <3>3 DEF S, SpaceAt
  <2>4. http_request_method(t, 1, Len(t) + 1) = t[1]
    BY <1>3, <2>1, <2>3, MethodAt
  <2> QED
    BY <1>1, <1>3, <2>4 DEF Methods
<1> QED
  BY <1>2, <1>3

-----------------------------------------------------------------------------
(* What flow_extract_http has parsed of a packet. *)

\* The text is the header that was copied, and the NUL behind it.
Symbols == Atoms \cup {"NUL"}
Copied(p) == Append(SubSeq(p, 1, find_header_end(p)), "NUL")

\* In the copy the header ends where it ends in the payload.
LEMMA CopyIs ==
  ASSUME NEW p \in Seq(Atoms), find_header_end(p) # 0, NEW n, n = find_header_end(p)
  PROVE  /\ n \in 1 .. Len(p) /\ p[n] = "LF" /\ n > 1 /\ Len(p) \in Nat
         /\ Copied(p) \in Seq(Symbols) /\ Len(Copied(p)) = n + 1
         /\ \A i \in 1 .. n : Copied(p)[i] = p[i] /\ p[i] \in Atoms
         /\ find_header_end(Copied(p)) = n
<1> DEFINE t == Copied(p)
<1>1. /\ Ends(p) \subseteq 1 .. Len(p) /\ n \in Ends(p) /\ \A j \in Ends(p) : n <= j
      /\ n \in 1 .. Len(p) /\ Len(p) \in Nat /\ DOMAIN p = 1 .. Len(p)
  BY HeaderEnd, LenProperties
<1>2. p[n] = "LF" /\ n > 1
  <2>1. PICK i \in 1 .. Len(p) : Blank(p, i, n)
    BY <1>1 DEF Ends
  <2> QED
    BY <1>1, <2>1 DEF Blank
<1>3. \A i \in 1 .. n : p[i] \in Atoms
  BY <1>1, ElementOfSeq
<1>4. /\ SubSeq(p, 1, n) \in Seq(Atoms) /\ Len(SubSeq(p, 1, n)) = n
      /\ \A i \in 1 .. n : SubSeq(p, 1, n)[i] = p[i]
  BY <1>1, <1>3, SubSeqProperties
<1>5. /\ t \in Seq(Symbols) /\ Len(t) = n + 1
      /\ \A i \in 1 .. n : t[i] = p[i]
  <2> DEFINE s == SubSeq(p, 1, n)
  <2>1. t = Append(s, "NUL")
    BY DEF Copied
  <2>2. s \in Seq(Atoms) /\ Len(s) = n /\ \A i \in 1 .. n : s[i] = p[i]
    BY <1>4
  <2> HIDE DEF s, t
  <2>3. s \in Seq(Symbols) /\ "NUL" \in Symbols
    <3>1. \A i \in 1 .. Len(s) : s[i] \in Symbols
      BY <1>3, <2>2 DEF Symbols
    <3>2. s = [i \in 1 .. Len(s) |-> s[i]] /\ Len(s) \in Nat
      BY <2>2, LenProperties
    <3> QED
      BY <3>1, <3>2 DEF Symbols
  <2>4. /\ t \in Seq(Symbols) /\ Len(t) = Len(s) + 1
        /\ \A i \in 1 .. Len(s) : t[i] = s[i]
    BY <2>1, <2>3, AppendProperties
  <2> QED
    BY <2>2, <2>4
<1> HIDE DEF t
<1>6. DOMAIN t = 1 .. Len(t) /\ Len(t) \in Nat
  BY <1>5, LenProperties
<1>7. n \in Nat /\ n <= Len(t) /\ n <= Len(p)
  BY <1>1, <1>5
<1>8. ASSUME NEW j \in 1 .. n PROVE j \in Ends(p) <=> j \in Ends(t)
  BY <1>1, <1>5, <1>6, <1>7, SameEnds
<1>9. n \in Ends(t) /\ Ends(t) \subseteq 1 .. Len(t)
  <2>1. n \in 1 .. n
    BY <1>1
  <2> QED
    BY <1>1, <1>5, <1>8, <2>1, HeaderEnd
<1>10. \A j \in Ends(t) : n <= j
  <2> SUFFICES ASSUME NEW j \in Ends(t), j < n PROVE FALSE
    BY <1>6, <1>7, <1>9
  <2>1. j \in 1 .. n
    BY <1>6, <1>7, <1>9
  <2>2. j \in Ends(p)
    BY <1>8, <2>1
  <2> QED
    BY <1>1, <1>7, <2>1, <2>2
<1>11. find_header_end(t) = n
  <2>1. /\ Ends(t) # {} /\ find_header_end(t) \in Ends(t)
        /\ \A j \in Ends(t) : find_header_end(t) <= j
    BY <1>5, <1>9, HeaderEnd
  <2>2. find_header_end(t) <= n /\ n <= find_header_end(t) /\ find_header_end(t) \in Nat
    BY <1>9, <1>10, <1>6, <2>1
  <2> QED
    BY <1>7, <2>2
<1> QED
  BY <1>1, <1>2, <1>3, <1>5, <1>11 DEF t

\* A line of a text that ends with LF ends with the first LF from its beginning,
\* or, if CR follows that and more, with the CR.
LEMMA LineEnd ==
  ASSUME NEW t, NEW n \in Nat, t[n] = "LF", NEW line \in 1 .. n
  PROVE  LET lf == NextLf(t, line, n)
             e  == find_line_end(t, line, n)
         IN /\ lf \in line .. n /\ t[lf] = "LF" /\ \A i \in line .. n : i < lf => t[i] # "LF"
            /\ e.lineend \in lf .. n
            /\ \/ lf > line /\ t[lf - 1] = "CR" /\ e.lineend = lf /\ e.eol = lf - 1
               \/ /\ lf > line /\ t[lf - 1] # "CR" /\ e.lineend = lf + 1 /\ e.eol = lf
                  /\ lf < n - 1 /\ t[lf + 1] = "CR"
               \/ ~ (lf > line /\ t[lf - 1] = "CR") /\ e.lineend = lf /\ e.eol = lf
<1> DEFINE lfs == {i \in line .. n : t[i] = "LF"}
           lf  == NextLf(t, line, n)
           e   == find_line_end(t, line, n)
<1>1. n \in lfs /\ lfs \subseteq Nat /\ lfs # {}
  OBVIOUS
<1>2. Least(lfs) \in lfs /\ \A j \in lfs : Least(lfs) <= j
  <2> HIDE DEF lfs
  <2> QED
    BY <1>1, LeastProperties
<1>3. lf = Least(lfs)
  BY <1>1 DEF NextLf
<1>4. lf \in line .. n /\ t[lf] = "LF"
  BY <1>2, <1>3
<1>5. \A i \in line .. n : i < lf => t[i] # "LF"
  <2> SUFFICES ASSUME NEW i \in line .. n, i < lf, t[i] = "LF" PROVE FALSE
    OBVIOUS
  <2>1. lf <= i
    BY <1>2, <1>3
  <2> QED
    BY <1>4, <2>1
<1>6. e = CASE lf = 0 -> [lineend |-> n, eol |-> n]
            [] lf > line /\ t[lf - 1] = "CR" -> [lineend |-> lf, eol |-> lf - 1]
            [] lf > line /\ t[lf - 1] # "CR" /\ lf < n - 1 /\ t[lf + 1] = "CR" ->
                 [lineend |-> lf + 1, eol |-> lf]
            [] OTHER -> [lineend |-> lf, eol |-> lf]
  BY DEF find_line_end
<1> HIDE DEF lf, e
<1>7. lf # 0 /\ lf \in Nat
  BY <1>4
<1>8. CASE lf > line /\ t[lf - 1] = "CR"
  <2>1. e = [lineend |-> lf, eol |-> lf - 1]
    BY <1>6, <1>7, <1>8
  <2>2. e.lineend = lf /\ e.eol = lf - 1 /\ lf \in lf .. n
    BY <1>4, <2>1
  <2> QED
    BY <1>4, <1>5, <1>8, <2>2 DEF lf, e
<1>9. CASE lf > line /\ t[lf - 1] # "CR" /\ lf < n - 1 /\ t[lf + 1] = "CR"
  <2>1. e = [lineend |-> lf + 1, eol |-> lf]
    BY <1>6, <1>7, <1>9
  <2>2. e.lineend = lf + 1 /\ e.eol = lf /\ lf + 1 \in lf .. n
    BY <1>4, <1>7, <1>9, <2>1
  <2> QED
    BY <1>4, <1>5, <1>9, <2>2 DEF lf, e
<1>10. CASE /\ ~ (lf > line /\ t[lf - 1] = "CR")
            /\ ~ (lf > line /\ t[lf - 1] # "CR" /\ lf < n - 1 /\ t[lf + 1] = "CR")
  <2>1. e = [lineend |-> lf, eol |-> lf]
    BY <1>6, <1>7, <1>10
  <2>2. e.lineend = lf /\ e.eol = lf /\ lf \in lf .. n
    BY <1>4, <2>1
  <2> QED
    BY <1>4, <1>5, <1>10, <2>2 DEF lf, e
<1> QED
  BY <1>8, <1>9, <1>10

\* http_request_method of a line that is not the whole text.
DataIn(t, e) == CASE t[1] = "M-" -> 2
                  [] 2 < e + 1 /\ t[1] = "CR" /\ t[2] = "LF" -> 3
                  [] OTHER -> 1
SpaceIn(t, e, d) == Least({i \in d .. e : t[i] = "SP"} \cup {e + 1})

LEMMA MethodUpTo ==
  ASSUME NEW t, NEW e \in Nat
  PROVE  http_request_method(t, 1, e + 1)
           = IF SpaceIn(t, e, DataIn(t, e)) = DataIn(t, e) + 1 /\ t[DataIn(t, e)] \in Methods
             THEN t[DataIn(t, e)] ELSE "NONE"
<1>1. e + 1 - 1 = e /\ 1 + 1 = 2 /\ 1 + 2 = 3
  OBVIOUS
<1> QED
  BY <1>1 DEF http_request_method, DataIn, SpaceIn

\* A segment recognised as a request is parsed as one, unless it begins with CR LF.
LEMMA RequestParsed ==
  ASSUME NEW p \in Seq(Atoms), p # <<>>, IsRequest(p) # 0
  PROVE  LET n == find_header_end(p)
             h == http_parse_request(Copied(p), n, n)
         IN /\ h.hdlen = find_header_end(p)
            /\ IF p[1] = "CR" THEN h.ret = -1 ELSE h.ret = 0 /\ h.method \in Methods
            /\ p[1] # "CR" => h.method = IF p[1] = "M-" THEN p[2] ELSE p[1]
<1> DEFINE n    == find_header_end(p)
           t    == Copied(p)
           lf   == NextLf(t, 1, n)
           last == find_line_end(t, 1, n).lineend
           data == DataAt(p)
           method == http_request_method(t, 1, last + 1)
           h    == http_parse_request(t, n, n)
<1>1. find_header_end(p) # 0 /\ http_request_method(p, 1, Len(p) + 1) # "NONE"
  BY DEF IsRequest
<1>2. /\ n \in 1 .. Len(p) /\ p[n] = "LF" /\ n > 1 /\ Len(p) \in Nat
      /\ \A i \in 1 .. n : t[i] = p[i]
      /\ find_header_end(t) = n
  BY <1>1, CopyIs
<1>3. /\ data + 1 \in 1 .. Len(p) /\ p[data + 1] = "SP" /\ p[data] \in Methods
      /\ data \in 1 .. 3
  BY <1>1, SpaceFollows, MethodAt
<1>4. p[data] \notin {"LF", "CR", "M-", "SP"}
  BY <1>3 DEF Methods
<1>5. IF method = "NONE" THEN h.hdlen = n /\ h.ret = -1
      ELSE h.hdlen = n /\ h.ret = 0 /\ h.method = method
  BY <1>2 DEF http_parse_request, Unparsed, FirstLineEnd
<1> HIDE DEF n, t, h
<1>6. n \in Nat /\ 1 \in 1 .. n /\ t[n] = "LF"
  BY <1>2
<1>7. /\ lf \in 1 .. n /\ t[lf] = "LF" /\ \A i \in 1 .. n : i < lf => t[i] # "LF"
      /\ last \in lf .. n
      /\ lf > 1 /\ t[lf - 1] = "CR" => last = lf
  BY <1>6, LineEnd
<1>8. p[lf] = "LF"
  BY <1>2, <1>7
<1>9. CASE p[1] = "CR"
  <2>1. data = 3 /\ p[2] = "LF"
    BY <1>4, <1>9 DEF DataAt
  <2>2. 2 \in 1 .. n /\ t[1] = "CR" /\ t[2] = "LF"
    BY <1>2, <1>6, <1>9, <2>1
  <2>3. lf = 2
    <3>1. ~ (2 < lf)
      BY <1>7, <2>2
    <3>2. lf # 1
      BY <1>7, <2>2
    <3> QED
      BY <1>7, <3>1, <3>2
  <2>4. last = 2
    BY <1>7, <2>2, <2>3
  <2> HIDE DEF last, lf, data
  <2>5. method = "NONE"
    <3> DEFINE S == {i \in 3 .. 2 : t[i] = "SP"} \cup {3}
    <3>1. S = {3}
      OBVIOUS
    <3>2. Least(S) = 3
      BY <3>1 DEF Least
    <3>3. method = IF Least(S) = 4 /\ t[3] \in Methods THEN t[3] ELSE "NONE"
      BY <2>2, <2>4 DEF http_request_method
    <3> QED
      BY <3>2, <3>3
  <2> HIDE DEF method
  <2>6. h.hdlen = n /\ h.ret = -1
    BY <1>5, <2>5
  <2> QED
    BY <1>9, <2>6 DEF n, h, t
<1>10. CASE p[1] # "CR"
  <2>1. data \in 1 .. 2 /\ (data = 2 <=> p[1] = "M-") /\ (data = 1 <=> p[1] # "M-")
    BY <1>10 DEF DataAt
  <2>2. data + 1 < lf
    <3>1. lf # data /\ lf # data + 1
      BY <1>3, <1>4, <1>8
    <3>2. data = 2 => lf # 1
      BY <1>8, <2>1
    <3> HIDE DEF lf, data
    <3> QED
      BY <1>6, <1>7, <2>1, <3>1, <3>2
  <2>3. /\ data \in 1 .. n /\ data + 1 \in 1 .. n /\ data + 1 <= last /\ last \in Nat
        /\ t[data] = p[data] /\ t[data + 1] = "SP" /\ t[1] = p[1]
    <3>1. data \in 1 .. n /\ data + 1 \in 1 .. n /\ data + 1 <= last /\ last \in Nat
      <4> HIDE DEF lf, data, last
      <4> QED
        BY <1>6, <1>7, <2>1, <2>2
    <3> QED
      BY <1>2, <1>3, <1>6, <3>1
  <2> DEFINE S == {i \in data .. last : t[i] = "SP"} \cup {last + 1}
  <2>4. Least(S) = data + 1
    <3>1. data + 1 \in S /\ data \notin S /\ S \subseteq Nat /\ \A j \in S : j >= data
      <4>1. t[data] # "SP"
        BY <1>4, <2>3
      <4> HIDE DEF last, data
      <4> QED
        BY <2>1, <2>3, <4>1
    <3>2. Least(S) \in S /\ \A j \in S : Least(S) <= j
      BY <3>1, LeastProperties
    <3> HIDE DEF S, data
    <3>3. Least(S) \in Nat /\ Least(S) >= data /\ Least(S) <= data + 1 /\ Least(S) # data
      BY <3>1, <3>2
    <3> QED
      BY <2>1, <3>3
  <2>5. method = t[data]
    <3>1. data = DataIn(t, last)
      <4> HIDE DEF data, last
      <4> QED
        BY <1>10, <2>1, <2>3 DEF DataIn
    <3>2. method = IF SpaceIn(t, last, data) = data + 1 /\ t[data] \in Methods
                   THEN t[data] ELSE "NONE"
      <4> HIDE DEF data, last
      <4> QED
        BY <2>3, <3>1, MethodUpTo
    <3>3. SpaceIn(t, last, data) = Least(S)
      BY DEF SpaceIn
    <3> QED
      BY <1>3, <2>3, <2>4, <3>2, <3>3
  <2>6. method \in Methods /\ method # "NONE"
    BY <1>3, <2>3, <2>5 DEF Methods
  <2>7. method = IF p[1] = "M-" THEN p[2] ELSE p[1]
    BY <2>1, <2>3, <2>5
  <2> HIDE DEF method
  <2>8. /\ h.hdlen = n /\ h.ret = 0 /\ h.method \in Methods
        /\ h.method = IF p[1] = "M-" THEN p[2] ELSE p[1]
    BY <1>5, <2>6, <2>7
  <2> QED
    BY <1>10, <2>8 DEF n, h, t
<1> QED
  BY <1>9, <1>10

\* What is parsed of a response has no method, and the end of the header is the same.
LEMMA ResponseParsed ==
  ASSUME NEW p \in Seq(Atoms), find_header_end(p) # 0
  PROVE  LET n == find_header_end(p)
             h == http_parse_response(Copied(p), n, n)
         IN h.hdlen = n /\ h.ret \in {0, -1} /\ h.method = "NONE"
<1> QED
  BY DEF http_parse_response, Unparsed

-----------------------------------------------------------------------------
(* The search for a field, line by line. *)

\* A bounded set of positions has a greatest element.
LEMMA GreatestIn ==
  ASSUME NEW n \in Nat, NEW S, S \subseteq 0 .. n, S # {}
  PROVE  \E g \in S : \A j \in S : j <= g
<1> DEFINE D == {n - j : j \in S}
<1>1. D \subseteq Nat /\ D # {}
  <2>1. ASSUME NEW j \in S PROVE n - j \in Nat
    <3>1. j \in 0 .. n
      OBVIOUS
    <3> QED
      BY <3>1
  <2>2. \A d \in D : d \in Nat
    BY <2>1
  <2>3. D # {}
    OBVIOUS
  <2> HIDE DEF D
  <2> QED
    BY <2>2, <2>3
<1>2. Least(D) \in D /\ \A d \in D : Least(D) <= d
  <2> HIDE DEF D
  <2> QED
    BY <1>1, LeastProperties
<1>3. PICK g \in S : Least(D) = n - g
  BY <1>2
<1>4. ASSUME NEW j \in S PROVE j <= g
  <2>1. n - j \in D
    OBVIOUS
  <2>2. n - g <= n - j
    BY <1>2, <1>3, <2>1
  <2>3. j \in Int /\ g \in Int
    OBVIOUS
  <2> HIDE DEF D
  <2> QED
    BY <2>2, <2>3
<1> QED
  BY <1>4

\* A text with n symbols of the sender's, the last of them LF, and others behind them.
EndsLine(t, n) ==
  /\ n \in Nat /\ t[n] = "LF"
  /\ t \in Seq(Symbols) /\ n <= Len(t)
  /\ \A i \in 1 .. n : t[i] \in Atoms

\* One step of the search: the value in this line, or what the search g finds from
\* the next line on.
SearchStep(t, n, param, g, line) ==
  LET end == find_line_end(t, line, n)
  IN CASE end.lineend = n -> <<>>
       [] end.lineend # n /\ t[line] = param -> Value(t, line, end)
       [] OTHER -> g[end.lineend + 1]

IsSearch(t, n, param, s, m) ==
  s = [line \in m .. n |-> SearchStep(t, n, param, s, line)]

\* The next line is further down.
LEMMA NextLine ==
  ASSUME NEW t, NEW n, EndsLine(t, n), NEW line \in 1 .. n,
         NEW last, last = find_line_end(t, line, n).lineend
  PROVE  last \in line .. n /\ (last # n => last + 1 \in line + 1 .. n)
<1> DEFINE lf == NextLf(t, line, n)
           e == find_line_end(t, line, n)
<1>1. n \in Nat /\ t[n] = "LF"
  BY DEF EndsLine
<1>2. lf \in line .. n /\ e.lineend \in lf .. n
  BY <1>1, LineEnd
<1>3. last = e.lineend
  OBVIOUS
<1> HIDE DEF lf, e
<1> QED
  BY <1>1, <1>2, <1>3

\* The step depends on what is found further down only.
LEMMA StepKept ==
  ASSUME NEW t, NEW n, EndsLine(t, n), NEW param, NEW line \in 1 .. n,
         NEW g, NEW h, \A i \in line + 1 .. n : g[i] = h[i]
  PROVE  SearchStep(t, n, param, g, line) = SearchStep(t, n, param, h, line)
<1> DEFINE last == find_line_end(t, line, n).lineend
<1>1. last # n => last + 1 \in line + 1 .. n
  BY NextLine
<1>2. last # n => g[last + 1] = h[last + 1]
  BY <1>1
<1> QED
  BY <1>2 DEF SearchStep

\* There is a search from every line on.
LEMMA SearchExists ==
  ASSUME NEW t, NEW n, EndsLine(t, n), n >= 1, NEW param
  PROVE  \E s : IsSearch(t, n, param, s, 1)
<1> DEFINE good == {m \in 1 .. n + 1 : \E s : IsSearch(t, n, param, s, m)}
<1>1. n \in Nat
  BY DEF EndsLine
<1>2. n + 1 \in good
  <2> DEFINE s == [i \in n + 1 .. n |-> <<>>]
  <2>1. n + 1 .. n = {}
    BY <1>1
  <2>2. IsSearch(t, n, param, s, n + 1)
    BY <2>1 DEF IsSearch
  <2> QED
    BY <1>1, <2>2
<1>3. good \subseteq Nat /\ good # {}
  BY <1>1, <1>2
<1>4. Least(good) \in good /\ \A j \in good : Least(good) <= j
  <2> HIDE DEF good
  <2> QED
    BY <1>3, LeastProperties
<1> DEFINE m == Least(good)
<1>5. m \in 1 .. n + 1 /\ \A j \in good : m <= j
  BY <1>4
<1>6. PICK s : IsSearch(t, n, param, s, m)
  BY <1>4
<1> HIDE DEF m
<1>7. CASE m = 1
  BY <1>6, <1>7
<1>8. CASE m # 1
  <2> DEFINE k == m - 1
             s2 == [line \in k .. n |-> IF line = k THEN SearchStep(t, n, param, s, k)
                                        ELSE s[line]]
  <2>1. k \in 1 .. n /\ m = k + 1 /\ k \in Nat
    BY <1>1, <1>5, <1>8
  <2> HIDE DEF k
  <2>2. \A i \in k + 1 .. n : s2[i] = s[i]
    BY <1>1, <2>1
  <2>3. ASSUME NEW line \in k .. n
        PROVE  s2[line] = SearchStep(t, n, param, s2, line)
    <3>1. line \in 1 .. n /\ \A i \in line + 1 .. n : s2[i] = s[i]
      <4>1. line \in 1 .. n /\ \A i \in line + 1 .. n : i \in k + 1 .. n
        BY <1>1, <2>1
      <4> QED
        BY <2>2, <4>1
    <3>2. SearchStep(t, n, param, s2, line) = SearchStep(t, n, param, s, line)
      <4> HIDE DEF s2
      <4> QED
        BY <3>1, StepKept
    <3>3. s2[line] = SearchStep(t, n, param, s, line)
      <4>1. CASE line = k
        BY <4>1
      <4>2. CASE line # k
        <5>1. line \in m .. n
          BY <1>1, <2>1, <4>2
        <5> QED
          BY <1>6, <4>2, <5>1 DEF IsSearch
      <4> QED
        BY <4>1, <4>2
    <3> QED
      BY <3>2, <3>3
  <2>4. IsSearch(t, n, param, s2, k)
    <3>1. s2 = [line \in k .. n |-> s2[line]]
      OBVIOUS
    <3> HIDE DEF s2
    <3>2. [line \in k .. n |-> s2[line]]
            = [line \in k .. n |-> SearchStep(t, n, param, s2, line)]
      BY <2>3
    <3> QED
      BY <3>1, <3>2 DEF IsSearch
  <2>5. k \in good
    <3>1. k \in 1 .. n + 1
      BY <1>1, <2>1
    <3> QED
      BY <2>4, <3>1
  <2>6. m <= k
    BY <1>5, <2>5
  <2> QED
    BY <1>1, <2>1, <2>6
<1> QED
  BY <1>7, <1>8

\* The value in a line that begins with the name of a field is part of the header.
LEMMA ValueIn ==
  ASSUME NEW t, NEW n, EndsLine(t, n), NEW line \in 1 .. n,
         t[line] \notin {"CR", "LF"}
  PROVE  Value(t, line, find_line_end(t, line, n)) \in Seq(Atoms)
<1> DEFINE e == find_line_end(t, line, n)
           lf == NextLf(t, line, n)
           cs == {i \in line + 1 .. e.lineend - 1 : t[i] # "SP"} \cup {e.lineend}
           c == Least(cs)
           back == {i \in c .. e.eol : i = c \/ t[i] \notin {"CR", "LF"}}
<1>1. n \in Nat /\ t[n] = "LF" /\ t \in Seq(Symbols) /\ n <= Len(t)
      /\ \A i \in 1 .. n : t[i] \in Atoms
  BY DEF EndsLine
<1>2. /\ lf \in line .. n /\ t[lf] = "LF"
      /\ e.lineend \in lf .. n
      /\ \/ lf > line /\ t[lf - 1] = "CR" /\ e.lineend = lf /\ e.eol = lf - 1
         \/ lf > line /\ t[lf - 1] # "CR" /\ e.lineend = lf + 1 /\ e.eol = lf
         \/ ~ (lf > line /\ t[lf - 1] = "CR") /\ e.lineend = lf /\ e.eol = lf
  BY <1>1, LineEnd
<1>3. lf # line /\ lf - 1 \in Int
  BY <1>1, <1>2
<1> DEFINE eol == e.eol
           last == e.lineend
<1>4. /\ eol \in line + 1 .. n /\ last \in line + 1 .. n /\ eol <= last
      /\ eol # last => eol \in line + 1 .. last - 1 /\ t[eol] # "SP"
  <2> HIDE DEF lf, e
  <2>1. CASE lf > line /\ t[lf - 1] = "CR" /\ e.lineend = lf /\ e.eol = lf - 1
    <3>1. lf - 1 # line
      BY <2>1
    <3> QED
      BY <1>1, <1>2, <1>3, <2>1, <3>1
  <2>2. CASE lf > line /\ t[lf - 1] # "CR" /\ e.lineend = lf + 1 /\ e.eol = lf
    BY <1>1, <1>2, <1>3, <2>2
  <2>3. CASE e.lineend = lf /\ e.eol = lf
    BY <1>1, <1>2, <1>3, <2>3
  <2> QED
    BY <1>2, <2>1, <2>2, <2>3
<1>5. cs = {i \in line + 1 .. last - 1 : t[i] # "SP"} \cup {last}
  OBVIOUS
<1>6. back = {i \in c .. eol : i = c \/ t[i] \notin {"CR", "LF"}}
  OBVIOUS
<1> HIDE DEF e, lf, eol, last
<1>7. cs \subseteq line + 1 .. n /\ cs \subseteq Nat /\ eol \in cs
  <2> HIDE DEF cs
  <2> QED
    BY <1>1, <1>4, <1>5
<1>8. c \in line + 1 .. n /\ c <= eol
  <2> HIDE DEF cs
  <2>1. cs # {}
    BY <1>7
  <2>2. Least(cs) \in cs /\ \A j \in cs : Least(cs) <= j
    BY <1>7, <2>1, LeastProperties
  <2>3. c \in cs /\ c <= eol
    BY <1>7, <2>2
  <2> HIDE DEF c
  <2> QED
    BY <1>7, <2>3
<1> HIDE DEF c
<1>9. c \in back /\ back \subseteq 0 .. n
  <2> HIDE DEF back
  <2> QED
    BY <1>1, <1>4, <1>6, <1>8
<1> DEFINE g == CHOOSE i \in back : \A j \in back : j <= i
<1>10. g \in back
  <2> HIDE DEF back
  <2>1. \E i \in back : \A j \in back : j <= i
    BY <1>1, <1>9, GreatestIn
  <2> QED
    BY <2>1
<1>11. g \in c .. eol
  BY <1>6, <1>10
<1>12. Value(t, line, e) = SubSeq(t, c, g)
  BY DEF Value, c, e
<1> HIDE DEF g, back
<1>13. \A i \in c .. g : t[i] \in Atoms
  BY <1>1, <1>4, <1>8, <1>11
<1>14. SubSeq(t, c, g) \in Seq(Atoms)
  <2>1. c \in Int /\ g \in Int
    BY <1>8, <1>11, <1>4
  <2> QED
    BY <1>13, <2>1, SubSeqProperties
<1> QED
  BY <1>12, <1>14 DEF e

\* Whatever the search finds is part of the header.
LEMMA SearchFinds ==
  ASSUME NEW t, NEW n, EndsLine(t, n), n >= 1, NEW param, param \notin {"CR", "LF"},
         NEW s, IsSearch(t, n, param, s, 1)
  PROVE  \A line \in 1 .. n : s[line] \in Seq(Atoms)
<1> DEFINE bad == {line \in 1 .. n : s[line] \notin Seq(Atoms)}
<1> SUFFICES ASSUME bad # {} PROVE FALSE
  OBVIOUS
<1>1. n \in Nat
  BY DEF EndsLine
<1>2. bad \subseteq 0 .. n
  BY <1>1
<1>3. PICK line \in bad : \A j \in bad : j <= line
  <2> HIDE DEF bad
  <2> QED
    BY <1>1, <1>2, GreatestIn
<1>4. line \in 1 .. n /\ s[line] \notin Seq(Atoms)
  OBVIOUS
<1> DEFINE last == find_line_end(t, line, n).lineend
<1>5. last # n => last + 1 \in line + 1 .. n
  BY <1>4, NextLine
<1>6. s[line] = SearchStep(t, n, param, s, line)
  BY <1>4 DEF IsSearch
<1>7. s[line] = CASE last = n -> <<>>
                  [] last # n /\ t[line] = param -> Value(t, line, find_line_end(t, line, n))
                  [] OTHER -> s[last + 1]
  BY <1>6 DEF SearchStep
<1>8. last # n => s[last + 1] \in Seq(Atoms)
  <2> SUFFICES ASSUME last # n PROVE s[last + 1] \in Seq(Atoms)
    OBVIOUS
  <2> DEFINE k == last + 1
  <2>1. k \in line + 1 .. n
    BY <1>5
  <2> HIDE DEF last, k
  <2>2. k \in 1 .. n /\ ~ (k <= line)
    BY <1>1, <1>4, <2>1
  <2>3. k \notin bad
    BY <1>3, <2>2
  <2> QED
    BY <2>2, <2>3 DEF k
<1>9. t[line] = param => Value(t, line, find_line_end(t, line, n)) \in Seq(Atoms)
  BY <1>4, ValueIn
<1>10. <<>> \in Seq(Atoms)
  BY EmptySeq
<1> HIDE DEF last
<1> QED
  BY <1>4, <1>7, <1>8, <1>9, <1>10

\* The value of a field is part of the header.
LEMMA FieldFound ==
  ASSUME NEW t, NEW n, EndsLine(t, n), n >= 1, NEW param, param \notin {"CR", "LF"}
  PROVE  http_header_param(t, n, param) \in Seq(Atoms)
<1> DEFINE search == CHOOSE s : s = [line \in 1 .. n |->
                        LET end == find_line_end(t, line, n)
                        IN CASE end.lineend = n -> <<>>
                             [] end.lineend # n /\ t[line] = param -> Value(t, line, end)
                             [] OTHER -> s[end.lineend + 1]]
<1>1. http_header_param(t, n, param) = search[1]
  BY Zenon DEF http_header_param
<1>2. PICK s0 : IsSearch(t, n, param, s0, 1)
  BY SearchExists
<1>3. s0 = [line \in 1 .. n |->
              LET end == find_line_end(t, line, n)
              IN CASE end.lineend = n -> <<>>
                   [] end.lineend # n /\ t[line] = param -> Value(t, line, end)
                   [] OTHER -> s0[end.lineend + 1]]
  BY <1>2, Zenon DEF IsSearch, SearchStep
<1>4. search = [line \in 1 .. n |->
                  LET end == find_line_end(t, line, n)
                  IN CASE end.lineend = n -> <<>>
                       [] end.lineend # n /\ t[line] = param -> Value(t, line, end)
                       [] OTHER -> search[end.lineend + 1]]
  BY <1>3, Zenon
<1> HIDE DEF search
<1>5. IsSearch(t, n, param, search, 1)
  BY <1>4, Zenon DEF IsSearch, SearchStep
<1>6. 1 \in 1 .. n
  BY DEF EndsLine
<1>7. search[1] \in Seq(Atoms)
  BY <1>5, <1>6, SearchFinds
<1> QED
  BY <1>1, <1>7

\* A search that stays within the text finds what the header has.
LEMMA FieldWithin ==
  ASSUME NEW t, NEW n, n \in Nat, n >= 1, Len(t) = n + 1, NEW f
  PROVE  Field(t, n, f) = http_header_param(t, n, f)
<1>1. n # 0 /\ n # Len(t)
  OBVIOUS
<1> QED
  BY <1>1 DEF Field

\* Every field of a parsed header is part of the header.
LEMMA HeaderFields ==
  ASSUME NEW t, NEW n, EndsLine(t, n), n >= 1, Len(t) = n + 1,
         NEW h, h = http_parse_request(t, n, n) \/ h = http_parse_response(t, n, n)
  PROVE  /\ h.ret \in {0, -1} /\ h.hdlen = n
         /\ \A f \in DOMAIN h.param : h.param[f] \in Seq(Atoms)
<1> DEFINE Fields == RequestFields \cup RequestContent \cup ResponseFields
           Good(r) == /\ r.ret \in {0, -1} /\ r.hdlen = n
                      /\ \A f \in DOMAIN r.param : r.param[f] \in Seq(Atoms)
<1>1. \A f \in Fields : Field(t, n, f) \in Seq(Atoms)
  <2>1. \A f \in Fields : f \notin {"CR", "LF"}
    BY DEF RequestFields, RequestContent, ResponseFields
  <2>2. \A f \in Fields : http_header_param(t, n, f) \in Seq(Atoms)
    BY <2>1, FieldFound
  <2>3. n \in Nat
    BY DEF EndsLine
  <2> HIDE DEF Fields
  <2> QED
    BY <2>2, <2>3, FieldWithin
<1>2. <<>> \in Seq(Atoms)
  BY EmptySeq
<1>3. \A fields : Good(Unparsed(fields, n))
  BY <1>2 DEF Unparsed
<1>4. CASE h = http_parse_request(t, n, n)
  <2> DEFINE fields == RequestFields \cup RequestContent
             last   == FirstLineEnd(t, n).lineend
             method == http_request_method(t, 1, last + 1)
             wanted == RequestFields \cup (IF method = "POST" THEN RequestContent ELSE {})
             param  == [f \in fields |-> IF f \in wanted THEN Field(t, n, f) ELSE <<>>]
             uri    == http_request_uri(t, 1, last + 1)
             version == http_request_version(t, 1, last + 1)
  <2>1. h = IF method = "NONE" THEN Unparsed(fields, n)
            ELSE [ret |-> 0, hdlen |-> n, method |-> method, status |-> HTTP_ST_NONE,
                  uri |-> uri, version |-> version, param |-> param]
    BY <1>4, Zenon DEF http_parse_request
  <2>2. DOMAIN param = fields /\ \A f \in fields : param[f] \in Seq(Atoms)
    BY <1>1, <1>2
  <2> HIDE DEF method, param, uri, version, fields
  <2>3. CASE method = "NONE"
    <3>1. h = Unparsed(fields, n)
      BY <2>1, <2>3
    <3> HIDE DEF Good
    <3>2. Good(h)
      BY <1>3, <3>1
    <3> QED
      BY <3>2 DEF Good
  <2>4. CASE method # "NONE"
    <3>1. h.ret = 0 /\ h.hdlen = n /\ h.param = param
      BY <2>1, <2>4
    <3> QED
      BY <2>2, <3>1
  <2> QED
    BY <2>3, <2>4
<1>5. CASE h = http_parse_response(t, n, n)
  <2> DEFINE last   == FirstLineEnd(t, n).lineend
             status == http_response_status(t, 1, last + 1)
             param  == [f \in ResponseFields |-> Field(t, n, f)]
             version == http_response_version(t)
  <2>1. h = IF status = HTTP_ST_NONE THEN Unparsed(ResponseFields, n)
            ELSE [ret |-> 0, hdlen |-> n, method |-> "NONE", uri |-> <<>>, status |-> status,
                  version |-> version, param |-> param]
    BY <1>5, Zenon DEF http_parse_response
  <2>2. DOMAIN param = ResponseFields /\ \A f \in ResponseFields : param[f] \in Seq(Atoms)
    BY <1>1
  <2> HIDE DEF status, param, version
  <2>3. CASE status = HTTP_ST_NONE
    <3>1. h = Unparsed(ResponseFields, n)
      BY <2>1, <2>3
    <3> HIDE DEF Good
    <3>2. Good(h)
      BY <1>3, <3>1
    <3> QED
      BY <3>2 DEF Good
  <2>4. CASE status # HTTP_ST_NONE
    <3>1. h.ret = 0 /\ h.hdlen = n /\ h.param = param
      BY <2>1, <2>4
    <3> QED
      BY <2>2, <3>1
  <2> QED
    BY <2>3, <2>4
<1> QED
  BY <1>4, <1>5

-----------------------------------------------------------------------------
\* What a parser makes of a text with the header end at eoh, or none.
ParsedTo(http, t, eoh, hdl) ==
  IF http = "req" THEN http_parse_request(t, eoh, hdl) ELSE http_parse_response(t, eoh, hdl)

\* How far the header is looked for.
DataEnd(q, t) == IF q.tcp_dl < Len(t) THEN q.tcp_dl + 1 ELSE Len(t)

\* h is what flow_extract_http may parse of the packet q.
Parsed(q, h) ==
  LET t   == Append(q.tcp_odata, "NUL")
      eoh == find_header_end(SubSeq(t, 1, DataEnd(q, t)))
  IN \E hdl \in IF eoh = 0 THEN 0 .. Len(t) ELSE {eoh} : h = ParsedTo(q.http, t, eoh, hdl)

\* q is the stored packet s, or that with tcp_dl shortened.
Shortened(q, s) ==
  \E cut \in Cuts \cup {0} :
    q = [http |-> s.http, tcp_odata |-> s.tcp_odata,
         tcp_dl |-> IF s.http = "none" THEN s.tcp_dl ELSE Shorter(s.tcp_dl, cut)]

\* The payload is made of the symbols, the packet is made of the payload and the
\* header of the packet; the payload is so short that its length fits in tcp_dl.
IInv ==
  /\ payload \in Seq(Atoms)
  /\ Len(payload) <= MaxLen
  /\ pkt # NULL => Shortened(pkt, Store(payload, Len(payload)))
  /\ header # NULL => pkt # NULL /\ pkt.http # "none" /\ Parsed(pkt, header)

\* The two lengths that are subtracted are those that were added.
LEMMA DataLength ==
  ASSUME NEW a \in Int, NEW b \in Int, NEW n \in Nat, n <= 1000
  PROVE  (a * 4 + b * 4 + n - a * 4 - b * 4) % 65536 = n
<1>1. a * 4 + b * 4 + n - a * 4 - b * 4 = n
  OBVIOUS
<1>2. n % 65536 = n
  OBVIOUS
<1> QED
  BY <1>1, <1>2

\* The parts of the assumption on the constants.
LEMMA Assumed ==
  /\ MaxLen \in Nat \ {0} /\ MaxLen <= 1000 /\ MaxLen \in Nat
  /\ \A p \in Starts \cup Pieces : p \in Seq(Atoms)
  /\ \A p \in Starts : Len(p) <= MaxLen
  /\ \A cut \in Cuts \cup {0} : cut \in Int
  /\ \A f \in Frames : f \in Headers
<1>1. /\ MaxLen \in Nat \ {0} /\ MaxLen <= 1000
      /\ Starts \cup Pieces \subseteq Seq(Atoms) \ {<<>>}
      /\ \A p \in Starts : Len(p) <= MaxLen
      /\ Frames \subseteq Headers /\ Cuts \subseteq Nat \ {0}
  BY SMT, PreprocessAssumption
<1>2. \A p \in Starts \cup Pieces : p \in Seq(Atoms)
  BY SMT, <1>1
<1>3. \A cut \in Cuts \cup {0} : cut \in Int
  BY SMT, <1>1
<1>4. (\A f \in Frames : f \in Headers) /\ MaxLen \in Nat
  BY SMT, <1>1
<1> QED
  BY SMT, <1>1, <1>2, <1>3, <1>4

\* What main.c makes of a payload in any case.
LEMMA StoreIs ==
  ASSUME NEW p \in Seq(Atoms), Len(p) <= MaxLen
  PROVE  LET s == Store(p, Len(p))
         IN /\ Len(p) \in 0 .. MaxLen /\ MaxLen \in Nat /\ MaxLen <= 1000
            /\ s = [http |-> s.http, tcp_odata |-> s.tcp_odata, tcp_dl |-> s.tcp_dl]
            /\ s.tcp_dl \in 0 .. MaxLen /\ s.tcp_odata \in Seq(Atoms)
            /\ s.http # "none" => s.tcp_dl = Len(s.tcp_odata)
            /\ s.http \in {"none", "req", "rsp"}
            /\ s.http = "none" <=> p = <<>> \/ ~ IsHttpPacket(p)
            /\ s.http = "none" => s.tcp_dl = Len(p)
<1> DEFINE s == Store(p, Len(p))
           n == find_header_end(p)
<1>1. Len(p) \in Nat /\ (Len(p) = 0 <=> p = <<>>) /\ MaxLen \in Nat /\ MaxLen <= 1000
  BY LenProperties, EmptySeq, Assumed
<1>2. CASE p = <<>> \/ ~ IsHttpPacket(p)
  <2>1. s = [http |-> "none", tcp_dl |-> Len(p), tcp_odata |-> <<>>]
    BY <1>1, <1>2 DEF Store
  <2>2. s.http = "none" /\ s.tcp_dl = Len(p) /\ s.tcp_odata = <<>>
    BY <2>1
  <2>3. s = [http |-> s.http, tcp_odata |-> s.tcp_odata, tcp_dl |-> s.tcp_dl]
    BY <2>1
  <2> HIDE DEF s
  <2>4. s.tcp_odata \in Seq(Atoms) /\ s.tcp_dl \in 0 .. MaxLen /\ Len(p) \in 0 .. MaxLen
    BY <1>1, <2>2, EmptySeq
  <2> QED
    BY <1>1, <1>2, <2>2, <2>3, <2>4 DEF s
<1>3. CASE p # <<>> /\ IsHttpPacket(p)
  <2>1. /\ n # 0 /\ s.tcp_dl = n /\ s.tcp_odata = SubSeq(p, 1, n)
        /\ s.http = IF IsRequest(p) # 0 THEN "req" ELSE "rsp"
    BY <1>3, StoredHeader
  <2>2. n \in 1 .. Len(p)
    BY <2>1, HeaderEnd
  <2>3. s.tcp_odata \in Seq(Atoms) /\ Len(s.tcp_odata) = n
    <3>1. \A i \in 1 .. n : p[i] \in Atoms
      BY <1>1, <2>2, ElementOfSeq
    <3> QED
      BY <1>1, <2>1, <2>2, <3>1, SubSeqProperties
  <2>4. s = [http |-> s.http, tcp_odata |-> s.tcp_odata, tcp_dl |-> s.tcp_dl]
    BY <1>1, <1>3 DEF Store
  <2> HIDE DEF s, n
  <2>5. s.tcp_dl \in 0 .. MaxLen /\ Len(p) \in 0 .. MaxLen
    BY <1>1, <2>1, <2>2
  <2>6. s.http \in {"req", "rsp"}
    BY <2>1
  <2> QED
    BY <1>1, <1>3, <2>1, <2>3, <2>4, <2>5, <2>6 DEF s
<1> QED
  BY <1>2, <1>3

\* A length that fits is kept.
LEMMA Fits ==
  ASSUME NEW n \in Nat, n <= 1000
  PROVE  Shorter(n, 0) = n
BY DEF Shorter

\* A remainder is a length.
LEMMA Remains ==
  ASSUME NEW n \in Int
  PROVE  n % 65536 \in Lengths
BY SMT DEF Lengths

\* What is left of a length is a length.
LEMMA Shortens ==
  ASSUME NEW n \in Int, NEW cut \in Int
  PROVE  Shorter(n, cut) \in Lengths
<1>1. n - cut \in Int
  OBVIOUS
<1>2. (n - cut) % 65536 \in Lengths
  BY <1>1, Remains
<1> QED
  BY SMT, <1>2 DEF Shorter

\* A payload is no longer than tcp_dl can say.
LEMMA IsLength ==
  ASSUME NEW n \in Nat, n <= 1000
  PROVE  n \in Lengths
<1>1. n % 65536 \in Lengths
  BY Remains
<1>2. n % 65536 = n
  BY SMT
<1> QED
  BY SMT, <1>1, <1>2

\* A length is a number.
LEMMA LengthsAre == Lengths \subseteq Nat
BY SMT DEF Lengths

\* What the invariant says of a packet.
LEMMA PacketIs ==
  ASSUME IInv, pkt # NULL
  PROVE  LET s == Store(payload, Len(payload))
         IN /\ pkt.http = s.http /\ pkt.tcp_odata = s.tcp_odata /\ pkt.tcp_dl \in Lengths
            /\ pkt = [http |-> s.http, tcp_odata |-> s.tcp_odata, tcp_dl |-> pkt.tcp_dl]
            /\ s.http = "none" => pkt.tcp_dl = s.tcp_dl
            /\ s.http # "none" =>
                 \E cut \in Cuts \cup {0} : pkt.tcp_dl = Shorter(s.tcp_dl, cut)
<1> DEFINE s == Store(payload, Len(payload))
<1>1. payload \in Seq(Atoms) /\ Len(payload) <= MaxLen /\ Shortened(pkt, s)
  BY DEF IInv
<1>2. MaxLen <= 1000 /\ MaxLen \in Nat /\ s.tcp_dl \in 0 .. MaxLen
  BY <1>1, StoreIs
<1> HIDE DEF s
<1>3. PICK cut \in Cuts \cup {0} :
        pkt = [http |-> s.http, tcp_odata |-> s.tcp_odata,
               tcp_dl |-> IF s.http = "none" THEN s.tcp_dl ELSE Shorter(s.tcp_dl, cut)]
  BY <1>1 DEF Shortened
<1>4. cut \in Int /\ s.tcp_dl \in Nat /\ s.tcp_dl <= 1000
  BY <1>2, Assumed
<1>5. Shorter(s.tcp_dl, cut) \in Lengths /\ s.tcp_dl \in Lengths
  <2>1. s.tcp_dl \in Int
    BY <1>4
  <2> QED
    BY <1>4, <2>1, Shortens, IsLength
<1>6. /\ pkt.http = s.http /\ pkt.tcp_odata = s.tcp_odata
      /\ pkt.tcp_dl = IF s.http = "none" THEN s.tcp_dl ELSE Shorter(s.tcp_dl, cut)
      /\ pkt = [http |-> s.http, tcp_odata |-> s.tcp_odata, tcp_dl |-> pkt.tcp_dl]
  BY <1>3
<1>7. pkt.tcp_dl \in Lengths
  BY <1>5, <1>6
<1>8. /\ s.http = "none" => pkt.tcp_dl = s.tcp_dl
      /\ s.http # "none" => pkt.tcp_dl = Shorter(s.tcp_dl, cut)
  BY <1>6
<1> QED
  BY <1>6, <1>7, <1>8 DEF s

\* The properties below rest on this invariant.
THEOREM Invariance == Spec => []IInv
<1>1. Init => IInv
  <2> SUFFICES ASSUME Init PROVE IInv
    OBVIOUS
  <2>1. payload = <<>> /\ <<>> \in Seq(Atoms) /\ Len(<<>>) = 0
    BY EmptySeq DEF Init
  <2> QED
    BY <2>1, Assumed DEF Init, IInv
<1>2. IInv /\ [Next]_vars => IInv'
  <2> SUFFICES ASSUME IInv, [Next]_vars PROVE IInv'
    OBVIOUS
  <2>1. CASE UNCHANGED vars
    BY <2>1 DEF IInv, vars
  <2>2. ASSUME NEW s \in Starts, Begin(s) PROVE IInv'
    BY <2>2, Assumed DEF Begin, IInv
  <2>3. ASSUME NEW p \in Pieces, Extend(p) PROVE IInv'
    <3>1. p \in Seq(Atoms)
      BY <2>3, Assumed
    <3>2. payload' \in Seq(Atoms) /\ Len(payload') = Len(payload) + Len(p)
      BY <2>3, <3>1, Prefix DEF Extend, IInv
    <3> QED
      BY <2>3, <3>2 DEF Extend, IInv
  <2>4. ASSUME NEW f \in Frames, Capture(f) PROVE IInv'
    <3>1. payload' \in Seq(Atoms) /\ Len(payload') <= MaxLen
      <4>1. <<>> \in Seq(Atoms) /\ Len(<<>>) = 0
        BY EmptySeq
      <4> QED
        BY <2>4, <4>1, Assumed DEF Capture, IInv
    <3>2. TcpDl(f, payload) = Len(payload)
      <4>1. f.ihl \in Int /\ f.th_off \in Int
        <5>1. f \in Headers
          BY <2>4, Assumed
        <5>2. f.ihl \in 5 .. 15 /\ f.th_off \in 5 .. 15
          BY <5>1 DEF Headers
        <5> QED
          BY <5>2
      <4>2. Len(payload) \in Nat /\ Len(payload) <= 1000
        <5>1. Len(payload) \in Nat
          BY LenProperties DEF IInv
        <5>2. Len(payload) <= MaxLen
          BY DEF IInv
        <5>3. MaxLen \in Nat /\ MaxLen <= 1000
          BY Assumed
        <5> QED
          BY <5>1, <5>2, <5>3
      <4> DEFINE a == f.ihl
                 b == f.th_off
                 n == Len(payload)
      <4>3. TcpDl(f, payload) = (a * 4 + b * 4 + n - a * 4 - b * 4) % 65536
        BY <4>1, <4>2 DEF TcpDl
      <4>4. a \in Int /\ b \in Int /\ n \in Nat /\ n <= 1000
        BY <4>1, <4>2
      <4> HIDE DEF a, b, n
      <4>5. (a * 4 + b * 4 + n - a * 4 - b * 4) % 65536 = n
        BY <4>4, DataLength
      <4> QED
        BY <4>3, <4>5 DEF n
    <3>3. ASSUME pkt' # NULL PROVE Shortened(pkt', Store(payload', Len(payload')))
      <4> DEFINE s == Store(payload, Len(payload))
      <4>1. payload' = payload /\ pkt' = packet_preprocess(f, payload)
        BY <2>4, <3>3 DEF Capture
      <4>2. ~ Ignored(f)
        BY <3>3, <4>1 DEF packet_preprocess
      <4>3. pkt' = s
        BY <3>2, <4>1, <4>2 DEF packet_preprocess
      <4>4. /\ MaxLen <= 1000 /\ MaxLen \in Nat /\ s.tcp_dl \in 0 .. MaxLen
            /\ s = [http |-> s.http, tcp_odata |-> s.tcp_odata, tcp_dl |-> s.tcp_dl]
        BY StoreIs DEF IInv
      <4> HIDE DEF s
      <4>5. Shorter(s.tcp_dl, 0) = s.tcp_dl
        <5>1. s.tcp_dl \in Nat /\ s.tcp_dl <= 1000
          BY <4>4
        <5> QED
          BY <5>1, Fits
      <4>6. s = [http |-> s.http, tcp_odata |-> s.tcp_odata,
                 tcp_dl |-> IF s.http = "none" THEN s.tcp_dl ELSE Shorter(s.tcp_dl, 0)]
        BY <4>4, <4>5, Zenon
      <4>7. Shortened(s, s)
        BY <4>6, Zenon DEF Shortened
      <4> QED
        BY <4>1, <4>3, <4>7 DEF s
    <3>4. header' = NULL
      BY <2>4 DEF Capture, IInv
    <3> QED
      BY <3>1, <3>3, <3>4 DEF IInv
  <2>5. CASE Extract
    <3>1. pkt' = pkt /\ payload' = payload /\ pkt # NULL /\ pkt.http # "none"
      BY <2>5 DEF Extract
    <3>2. Parsed(pkt, header')
      BY <2>5, Zenon DEF Extract, Parsed, ParsedTo, DataEnd
    <3> QED
      BY <3>1, <3>2 DEF IInv
  <2>7. ASSUME NEW cut \in Cuts, Order(cut) PROVE IInv'
    <3> DEFINE s == Store(payload, Len(payload))
               q == pkt'
    <3>1. /\ pkt # NULL /\ pkt.http # "none" /\ pkt.tcp_dl = Len(pkt.tcp_odata)
          /\ q = [pkt EXCEPT !.tcp_dl = Shorter(@, cut)]
          /\ payload' = payload /\ header' = NULL
      BY <2>7 DEF Order
    <3>2. /\ pkt.http = s.http /\ pkt.tcp_odata = s.tcp_odata
          /\ pkt = [http |-> s.http, tcp_odata |-> s.tcp_odata, tcp_dl |-> pkt.tcp_dl]
      BY <3>1, PacketIs
    <3>3. s.http # "none" => s.tcp_dl = Len(s.tcp_odata)
      BY StoreIs DEF IInv
    <3> HIDE DEF s, q
    <3>4. pkt.tcp_dl = s.tcp_dl /\ s.http # "none"
      BY <3>1, <3>2, <3>3
    <3>5. q = [http |-> s.http, tcp_odata |-> s.tcp_odata,
               tcp_dl |-> Shorter(s.tcp_dl, cut)]
      BY <3>1, <3>2, <3>4
    <3>6. q = [http |-> s.http, tcp_odata |-> s.tcp_odata,
               tcp_dl |-> IF s.http = "none" THEN s.tcp_dl ELSE Shorter(s.tcp_dl, cut)]
      BY <3>4, <3>5, Zenon
    <3>7. Shortened(q, s)
      BY <3>6, Zenon DEF Shortened
    <3> QED
      BY <3>1, <3>7 DEF IInv, s, q
  <2>6. CASE Free
    <3>1. <<>> \in Seq(Atoms) /\ Len(<<>>) = 0
      BY EmptySeq
    <3> QED
      BY <2>6, <3>1, Assumed DEF Free, IInv
  <2> QED
    BY <2>1, <2>2, <2>3, <2>4, <2>5, <2>6, <2>7 DEF Next
<1> QED
  BY <1>1, <1>2, PTL DEF Spec

\* packet_preprocess, main.c:48-148: whatever follows the header of a segment, the
\* segment is taken for the same kind of message and its header ends in the same
\* place, so that no byte of a body is ever read as part of a header.
THEOREM RecognisedKept == Spec => RecognisedStays
<1> DEFINE Kept ==
      payload # <<>> /\ payload' # <<>> =>
        /\ IsRequest(payload) # 0 => IsRequest(payload') = IsRequest(payload)
        /\ IsResponse(payload) # 0 => IsResponse(payload') = IsResponse(payload)
<1>1. IInv /\ [Next]_vars => [Kept]_vars
  <2> SUFFICES ASSUME IInv, Next, payload # <<>>, payload' # <<>>
               PROVE  Kept
    BY DEF Kept
  <2>1. CASE payload' = payload
    BY <2>1
  <2>2. ASSUME NEW s \in Starts, Begin(s) PROVE Kept
    BY <2>2 DEF Begin
  <2>3. ASSUME NEW p \in Pieces, Extend(p) PROVE Kept
    <3>1. p \in Seq(Atoms)
      BY <2>3, Assumed
    <3>2. payload' = payload \o p /\ payload \in Seq(Atoms)
      BY <2>3 DEF Extend, IInv
    <3> QED
      BY <3>1, <3>2, RecognitionKept
  <2>4. ASSUME NEW f \in Frames, Capture(f) PROVE Kept
    BY <2>1, <2>4 DEF Capture
  <2>5. CASE Extract
    BY <2>1, <2>5 DEF Extract
  <2>6. CASE Free
    BY <2>6 DEF Free
  <2>7. ASSUME NEW cut \in Cuts, Order(cut) PROVE Kept
    BY <2>1, <2>7 DEF Order
  <2> QED
    BY <2>2, <2>3, <2>4, <2>5, <2>6, <2>7 DEF Next
<1>2. Spec => [][Kept]_vars
  BY <1>1, Invariance, PTL DEF Spec
<1> QED
  BY <1>2 DEF RecognisedStays

\* packet_preprocess, main.c:98-145: a packet marked as HTTP holds the header, the
\* whole header and nothing else, and a payload that begins as a request or a
\* response and has a blank line is not passed over.
THEOREM HeaderStored == Spec => []HeaderWhole
<1>1. IInv => HeaderWhole
  <2> SUFFICES ASSUME IInv, pkt # NULL, NoShortLine(payload)
               PROVE  LET ends == {n \in 1 .. Len(payload) : EndsBlank(SubSeq(payload, 1, n))}
                      IN /\ pkt.http # "none" =>
                              /\ ends # {}
                              /\ pkt.tcp_odata = SubSeq(payload, 1, Least(ends))
                              /\ \E cut \in Cuts \cup {0} :
                                   pkt.tcp_dl = Shorter(Least(ends), cut)
                         /\ pkt.http = "none" =>
                              /\ pkt.tcp_dl = Len(payload)
                              /\ ends # {} => /\ payload[1] \notin Versions
                                              /\ ~ (payload[1] \in Methods /\ payload[2] = "SP")
    BY DEF HeaderWhole
  <2> DEFINE ends == {n \in 1 .. Len(payload) : EndsBlank(SubSeq(payload, 1, n))}
  <2> DEFINE s == Store(payload, Len(payload))
  <2>1. payload \in Seq(Atoms) /\ Len(payload) <= MaxLen
    BY DEF IInv
  <2>a. /\ pkt.http = s.http /\ pkt.tcp_odata = s.tcp_odata
        /\ s.http = "none" => pkt.tcp_dl = s.tcp_dl
        /\ s.http # "none" =>
             \E cut \in Cuts \cup {0} : pkt.tcp_dl = Shorter(s.tcp_dl, cut)
    BY PacketIs
  <2>b. /\ s.http = "none" <=> payload = <<>> \/ ~ IsHttpPacket(payload)
        /\ s.http = "none" => s.tcp_dl = Len(payload)
    BY <2>1, StoreIs
  <2> HIDE DEF s
  <2>2. ends = Ends(payload)
    BY <2>1, BlankLine
  <2>3. ends # {} => find_header_end(payload) # 0 /\ find_header_end(payload) = Least(ends)
    BY <2>1, <2>2, HeaderEnd DEF find_header_end
  <2>4. Len(payload) \in Nat /\ (Len(payload) = 0 <=> payload = <<>>)
    BY <2>1, LenProperties, EmptySeq
  <2>5. CASE payload # <<>> /\ IsHttpPacket(payload)
    <3>1. find_header_end(payload) # 0
      BY <2>1, <2>5, StoredHeader
    <3>2. ends # {}
      BY <2>1, <2>2, <3>1, HeaderEnd
    <3>3. s.http # "none"
      BY <2>b, <2>5
    <3> HIDE DEF ends
    <3>4. /\ s.tcp_dl = Least(ends)
          /\ s.tcp_odata = SubSeq(payload, 1, Least(ends))
      BY <2>1, <2>3, <2>5, <3>2, StoredHeader DEF s
    <3> QED
      BY <2>a, <3>2, <3>3, <3>4 DEF ends
  <2>6. CASE payload = <<>> \/ ~ IsHttpPacket(payload)
    <3>2. pkt.http = "none" /\ pkt.tcp_dl = Len(payload)
      BY <2>a, <2>b, <2>6
    <3>3. ASSUME ends # {}
          PROVE  /\ payload[1] \notin Versions
                 /\ ~ (payload[1] \in Methods /\ payload[2] = "SP")
      <4>1. payload # <<>>
        BY <2>4, <3>3
      <4> QED
        BY <2>1, <2>3, <2>6, <3>3, <4>1, Recognised
    <3> QED
      BY <3>2, <3>3
  <2> QED
    BY <2>5, <2>6
<1> QED
  BY <1>1, Invariance, PTL

\* The first line ends where it ends whether or not the search stops at the header end:
\* only the NUL lies between.
LEMMA SameFirstLine ==
  ASSUME NEW t, NEW n \in Nat, n >= 1, Len(t) = n + 1, t[n] = "LF", t[n + 1] # "LF"
  PROVE  FirstLineEnd(t, 0) = FirstLineEnd(t, n)
<1> DEFINE lfs(e) == {i \in 1 .. e : t[i] = "LF"}
           lf == NextLf(t, 1, n)
<1>1. lfs(n + 1) = lfs(n)
  <2>1. \A i \in 1 .. n + 1 : t[i] = "LF" => i \in 1 .. n
    OBVIOUS
  <2> QED
    BY <2>1
<1>2. NextLf(t, 1, n + 1) = lf
  <2> HIDE DEF lfs
  <2>1. \A e : NextLf(t, 1, e) = IF lfs(e) = {} THEN 0 ELSE Least(lfs(e))
    BY DEF NextLf, lfs
  <2> QED
    BY <1>1, <2>1
<1>3. lf \in 1 .. n
  <2>1. 1 \in 1 .. n
    OBVIOUS
  <2> QED
    BY <2>1, LineEnd
<1> DEFINE E(e) == CASE lf = 0 -> [lineend |-> e, eol |-> e]
                     [] lf > 1 /\ t[lf - 1] = "CR" -> [lineend |-> lf, eol |-> lf - 1]
                     [] lf > 1 /\ t[lf - 1] # "CR" /\ lf < e - 1 /\ t[lf + 1] = "CR" ->
                          [lineend |-> lf + 1, eol |-> lf]
                     [] OTHER -> [lineend |-> lf, eol |-> lf]
<1>4. find_line_end(t, 1, n) = E(n) /\ find_line_end(t, 1, n + 1) = E(n + 1)
  BY <1>2 DEF find_line_end
<1> HIDE DEF lf
<1>5. (lf < n - 1 /\ t[lf + 1] = "CR") <=> (lf < n + 1 - 1 /\ t[lf + 1] = "CR")
  <2>1. CASE lf = n - 1
    <3>1. lf + 1 = n
      BY <1>3, <2>1
    <3>2. t[lf + 1] = "LF"
      BY <3>1
    <3> QED
      BY <3>2
  <2>2. CASE lf # n - 1
    BY <1>3, <2>2
  <2> QED
    BY <2>1, <2>2
<1>6. lf # 0
  BY <1>3
<1>7. E(n) = E(n + 1)
  BY <1>5, <1>6
<1> HIDE DEF E
<1>8. FirstLineEnd(t, 0) = find_line_end(t, 1, n + 1)
      /\ FirstLineEnd(t, n) = find_line_end(t, 1, n)
  BY DEF FirstLineEnd
<1> QED
  BY <1>4, <1>7, <1>8

\* The end of the header is found if the search goes that far, and else none is.
LEMMA HeaderEndWithin ==
  ASSUME NEW p \in Seq(Atoms), find_header_end(p) # 0, NEW n, n = find_header_end(p),
         NEW d \in 1 .. n + 1
  PROVE  find_header_end(SubSeq(Copied(p), 1, d)) = IF d >= n THEN n ELSE 0
<1> DEFINE t == Copied(p)
           u == SubSeq(t, 1, d)
<1>1. /\ n \in 1 .. Len(p) /\ Len(p) \in Nat
      /\ t \in Seq(Symbols) /\ Len(t) = n + 1
      /\ find_header_end(t) = n
  BY CopyIs
<1> HIDE DEF t
<1>2. n \in Nat /\ d \in Nat /\ d >= 1 /\ d <= n + 1 /\ n >= 1
  BY <1>1
<1>3. \A i \in 1 .. d : t[i] \in Symbols
  BY <1>1, <1>2, ElementOfSeq
<1>4. u \in Seq(Symbols) /\ Len(u) = d /\ \A i \in 1 .. d : u[i] = t[i]
  <2>1. /\ u \in Seq(Symbols) /\ Len(u) = IF 1 <= d THEN d - 1 + 1 ELSE 0
        /\ \A i \in 1 .. d - 1 + 1 : u[i] = t[1 + i - 1]
    BY <1>2, <1>3, SubSeqProperties
  <2>2. d - 1 + 1 = d /\ \A i \in 1 .. d : 1 + i - 1 = i
    BY <1>2
  <2> QED
    BY <1>2, <2>1, <2>2
<1> HIDE DEF u
<1>5. /\ DOMAIN t = 1 .. Len(t) /\ DOMAIN u = 1 .. Len(u)
      /\ Len(t) \in Nat /\ Len(u) \in Nat /\ d <= Len(t) /\ d <= Len(u)
  BY <1>1, <1>2, <1>4, LenProperties
<1>6. ASSUME NEW j \in 1 .. d PROVE j \in Ends(t) <=> j \in Ends(u)
  BY <1>2, <1>4, <1>5, SameEnds
<1>7. Ends(u) \subseteq 1 .. d
  BY <1>4, HeaderEnd
<1>8. n \in Ends(t) /\ \A j \in Ends(t) : n <= j
  <2>1. n # 0
    BY <1>2
  <2> QED
    BY <1>1, <2>1, HeaderEnd
<1>9. CASE d >= n
  <2>1. n \in Ends(u)
    <3>1. n \in 1 .. d
      BY <1>2, <1>9
    <3> QED
      BY <1>6, <1>8, <3>1
  <2>2. \A j \in Ends(u) : n <= j
    BY <1>6, <1>7, <1>8
  <2>3. /\ find_header_end(u) \in Ends(u)
        /\ \A j \in Ends(u) : find_header_end(u) <= j
    BY <1>4, <2>1, HeaderEnd
  <2>4. find_header_end(u) <= n /\ n <= find_header_end(u) /\ find_header_end(u) \in Nat
    BY <1>7, <2>1, <2>2, <2>3
  <2>5. find_header_end(u) = n
    BY <1>2, <2>4
  <2> QED
    BY <1>9, <2>5 DEF u, t
<1>10. CASE ~ (d >= n)
  <2>1. Ends(u) = {}
    <3> SUFFICES ASSUME NEW j \in Ends(u) PROVE FALSE
      OBVIOUS
    <3>1. j \in 1 .. d /\ j \in Ends(t)
      BY <1>6, <1>7
    <3>2. n <= j
      BY <1>8, <3>1
    <3> QED
      BY <1>2, <1>10, <3>1, <3>2
  <2>2. find_header_end(u) = 0
    BY <1>4, <2>1, HeaderEnd
  <2> QED
    BY <1>10, <2>2 DEF u, t
<1> QED
  BY <1>9, <1>10

\* Two parsed headers say the same of the first line.
SameLine(g, h) ==
  /\ g.ret = h.ret /\ g.method = h.method /\ g.uri = h.uri
  /\ g.version = h.version /\ g.status = h.status

\* A header that has lost its end is read up to the end of its first line all the same.
LEMMA LineParsed ==
  ASSUME NEW t, NEW n, FirstLineEnd(t, 0) = FirstLineEnd(t, n), NEW hdl, NEW http
  PROVE  /\ SameLine(ParsedTo(http, t, 0, hdl), ParsedTo(http, t, n, n))
         /\ ParsedTo(http, t, 0, hdl).hdlen = hdl
         /\ ParsedTo(http, t, n, n).hdlen = n
<1> DEFINE last   == FirstLineEnd(t, n).lineend
           method == http_request_method(t, 1, last + 1)
           status == http_response_status(t, 1, last + 1)
           uri == http_request_uri(t, 1, last + 1)
           version == http_request_version(t, 1, last + 1)
           wanted == RequestFields \cup (IF method = "POST" THEN RequestContent ELSE {})
           fields == RequestFields \cup RequestContent
           Req(k) == IF method = "NONE" THEN Unparsed(fields, k)
                     ELSE [ret |-> 0, hdlen |-> k, method |-> method,
                           status |-> HTTP_ST_NONE, uri |-> uri, version |-> version,
                           param |-> [f \in fields |-> IF f \in wanted THEN Field(t, k, f)
                                                       ELSE <<>>]]
           Rsp(k) == IF status = HTTP_ST_NONE THEN Unparsed(ResponseFields, k)
                     ELSE [ret |-> 0, hdlen |-> k, method |-> "NONE", uri |-> <<>>,
                           status |-> status, version |-> http_response_version(t),
                           param |-> [f \in ResponseFields |-> Field(t, k, f)]]
<1>1. http_parse_request(t, 0, hdl) = Req(hdl) /\ http_parse_request(t, n, n) = Req(n)
  BY Zenon DEF http_parse_request
<1>2. http_parse_response(t, 0, hdl) = Rsp(hdl) /\ http_parse_response(t, n, n) = Rsp(n)
  BY Zenon DEF http_parse_response
<1> HIDE DEF method, status, uri, version, wanted, fields
<1>3. SameLine(Req(hdl), Req(n)) /\ Req(hdl).hdlen = hdl /\ Req(n).hdlen = n
  BY DEF SameLine, Unparsed
<1>4. SameLine(Rsp(hdl), Rsp(n)) /\ Rsp(hdl).hdlen = hdl /\ Rsp(n).hdlen = n
  BY DEF SameLine, Unparsed
<1> HIDE DEF Req, Rsp
<1>5. CASE http = "req"
  <2>1. \A eoh, k : ParsedTo(http, t, eoh, k) = http_parse_request(t, eoh, k)
    BY <1>5 DEF ParsedTo
  <2> QED
    BY <1>1, <1>3, <2>1
<1>6. CASE http # "req"
  <2>1. \A eoh, k : ParsedTo(http, t, eoh, k) = http_parse_response(t, eoh, k)
    BY <1>6 DEF ParsedTo
  <2> QED
    BY <1>2, <1>4, <2>1
<1> QED
  BY <1>5, <1>6

\* The header that is parsed of the packet as it was stored.
WholeHeader(p) ==
  LET n == find_header_end(p)
  IN IF IsRequest(p) # 0 THEN http_parse_request(Copied(p), n, n)
     ELSE http_parse_response(Copied(p), n, n)

\* What the invariant says of a header that was parsed.
LEMMA HeaderParsed ==
  ASSUME IInv, header # NULL
  PROVE  /\ payload \in Seq(Atoms) /\ payload # <<>> /\ IsHttpPacket(payload)
         /\ find_header_end(payload) \in 1 .. Len(payload)
         /\ pkt # NULL /\ pkt.http # "none"
         /\ pkt.tcp_odata = SubSeq(payload, 1, find_header_end(payload))
         /\ Len(pkt.tcp_odata) = find_header_end(payload)
         /\ pkt.http = IF IsRequest(payload) # 0 THEN "req" ELSE "rsp"
         /\ SameLine(header, WholeHeader(payload))
         /\ header.hdlen \in 0 .. find_header_end(payload) + 1
         /\ Reaches => header = WholeHeader(payload)
<1> DEFINE p == payload
           s == Store(payload, Len(payload))
           n == find_header_end(payload)
           t == Copied(payload)
           d == DataEnd(pkt, t)
<1>1. /\ p \in Seq(Atoms) /\ Len(p) <= MaxLen /\ pkt # NULL
      /\ pkt.http # "none" /\ Parsed(pkt, header)
  BY DEF IInv
<1>2. /\ pkt.http = s.http /\ pkt.tcp_odata = s.tcp_odata
      /\ pkt.tcp_dl \in Lengths
  BY <1>1, PacketIs
<1>3. p # <<>> /\ IsHttpPacket(p) /\ s.tcp_dl = Len(s.tcp_odata)
  <2>1. s.http # "none"
    BY <1>1, <1>2
  <2> HIDE DEF s
  <2>2. /\ s.http = "none" <=> p = <<>> \/ ~ IsHttpPacket(p)
        /\ s.http # "none" => s.tcp_dl = Len(s.tcp_odata)
    BY <1>1, StoreIs DEF s
  <2> QED
    BY <2>1, <2>2
<1>4. /\ n # 0 /\ s.tcp_dl = n /\ pkt.tcp_odata = SubSeq(p, 1, n)
      /\ pkt.http = IF IsRequest(p) # 0 THEN "req" ELSE "rsp"
  BY <1>1, <1>2, <1>3, StoredHeader
<1>5. Len(pkt.tcp_odata) = n
  BY <1>2, <1>3, <1>4
<1>6. /\ n \in 1 .. Len(p) /\ p[n] = "LF" /\ n > 1 /\ Len(p) \in Nat
      /\ Len(t) = n + 1
      /\ \A i \in 1 .. n : t[i] = p[i]
  BY <1>1, <1>4, CopyIs
<1>7. t = Append(pkt.tcp_odata, "NUL") /\ t[n + 1] = "NUL"
  <2>1. t = Append(pkt.tcp_odata, "NUL")
    BY <1>4 DEF Copied
  <2>2. pkt.tcp_odata \in Seq(Atoms)
    BY <1>1, <1>2, StoreIs
  <2>3. Append(pkt.tcp_odata, "NUL")[Len(pkt.tcp_odata) + 1] = "NUL"
    <3>1. pkt.tcp_odata \in Seq(Symbols) /\ "NUL" \in Symbols
      <4> DEFINE w == pkt.tcp_odata
      <4>1. w \in Seq(Atoms)
        BY <2>2
      <4> HIDE DEF w
      <4>2. \A i \in 1 .. Len(w) : w[i] \in Symbols
        BY <4>1, ElementOfSeq DEF Symbols
      <4>3. w = [i \in 1 .. Len(w) |-> w[i]] /\ Len(w) \in Nat
        BY <4>1, LenProperties
      <4>4. w \in Seq(Symbols)
        BY <4>2, <4>3
      <4> QED
        BY <4>4 DEF Symbols, w
    <3> QED
      BY <3>1, AppendProperties
  <2> QED
    BY <1>5, <2>1, <2>3
<1> HIDE DEF p, s, n, t, d
<1>8. n \in Nat /\ n >= 1
  BY <1>6
<1>9. d \in 1 .. n + 1 /\ (Reaches => d >= n)
  <2>1. d = IF pkt.tcp_dl < n + 1 THEN pkt.tcp_dl + 1 ELSE n + 1
    BY <1>6 DEF d, DataEnd
  <2>2. Reaches <=> pkt.tcp_dl + 1 >= n
    BY <1>5 DEF Reaches
  <2>3. pkt.tcp_dl \in Nat
    BY <1>2, LengthsAre
  <2> QED
    BY <1>8, <2>1, <2>2, <2>3
<1>10. find_header_end(SubSeq(t, 1, d)) = IF d >= n THEN n ELSE 0
  BY <1>1, <1>4, <1>9, HeaderEndWithin DEF t, n, p
<1>11. FirstLineEnd(t, 0) = FirstLineEnd(t, n)
  <2>1. t[n] = "LF"
    <3>1. n \in 1 .. n
      BY <1>8
    <3> QED
      BY <1>6, <3>1
  <2> QED
    BY <1>6, <1>7, <1>8, <2>1, SameFirstLine
<1> DEFINE eoh == IF d >= n THEN n ELSE 0
<1>12. \E hdl \in IF eoh = 0 THEN 0 .. n + 1 ELSE {eoh} :
         header = ParsedTo(pkt.http, t, eoh, hdl)
  <2>1. \E hdl \in IF find_header_end(SubSeq(t, 1, d)) = 0 THEN 0 .. Len(t)
                    ELSE {find_header_end(SubSeq(t, 1, d))} :
          header = ParsedTo(pkt.http, t, find_header_end(SubSeq(t, 1, d)), hdl)
    BY <1>1, <1>7, Zenon DEF Parsed, d
  <2> HIDE DEF eoh
  <2>2. find_header_end(SubSeq(t, 1, d)) = eoh
    BY <1>10 DEF eoh
  <2> QED
    BY <1>6, <2>1, <2>2
<1>13. WholeHeader(payload) = ParsedTo(pkt.http, t, n, n)
  BY <1>4 DEF WholeHeader, ParsedTo, p, n, t
<1>14. /\ SameLine(header, ParsedTo(pkt.http, t, n, n))
       /\ header.hdlen \in 0 .. n + 1
       /\ d >= n => header = ParsedTo(pkt.http, t, n, n)
  <2>1. CASE d >= n
    <3>1. header = ParsedTo(pkt.http, t, n, n)
      BY <1>8, <1>12, <2>1
    <3>2. SameLine(header, header)
      BY DEF SameLine
    <3>3. header.hdlen = n
      BY <1>11, <3>1, LineParsed
    <3> QED
      BY <1>8, <3>1, <3>2, <3>3
  <2>2. CASE ~ (d >= n)
    <3>1. PICK hdl \in 0 .. n + 1 : header = ParsedTo(pkt.http, t, 0, hdl)
      BY <1>12, <2>2
    <3>2. SameLine(header, ParsedTo(pkt.http, t, n, n)) /\ header.hdlen = hdl
      BY <1>11, <3>1, LineParsed
    <3> QED
      BY <2>2, <3>1, <3>2
  <2> QED
    BY <2>1, <2>2
<1> QED
  BY <1>1, <1>3, <1>4, <1>5, <1>6, <1>9, <1>13, <1>14 DEF p, n

\* flow_extract_http, flow.c:376-745: what main.c took for a request is parsed as a
\* request when the flow ends and what it took for a response as a response, whatever
\* tcp_order has taken of the packet between, and with the same end of its header unless
\* that is more than one symbol; but a request with CR LF before its method is never
\* parsed.
THEOREM ParsersAgree == Spec => []ParsedAsRecognised
<1>1. IInv => ParsedAsRecognised
  <2> SUFFICES ASSUME IInv, header # NULL
               PROVE  /\ Reaches => header.hdlen = Len(pkt.tcp_odata)
                      /\ pkt.http = "req" =>
                           IF pkt.tcp_odata[1] = "CR" THEN header.ret = -1
                           ELSE header.ret = 0 /\ header.method \in Methods
                      /\ pkt.http = "rsp" => header.method = "NONE"
    BY DEF ParsedAsRecognised
  <2> DEFINE p == payload
             n == find_header_end(payload)
             W == WholeHeader(payload)
  <2>1. /\ p \in Seq(Atoms) /\ p # <<>> /\ Len(pkt.tcp_odata) = n /\ n \in 1 .. Len(p)
        /\ pkt.tcp_odata = SubSeq(p, 1, n)
        /\ pkt.http = IF IsRequest(p) # 0 THEN "req" ELSE "rsp"
        /\ SameLine(header, W)
        /\ Reaches => header = W
    BY HeaderParsed
  <2>2. pkt.tcp_odata[1] = p[1]
    <3>1. \A i \in 1 .. n : p[i] \in Atoms
      BY <2>1, ElementOfSeq, LenProperties
    <3>2. \A i \in 1 .. n : SubSeq(p, 1, n)[i] = p[1 + i - 1]
      BY <2>1, <3>1, SubSeqProperties, LenProperties
    <3>3. 1 \in 1 .. n /\ 1 + 1 - 1 = 1
      BY <2>1, LenProperties
    <3> QED
      BY <2>1, <3>2, <3>3
  <2>3. W = IF IsRequest(p) # 0 THEN http_parse_request(Copied(p), n, n)
            ELSE http_parse_response(Copied(p), n, n)
    BY DEF WholeHeader
  <2>4. header.ret = W.ret /\ header.method = W.method
    BY <2>1 DEF SameLine
  <2> HIDE DEF p, n, W
  <2>5. CASE IsRequest(p) # 0
    <3>1. /\ W.hdlen = n
          /\ IF p[1] = "CR" THEN W.ret = -1 ELSE W.ret = 0 /\ W.method \in Methods
      BY <2>1, <2>3, <2>5, RequestParsed DEF n, p
    <3> QED
      BY <2>1, <2>2, <2>4, <2>5, <3>1
  <2>6. CASE IsRequest(p) = 0
    <3>1. n # 0
      BY <2>1, LenProperties
    <3>2. W.hdlen = n /\ W.method = "NONE"
      BY <2>1, <2>3, <2>6, <3>1, ResponseParsed DEF n, p
    <3> QED
      BY <2>1, <2>4, <2>6, <3>2
  <2> QED
    BY <2>5, <2>6
<1> QED
  BY <1>1, Invariance, PTL

\* Types, flow_extract_http with http.c: tcp_dl fits whatever tcp_order takes of it, the
\* length of a header is never more than that of the copy with the NUL, and no field
\* holds anything but symbols of the payload, never that NUL, unless the header has lost
\* its end.
THEOREM TypeCorrect == Spec => []TypeOK
<1>1. IInv => TypeOK
  <2> SUFFICES ASSUME IInv PROVE TypeOK
    OBVIOUS
  <2>1. payload \in Seq(Atoms) /\ Len(payload) <= MaxLen /\ Len(payload) \in Nat
    BY LenProperties DEF IInv
  <2>2. MaxLen \in Nat
    BY Assumed
  <2>3. ASSUME pkt # NULL
        PROVE  /\ pkt.http \in {"none", "req", "rsp"} /\ pkt.tcp_dl \in Lengths
               /\ pkt.tcp_odata \in Seq(Atoms)
    <3> DEFINE s == Store(payload, Len(payload))
    <3>1. /\ pkt.http = s.http /\ pkt.tcp_odata = s.tcp_odata
          /\ pkt.tcp_dl \in Lengths
      BY <2>3, PacketIs
    <3>2. s.tcp_odata \in Seq(Atoms) /\ s.http \in {"none", "req", "rsp"}
      BY <2>1, StoreIs
    <3> HIDE DEF s
    <3> QED
      BY <3>1, <3>2
  <2>4. ASSUME header # NULL
        PROVE  /\ pkt # NULL /\ pkt.http # "none"
               /\ header.ret \in {0, -1} /\ header.hdlen \in 0 .. MaxLen + 1
               /\ Reaches =>
                    \A f \in DOMAIN header.param : header.param[f] \in Seq(Atoms)
    <3> DEFINE n == find_header_end(payload)
               t == Copied(payload)
               W == WholeHeader(payload)
    <3>1. /\ n \in 1 .. Len(payload) /\ pkt # NULL /\ pkt.http # "none"
          /\ SameLine(header, W) /\ header.hdlen \in 0 .. n + 1
          /\ Reaches => header = W
      BY <2>4, HeaderParsed
    <3>2. n # 0
      BY <3>1
    <3>3. n \in Nat /\ n >= 1 /\ n \in 1 .. MaxLen
      BY <2>1, <2>2, <3>1
    <3>4. EndsLine(t, n) /\ Len(t) = n + 1
      <4>1. /\ n \in 1 .. Len(payload) /\ payload[n] = "LF"
            /\ t \in Seq(Symbols) /\ Len(t) = n + 1
            /\ \A i \in 1 .. n : t[i] = payload[i] /\ payload[i] \in Atoms
        BY <2>1, <3>2, CopyIs
      <4> HIDE DEF t, n
      <4>2. n \in 1 .. n /\ n <= n + 1
        BY <3>3
      <4> QED
        BY <3>3, <4>1, <4>2 DEF EndsLine
    <3>5. W = http_parse_request(t, n, n) \/ W = http_parse_response(t, n, n)
      BY DEF WholeHeader
    <3> HIDE DEF n, t, W
    <3>6. /\ W.ret \in {0, -1}
          /\ \A f \in DOMAIN W.param : W.param[f] \in Seq(Atoms)
      BY <3>3, <3>4, <3>5, HeaderFields
    <3>7. header.ret = W.ret
      BY <3>1 DEF SameLine
    <3>8. header.hdlen \in 0 .. MaxLen + 1
      BY <2>2, <3>1, <3>3
    <3> QED
      BY <3>1, <3>6, <3>7, <3>8
  <2> QED
    BY <2>1, <2>3, <2>4 DEF TypeOK
<1> QED
  BY <1>1, Invariance, PTL

-----------------------------------------------------------------------------
(* Lines and words of a header, as the parser and as the sender see them. *)

\* w is a header of n symbols in lines that end in LF or CR LF, and t the copy of it
\* that is parsed.
IsHeader(t, w, n) ==
  /\ EndsLine(t, n) /\ n > 1
  /\ w \in Seq(Atoms) /\ Len(w) = n
  /\ \A i \in 1 .. n : t[i] = w[i]
  /\ n \in Ends(w) /\ \A j \in Ends(w) : n <= j
  /\ Regular(w)

BeginsLine(w, i) == i = 1 \/ w[i - 1] = "LF"

\* From the line i, eol is where its end-of-line begins and lf its LF; last is where
\* find_line_end says that it ends.
LineIs(t, w, n, i, lf, eol, last) ==
  /\ lf \in i .. n /\ eol \in i .. lf /\ last \in lf .. n
  /\ t[lf] = "LF" /\ t[eol] \in {"CR", "LF"}
  /\ \A j \in i .. eol - 1 : t[j] \notin {"CR", "LF"}
  /\ \A j \in i .. lf - 1 : t[j] # "LF"
  /\ eol = lf \/ eol = lf - 1
  /\ last = lf \/ (last = lf + 1 /\ last < n /\ t[last] = "CR")
  /\ LineAt(w, i) \in Seq(Atoms) /\ Len(LineAt(w, i)) = eol - i
  /\ \A k \in 1 .. eol - i : LineAt(w, i)[k] = t[i + k - 1]

\* find_line_end of a line and the line as the sender means it.
LEMMA LineShape ==
  ASSUME NEW t, NEW w, NEW n, IsHeader(t, w, n), NEW i \in 1 .. n
  PROVE  LET e == find_line_end(t, i, n)
         IN LineIs(t, w, n, i, NextLf(t, i, n), e.eol, e.lineend)
<1> DEFINE lf == NextLf(t, i, n)
           e  == find_line_end(t, i, n)
           eol == e.eol
           last == e.lineend
           l == LineAt(w, i)
<1>1. /\ n \in Nat /\ n > 1 /\ t[n] = "LF" /\ Len(w) = n /\ w \in Seq(Atoms)
      /\ \A j \in 1 .. n : t[j] = w[j] /\ w[j] \in Atoms
      /\ DOMAIN w = 1 .. n
  <2>1. w \in Seq(Atoms) /\ Len(w) = n
    BY DEF IsHeader
  <2>2. DOMAIN w = 1 .. n /\ \A j \in 1 .. n : w[j] \in Atoms
    BY <2>1, LenProperties, ElementOfSeq
  <2> QED
    BY <2>1, <2>2 DEF IsHeader, EndsLine
<1>2. /\ lf \in i .. n /\ t[lf] = "LF" /\ \A j \in i .. n : j < lf => t[j] # "LF"
      /\ last \in lf .. n
      /\ \/ lf > i /\ t[lf - 1] = "CR" /\ last = lf /\ eol = lf - 1
         \/ /\ lf > i /\ t[lf - 1] # "CR" /\ last = lf + 1 /\ eol = lf
            /\ lf < n - 1 /\ t[lf + 1] = "CR"
         \/ ~ (lf > i /\ t[lf - 1] = "CR") /\ last = lf /\ eol = lf
  BY <1>1, LineEnd
<1>3. NextLf(w, i, Len(w)) = lf
  <2>1. {j \in i .. n : w[j] = "LF"} = {j \in i .. n : t[j] = "LF"}
    <3>1. \A j \in i .. n : j \in 1 .. n
      BY <1>1
    <3> QED
      BY <1>1, <3>1
  <2> QED
    BY <1>1, <2>1 DEF NextLf
<1> HIDE DEF lf, e
<1>4. lf \in Nat /\ i \in Nat /\ i >= 1 /\ i <= lf /\ lf <= n
  BY <1>1, <1>2
<1> HIDE DEF eol, last
<1>5. /\ eol \in i .. lf /\ (eol = lf \/ eol = lf - 1)
      /\ eol = lf - 1 <=> lf > i /\ t[lf - 1] = "CR"
      /\ last = lf \/ (last = lf + 1 /\ last < n /\ t[last] = "CR")
  BY <1>1, <1>2, <1>4
<1>6. t[eol] \in {"CR", "LF"}
  BY <1>2, <1>5
<1>7. \A j \in i .. lf - 1 : t[j] # "LF"
  <2> SUFFICES ASSUME NEW j \in i .. lf - 1 PROVE t[j] # "LF"
    OBVIOUS
  <2>1. j \in i .. n /\ j < lf
    BY <1>1, <1>4
  <2> QED
    BY <1>2, <2>1
<1>8. ASSUME NEW j \in i .. eol - 1, t[j] = "CR" PROVE FALSE
  <2>1. j \in 1 .. n /\ w[j] = "CR" /\ j \in Nat /\ j < eol /\ i <= j /\ j < lf
    <3>1. j \in 1 .. n /\ j \in Nat /\ j < eol /\ i <= j /\ j < lf
      BY <1>1, <1>4, <1>5
    <3> QED
      BY <1>1, <1>8, <3>1
  <2>2. j + 1 \in 1 .. n /\ w[j + 1] = "LF"
    <3>1. j < Len(w) /\ w[j + 1] = "LF"
      BY <1>1, <2>1 DEF IsHeader, Regular
    <3> QED
      BY <1>1, <2>1, <3>1
  <2>3. t[j + 1] = "LF"
    BY <1>1, <2>2
  <2>4. ~ (j + 1 \in i .. lf - 1)
    BY <1>7, <2>3
  <2>5. j + 1 = lf
    BY <1>4, <2>1, <2>4
  <2>6. lf > i /\ j = lf - 1
    BY <1>4, <2>1, <2>5
  <2>7. t[lf - 1] = "CR"
    BY <1>8, <2>6
  <2>8. eol = lf - 1
    BY <1>5, <2>6, <2>7
  <2> QED
    BY <1>4, <2>1, <2>6, <2>8
<1>9. \A j \in i .. eol - 1 : t[j] \notin {"CR", "LF"}
  <2> SUFFICES ASSUME NEW j \in i .. eol - 1 PROVE t[j] \notin {"CR", "LF"}
    OBVIOUS
  <2>1. j \in i .. lf - 1
    BY <1>4, <1>5
  <2> QED
    BY <1>7, <1>8, <2>1
<1>10. l = SubSeq(w, i, eol - 1)
  <2>1. l = SubSeq(w, i, IF lf > i /\ w[lf - 1] = "CR" THEN lf - 2 ELSE lf - 1)
    BY <1>3 DEF LineAt
  <2>2. lf > i => w[lf - 1] = t[lf - 1]
    <3>1. lf > i => lf - 1 \in 1 .. n
      BY <1>1, <1>4
    <3> QED
      BY <1>1, <3>1
  <2>3. CASE lf > i /\ t[lf - 1] = "CR"
    <3>1. eol = lf - 1 /\ lf - 2 = eol - 1
      BY <1>4, <1>5, <2>3
    <3> QED
      BY <2>1, <2>2, <2>3, <3>1
  <2>4. CASE ~ (lf > i /\ t[lf - 1] = "CR")
    <3>1. eol = lf
      BY <1>4, <1>5, <2>4
    <3> QED
      BY <2>1, <2>2, <2>4, <3>1
  <2> QED
    BY <2>3, <2>4
<1>11. /\ l \in Seq(Atoms) /\ Len(l) = eol - i
       /\ \A k \in 1 .. eol - i : l[k] = t[i + k - 1]
  <2>1. \A j \in i .. eol - 1 : j \in 1 .. n
    BY <1>1, <1>4, <1>5
  <2>2. \A j \in i .. eol - 1 : w[j] \in Atoms
    BY <1>1, <2>1
  <2>3. i \in Int /\ eol - 1 \in Int
    BY <1>4, <1>5
  <2>4. /\ l \in Seq(Atoms)
        /\ Len(l) = IF i <= eol - 1 THEN eol - 1 - i + 1 ELSE 0
        /\ \A k \in 1 .. eol - 1 - i + 1 : l[k] = w[i + k - 1]
    BY <1>10, <2>2, <2>3, SubSeqProperties
  <2>5. Len(l) = eol - i /\ eol - 1 - i + 1 = eol - i
    BY <1>4, <1>5, <2>4
  <2>6. \A k \in 1 .. eol - i : i + k - 1 \in 1 .. n
    BY <1>1, <1>4, <1>5
  <2> QED
    BY <1>1, <2>4, <2>5, <2>6
<1>12. LineIs(t, w, n, i, lf, eol, last)
  BY <1>2, <1>5, <1>6, <1>7, <1>9, <1>11 DEF LineIs
<1> QED
  BY <1>12 DEF lf, e, eol, last

\* From the symbol from on, the token ends at stop and the next one begins at next,
\* in a line with its end-of-line at eol.
IsToken(t, eol, from, stop, next) ==
  /\ stop \in from .. eol /\ next \in stop .. eol
  /\ \A j \in from .. stop - 1 : t[j] # "SP"
  /\ stop < eol => t[stop] = "SP"
  /\ \A j \in stop .. next - 1 : t[j] = "SP"
  /\ t[next] # "SP"

\* What get_token_len returns is a token.
TokenAt(t, eol, from, last) ==
  \E stop, next :
    /\ IsToken(t, eol, from, stop, next)
    /\ get_token_len(t, from, last + 1) = [len |-> stop - from, next_token |-> next]

\* get_token_len of a token of the first line.
LEMMA TokenIs ==
  ASSUME NEW t, NEW eol \in Nat, NEW from \in 1 .. eol, NEW last \in Nat, eol <= last,
         t[eol] \in {"CR", "LF"}, \A j \in from .. eol - 1 : t[j] \notin {"CR", "LF"}
  PROVE  TokenAt(t, eol, from, last)
<1> DEFINE S == {i \in from .. last : t[i] \in {"SP", "CR", "LF"}} \cup {last + 1}
           stop == Least(S)
           T == {i \in stop .. last : t[i] # "SP"} \cup {last + 1}
           next == Least(T)
<1>1. from \in Nat /\ last + 1 - 1 = last
  OBVIOUS
<1>2. get_token_len(t, from, last + 1) = [len |-> stop - from, next_token |-> next]
  BY <1>1 DEF get_token_len
<1>3. eol \in S /\ S \subseteq Nat
  BY <1>1
<1>4. stop \in S /\ \A j \in S : stop <= j
  <2> HIDE DEF S
  <2> QED
    BY <1>3, LeastProperties
<1>5. stop \in from .. eol
  <2>1. stop <= eol /\ stop \in from .. last + 1
    BY <1>1, <1>3, <1>4
  <2> HIDE DEF stop
  <2> QED
    BY <1>1, <2>1
<1>6. \A j \in from .. stop - 1 : t[j] # "SP"
  <2> SUFFICES ASSUME NEW j \in from .. stop - 1, t[j] = "SP" PROVE FALSE
    OBVIOUS
  <2> HIDE DEF stop
  <2>1. j \in from .. last /\ j < stop /\ j \in Nat
    BY <1>1, <1>5
  <2>2. j \in S
    BY <2>1
  <2>3. stop <= j
    BY <1>4, <2>2
  <2> QED
    BY <1>5, <2>1, <2>3
<1>7. stop < eol => t[stop] = "SP"
  <2> SUFFICES ASSUME stop < eol PROVE t[stop] = "SP"
    OBVIOUS
  <2>1. stop \in from .. eol - 1 /\ stop # last + 1
    <3> HIDE DEF stop
    <3> QED
      BY <1>1, <1>5
  <2>2. t[stop] \in {"SP", "CR", "LF"}
    <3>1. stop \in S
      BY <1>4
    <3> HIDE DEF stop
    <3> QED
      BY <2>1, <3>1
  <2> QED
    BY <2>1, <2>2
<1> HIDE DEF stop, S
<1>8. eol \in T /\ T \subseteq Nat
  BY <1>1, <1>5
<1>9. next \in T /\ \A j \in T : next <= j
  <2> HIDE DEF T
  <2> QED
    BY <1>8, LeastProperties
<1>10. next \in stop .. eol
  <2>1. next <= eol /\ next \in stop .. last + 1
    BY <1>1, <1>5, <1>8, <1>9
  <2> HIDE DEF next
  <2> QED
    BY <1>1, <1>5, <2>1
<1>11. \A j \in stop .. next - 1 : t[j] = "SP"
  <2> SUFFICES ASSUME NEW j \in stop .. next - 1, t[j] # "SP" PROVE FALSE
    OBVIOUS
  <2> HIDE DEF next
  <2>1. j \in stop .. last /\ j < next /\ j \in Nat
    BY <1>1, <1>5, <1>10
  <2>2. j \in T
    BY <2>1
  <2>3. next <= j
    BY <1>9, <2>2
  <2> QED
    BY <1>5, <1>10, <2>1, <2>3
<1>12. t[next] # "SP"
  <2>1. next # last + 1
    <3> HIDE DEF next
    <3> QED
      BY <1>1, <1>5, <1>10
  <2>2. next \in T
    BY <1>9
  <2> HIDE DEF next
  <2> QED
    BY <2>1, <2>2
<1> HIDE DEF next, T
<1>13. IsToken(t, eol, from, stop, next)
  BY <1>5, <1>6, <1>7, <1>10, <1>11, <1>12 DEF IsToken
<1> QED
  BY <1>2, <1>13 DEF TokenAt

\* The first space behind the beginning of a token, and the first word behind it, are
\* where the token ends and where the next one begins, if the token is not empty.
LEMMA WordAfter ==
  ASSUME NEW t, NEW eol \in Nat, NEW from \in 1 .. eol, NEW stop, NEW next,
         IsToken(t, eol, from, stop, next), from < stop,
         NEW l \in Seq(Atoms), Len(l) = eol - 1, \A k \in 1 .. eol - 1 : l[k] = t[k]
  PROVE  /\ IF stop < eol THEN /\ After(Spaces(l), from) # {}
                               /\ Least(After(Spaces(l), from)) = stop
            ELSE After(Spaces(l), from) = {}
         /\ IF next < eol THEN /\ After(Words(l), from) # {}
                               /\ Least(After(Words(l), from)) = next
            ELSE After(Words(l), from) = {}
<1> DEFINE S == After(Spaces(l), from)
           W == After(Words(l), from)
<1>1. DOMAIN l = 1 .. eol - 1
  BY LenProperties
<1>2. /\ stop \in from .. eol /\ next \in stop .. eol
      /\ \A j \in from .. stop - 1 : t[j] # "SP"
      /\ stop < eol => t[stop] = "SP"
      /\ \A j \in stop .. next - 1 : t[j] = "SP"
      /\ t[next] # "SP"
  BY DEF IsToken
<1>3. from \in Nat /\ stop \in Nat /\ next \in Nat /\ from >= 1 /\ from < stop
      /\ stop <= next /\ next <= eol
  BY <1>2
<1>4. S \subseteq Nat /\ W \subseteq Nat
  BY <1>1 DEF After, Spaces, Words
<1>5. ASSUME NEW j \in S PROVE stop <= j /\ j < eol
  <2>1. j \in 1 .. eol - 1 /\ l[j] = "SP" /\ j > from
    BY <1>1 DEF After, Spaces
  <2>2. t[j] = "SP"
    BY <2>1
  <2>3. ~ (j \in from .. stop - 1)
    BY <1>2, <2>2
  <2> QED
    BY <1>3, <2>1, <2>3
<1>6. ASSUME stop < eol PROVE stop \in S
  <2>1. stop \in 1 .. eol - 1 /\ stop > from
    BY <1>3, <1>6
  <2>2. l[stop] = "SP"
    BY <1>2, <1>6, <2>1
  <2> QED
    BY <1>1, <2>1, <2>2 DEF After, Spaces
<1>7. ASSUME NEW j \in W PROVE next <= j /\ j < eol
  <2>1. j \in 1 .. eol - 1 /\ l[j] # "SP" /\ (j = 1 \/ l[j - 1] = "SP") /\ j > from
    BY <1>1 DEF After, Words
  <2>2. j \in Nat /\ j - 1 \in 1 .. eol - 1 /\ j # 1
    BY <1>3, <2>1
  <2>3. t[j] # "SP" /\ t[j - 1] = "SP"
    BY <2>1, <2>2
  <2>4. ~ (j - 1 \in from .. stop - 1) /\ ~ (j \in stop .. next - 1)
    BY <1>2, <2>3
  <2> QED
    BY <1>3, <2>1, <2>2, <2>4
<1>8. ASSUME next < eol PROVE next \in W
  <2>1. stop # next
    BY <1>2, <1>8
  <2>2. next \in 1 .. eol - 1 /\ next > from /\ next - 1 \in stop .. next - 1
        /\ next - 1 \in 1 .. eol - 1
    BY <1>3, <1>8, <2>1
  <2>3. l[next] # "SP" /\ l[next - 1] = "SP"
    BY <1>2, <2>2
  <2> QED
    BY <1>1, <2>2, <2>3 DEF After, Words
<1> HIDE DEF S, W
<1>9. IF stop < eol THEN S # {} /\ Least(S) = stop ELSE S = {}
  <2>1. CASE stop < eol
    <3>1. Least(S) \in S /\ \A j \in S : Least(S) <= j
      BY <1>4, <1>6, <2>1, LeastProperties
    <3>2. Least(S) \in Nat /\ Least(S) <= stop /\ stop <= Least(S)
      BY <1>4, <1>5, <1>6, <2>1, <3>1
    <3> QED
      BY <1>3, <1>6, <2>1, <3>2
  <2>2. CASE ~ (stop < eol)
    <3>1. \A j \in S : FALSE
      BY <1>3, <1>4, <1>5, <2>2
    <3> QED
      BY <2>2, <3>1
  <2> QED
    BY <2>1, <2>2
<1>10. IF next < eol THEN W # {} /\ Least(W) = next ELSE W = {}
  <2>1. CASE next < eol
    <3>1. Least(W) \in W /\ \A j \in W : Least(W) <= j
      BY <1>4, <1>8, <2>1, LeastProperties
    <3>2. Least(W) \in Nat /\ Least(W) <= next /\ next <= Least(W)
      BY <1>4, <1>7, <1>8, <2>1, <3>1
    <3> QED
      BY <1>3, <1>8, <2>1, <3>2
  <2>2. CASE ~ (next < eol)
    <3>1. \A j \in W : FALSE
      BY <1>3, <1>4, <1>7, <2>2
    <3> QED
      BY <2>2, <3>1
  <2> QED
    BY <2>1, <2>2
<1> QED
  BY <1>9, <1>10 DEF S, W

\* The first two tokens of the first line of a header, and the words of the line.
FirstTokens(t, l, eol, last, stop, next, stop2, next2) ==
  /\ eol \in Nat /\ eol > 1 /\ last \in Nat /\ eol <= last /\ t[eol] \in {"CR", "LF"}
  /\ stop \in 2 .. eol /\ next \in stop .. eol /\ stop2 \in next .. eol /\ next2 \in stop2 .. eol
  /\ next < eol => stop < eol /\ t[stop] = "SP" /\ next < stop2
  /\ next = eol => stop2 = eol
  /\ stop2 < eol => t[stop2] = "SP"
  /\ get_token_len(t, 1, last + 1) = [len |-> stop - 1, next_token |-> next]
  /\ get_token_len(t, next, last + 1) = [len |-> stop2 - next, next_token |-> next2]
  /\ l \in Seq(Atoms) /\ Len(l) = eol - 1 /\ \A k \in 1 .. eol - 1 : l[k] = t[k]
  /\ IF next < eol THEN After(Words(l), 1) # {} /\ Least(After(Words(l), 1)) = next
     ELSE After(Words(l), 1) = {}
  /\ next < eol =>
       /\ IF stop2 < eol THEN /\ After(Spaces(l), next) # {}
                              /\ Least(After(Spaces(l), next)) = stop2
          ELSE After(Spaces(l), next) = {}
       /\ IF next2 < eol THEN /\ After(Words(l), next) # {}
                              /\ Least(After(Words(l), next)) = next2
          ELSE After(Words(l), next) = {}

\* A header whose first line does not begin with a space, and is not empty, has them.
LEMMA FirstLine ==
  ASSUME NEW t, NEW w, NEW n, IsHeader(t, w, n), t[1] \notin {"SP", "CR", "LF"},
         NEW last, last = find_line_end(t, 1, n).lineend
  PROVE  \E eol, stop, next, stop2, next2 :
           FirstTokens(t, LineAt(w, 1), eol, last, stop, next, stop2, next2)
<1> DEFINE e == find_line_end(t, 1, n)
           eol == e.eol
           l == LineAt(w, 1)
           lf == NextLf(t, 1, n)
<1>1. n \in Nat /\ n > 1 /\ 1 \in 1 .. n
  BY DEF IsHeader, EndsLine
<1>2. LineIs(t, w, n, 1, lf, eol, last)
  BY <1>1, LineShape
<1> HIDE DEF e, eol, l, lf
<1>3. /\ lf \in 1 .. n /\ eol \in 1 .. lf /\ last \in lf .. n
      /\ t[eol] \in {"CR", "LF"}
      /\ \A j \in 1 .. eol - 1 : t[j] \notin {"CR", "LF"}
      /\ l \in Seq(Atoms) /\ Len(l) = eol - 1
      /\ \A k \in 1 .. eol - 1 : l[k] = t[1 + k - 1]
  BY <1>2 DEF LineIs, l
<1>4. eol \in Nat /\ last \in Nat /\ eol <= last /\ eol > 1 /\ 1 \in 1 .. eol
  <2>1. eol # 1
    BY <1>3
  <2> QED
    BY <1>1, <1>3, <2>1
<1>5. \A k \in 1 .. eol - 1 : l[k] = t[k]
  <2>1. \A k \in 1 .. eol - 1 : 1 + k - 1 = k
    BY <1>4
  <2> QED
    BY <1>3, <2>1
<1>6. PICK stop, next :
        /\ IsToken(t, eol, 1, stop, next)
        /\ get_token_len(t, 1, last + 1) = [len |-> stop - 1, next_token |-> next]
  <2>1. TokenAt(t, eol, 1, last)
    BY ONLY <1>3, <1>4, TokenIs
  <2> QED
    BY <2>1 DEF TokenAt
<1>7. /\ stop \in 1 .. eol /\ next \in stop .. eol
      /\ stop < eol => t[stop] = "SP"
      /\ t[next] # "SP"
      /\ \A j \in stop .. next - 1 : t[j] = "SP"
  BY <1>6 DEF IsToken
<1>8. stop \in 2 .. eol /\ 1 < stop /\ next \in 1 .. eol /\ next \in Nat /\ stop \in Nat
  <2>1. stop # 1
    BY <1>4, <1>7
  <2> QED
    BY <1>4, <1>7, <2>1
<1>9. PICK stop2, next2 :
        /\ IsToken(t, eol, next, stop2, next2)
        /\ get_token_len(t, next, last + 1) = [len |-> stop2 - next, next_token |-> next2]
  <2>1. \A j \in next .. eol - 1 : t[j] \notin {"CR", "LF"}
    <3>1. \A j \in next .. eol - 1 : j \in 1 .. eol - 1
      BY <1>4, <1>8
    <3> QED
      BY <1>3, <3>1
  <2>2. TokenAt(t, eol, next, last)
    BY ONLY <1>3, <1>4, <1>8, <2>1, TokenIs
  <2> QED
    BY <2>2 DEF TokenAt
<1>10. /\ stop2 \in next .. eol /\ next2 \in stop2 .. eol
       /\ stop2 < eol => t[stop2] = "SP"
  BY <1>9 DEF IsToken
<1>11. next < eol => stop < eol /\ t[stop] = "SP" /\ next < stop2
  <2> SUFFICES ASSUME next < eol PROVE stop < eol /\ t[stop] = "SP" /\ next < stop2
    OBVIOUS
  <2>1. stop < eol
    BY <1>4, <1>7, <1>8
  <2>2. stop2 # next
    BY <1>7, <1>10
  <2>3. next < stop2
    BY <1>4, <1>8, <1>10, <2>2
  <2> QED
    BY <1>7, <2>1, <2>3
<1>12. next = eol => stop2 = eol
  BY <1>4, <1>10
<1>13. IF next < eol THEN After(Words(l), 1) # {} /\ Least(After(Words(l), 1)) = next
       ELSE After(Words(l), 1) = {}
  BY <1>3, <1>4, <1>5, <1>6, <1>8, WordAfter
<1>14. next < eol =>
         /\ IF stop2 < eol THEN /\ After(Spaces(l), next) # {}
                                /\ Least(After(Spaces(l), next)) = stop2
            ELSE After(Spaces(l), next) = {}
         /\ IF next2 < eol THEN /\ After(Words(l), next) # {}
                                /\ Least(After(Words(l), next)) = next2
            ELSE After(Words(l), next) = {}
  <2> SUFFICES ASSUME next < eol
               PROVE  /\ IF stop2 < eol THEN /\ After(Spaces(l), next) # {}
                                             /\ Least(After(Spaces(l), next)) = stop2
                         ELSE After(Spaces(l), next) = {}
                      /\ IF next2 < eol THEN /\ After(Words(l), next) # {}
                                             /\ Least(After(Words(l), next)) = next2
                         ELSE After(Words(l), next) = {}
    OBVIOUS
  <2>1. next < stop2
    BY <1>11
  <2> QED
    BY <1>3, <1>4, <1>5, <1>8, <1>9, <2>1, WordAfter
<1>15. FirstTokens(t, l, eol, last, stop, next, stop2, next2)
  BY <1>3, <1>4, <1>5, <1>6, <1>7, <1>8, <1>9, <1>10, <1>11, <1>12, <1>13, <1>14, Zenon
  DEF FirstTokens
<1> QED
  BY <1>15 DEF l

\* The URI and the version that are parsed of a request are the second word of the line
\* and the word after it.
LEMMA RequestLineRead ==
  ASSUME NEW t, NEW w, NEW n, IsHeader(t, w, n), t[1] \notin {"SP", "CR", "LF"},
         NEW last, last = find_line_end(t, 1, n).lineend, NEW json,
         json.uri = http_request_uri(t, 1, last + 1),
         json.ver = VersionCode[http_request_version(t, 1, last + 1)]
  PROVE  RequestLine(LineAt(w, 1), json)
<1> DEFINE l == LineAt(w, 1)
<1>1. PICK eol, stop, next, stop2, next2 :
        FirstTokens(t, l, eol, last, stop, next, stop2, next2)
  BY FirstLine
<1> HIDE DEF l
<1>2. /\ eol \in Nat /\ eol > 1 /\ last \in Nat /\ eol <= last /\ t[eol] \in {"CR", "LF"}
      /\ stop \in 2 .. eol /\ next \in stop .. eol /\ stop2 \in next .. eol
      /\ next2 \in stop2 .. eol
      /\ next < eol => stop < eol /\ t[stop] = "SP" /\ next < stop2
      /\ next = eol => stop2 = eol
      /\ stop2 < eol => t[stop2] = "SP"
      /\ get_token_len(t, 1, last + 1) = [len |-> stop - 1, next_token |-> next]
      /\ get_token_len(t, next, last + 1) = [len |-> stop2 - next, next_token |-> next2]
      /\ l \in Seq(Atoms) /\ Len(l) = eol - 1 /\ \A k \in 1 .. eol - 1 : l[k] = t[k]
  BY <1>1 DEF FirstTokens
<1>3. /\ stop \in Nat /\ next \in Nat /\ stop2 \in Nat /\ next2 \in Nat
      /\ 1 + (stop - 1) = stop /\ next + (stop2 - next) = stop2
      /\ (stop - 1 # 0) /\ (stop2 - next # 0 <=> next < stop2)
  BY <1>2
<1> DEFINE uri == UriToken(t, 1, last + 1)
           ok  == next < eol /\ stop2 < eol
<1>4. uri = [valid |-> /\ stop - 1 # 0 /\ t[1 + (stop - 1)] = "SP"
                       /\ stop2 - next # 0 /\ t[next + (stop2 - next)] = "SP",
             first |-> next, len |-> stop2 - next, next_token |-> next2]
  <2> DEFINE method == get_token_len(t, 1, last + 1)
             token  == get_token_len(t, method.next_token, last + 1)
  <2>1. uri = [valid |-> /\ method.len # 0 /\ t[1 + method.len] = "SP"
                         /\ token.len # 0 /\ t[method.next_token + token.len] = "SP",
               first |-> method.next_token, len |-> token.len,
               next_token |-> token.next_token]
    BY Zenon DEF UriToken
  <2>2. method.len = stop - 1 /\ method.next_token = next
    BY <1>2
  <2>3. token.len = stop2 - next /\ token.next_token = next2
    <3>1. token = get_token_len(t, next, last + 1)
      BY <2>2
    <3> QED
      BY <1>2, <3>1
  <2> HIDE DEF uri, method, token
  <2> QED
    BY <2>1, <2>2, <2>3
<1>5. /\ uri.first = next /\ uri.len = stop2 - next /\ uri.next_token = next2
  BY <1>4
<1>6. uri.valid <=> ok
  <2>1. uri.valid <=> /\ stop - 1 # 0 /\ t[1 + (stop - 1)] = "SP"
                      /\ stop2 - next # 0 /\ t[next + (stop2 - next)] = "SP"
    BY <1>4
  <2>2. uri.valid <=> t[stop] = "SP" /\ next < stop2 /\ t[stop2] = "SP"
    <3> HIDE DEF uri
    <3> QED
      BY <1>3, <2>1
  <2> HIDE DEF uri
  <2>3. ok => uri.valid
    BY <1>2, <2>2
  <2>4. ASSUME uri.valid PROVE ok
    <3>1. t[stop2] = "SP" /\ next < stop2
      BY <2>2, <2>4
    <3>2. stop2 # eol
      BY <1>2, <3>1
    <3> QED
      BY <1>2, <1>3, <3>1, <3>2
  <2> QED
    BY <2>3, <2>4
<1>7. json.uri = IF ok THEN SubSeq(t, next, stop2 - 1) ELSE <<>>
  <2>1. json.uri = IF uri.valid THEN SubSeq(t, uri.first, uri.first + uri.len - 1) ELSE <<>>
    BY DEF http_request_uri
  <2>2. next + (stop2 - next) - 1 = stop2 - 1
    BY <1>3
  <2> HIDE DEF uri, ok
  <2> QED
    BY <1>5, <1>6, <2>1, <2>2
<1>8. json.ver = IF ok /\ t[next2] \in Versions THEN VersionCode[t[next2]] ELSE 2
  <2>1. json.ver = VersionCode[IF uri.valid /\ uri.next_token < last + 1
                                  /\ t[uri.next_token] \in Versions
                               THEN t[uri.next_token] ELSE "NONE"]
    BY DEF http_request_version
  <2>2. next2 < last + 1
    BY <1>2, <1>3
  <2>3. VersionCode["NONE"] = 2
    BY DEF VersionCode
  <2> HIDE DEF uri, ok
  <2> QED
    BY <1>5, <1>6, <2>1, <2>2, <2>3
<1> HIDE DEF uri
<1> DEFINE seconds == After(Words(l), 1)
           second  == Least(seconds)
           spaces  == After(Spaces(l), second)
           thirds  == After(Words(l), second)
<1>9. RequestLine(l, json)
        <=> IF seconds = {} \/ spaces = {} THEN json.uri = <<>> /\ json.ver = 2
            ELSE /\ json.uri = SubSeq(l, second, Least(spaces) - 1)
                 /\ json.ver = IF thirds # {} /\ l[Least(thirds)] \in Versions
                               THEN VersionCode[l[Least(thirds)]] ELSE 2
  BY DEF RequestLine
<1>10. IF next < eol THEN seconds # {} /\ second = next ELSE seconds = {}
  BY <1>1 DEF FirstTokens
<1>11. next < eol =>
         /\ IF stop2 < eol THEN spaces # {} /\ Least(spaces) = stop2 ELSE spaces = {}
         /\ IF next2 < eol THEN thirds # {} /\ Least(thirds) = next2 ELSE thirds = {}
  <2> SUFFICES ASSUME next < eol
               PROVE  /\ IF stop2 < eol THEN spaces # {} /\ Least(spaces) = stop2
                         ELSE spaces = {}
                      /\ IF next2 < eol THEN thirds # {} /\ Least(thirds) = next2
                         ELSE thirds = {}
    OBVIOUS
  <2>1. second = next
    BY <1>10
  <2> HIDE DEF second
  <2> QED
    BY <1>1, <2>1 DEF FirstTokens
<1> HIDE DEF seconds, second, spaces, thirds
<1>12. CASE ~ ok
  <2>1. seconds = {} \/ spaces = {}
    BY <1>10, <1>11, <1>12
  <2>2. json.uri = <<>> /\ json.ver = 2
    BY <1>7, <1>8, <1>12
  <2> QED
    BY <1>9, <2>1, <2>2 DEF l
<1>13. CASE ok
  <2>1. seconds # {} /\ second = next /\ spaces # {} /\ Least(spaces) = stop2
    BY <1>10, <1>11, <1>13
  <2>2. SubSeq(l, next, stop2 - 1) = SubSeq(t, next, stop2 - 1)
    <3>1. \A j \in next .. stop2 - 1 : j \in 1 .. eol - 1
      BY <1>2, <1>3
    <3>2. \A j \in next .. stop2 - 1 : l[j] \in Atoms /\ t[j] \in Atoms /\ l[j] = t[j]
      BY <1>2, <3>1, ElementOfSeq
    <3>3. /\ SubSeq(l, next, stop2 - 1) \in Seq(Atoms)
          /\ SubSeq(t, next, stop2 - 1) \in Seq(Atoms)
          /\ Len(SubSeq(l, next, stop2 - 1)) = Len(SubSeq(t, next, stop2 - 1))
          /\ Len(SubSeq(l, next, stop2 - 1)) = IF next <= stop2 - 1
                                               THEN stop2 - 1 - next + 1 ELSE 0
          /\ \A i \in 1 .. stop2 - 1 - next + 1 :
               SubSeq(l, next, stop2 - 1)[i] = l[next + i - 1]
          /\ \A i \in 1 .. stop2 - 1 - next + 1 :
               SubSeq(t, next, stop2 - 1)[i] = t[next + i - 1]
      <4>1. next \in Int /\ stop2 - 1 \in Int
        BY <1>3
      <4> QED
        BY <3>2, <4>1, SubSeqProperties
    <3> DEFINE a == SubSeq(l, next, stop2 - 1)
               b == SubSeq(t, next, stop2 - 1)
    <3>4. \A i \in 1 .. Len(a) : i \in 1 .. stop2 - 1 - next + 1
                                 /\ next + i - 1 \in next .. stop2 - 1
      <4>1. next < stop2
        BY <1>2, <1>13
      <4> HIDE DEF a
      <4>2. Len(a) = stop2 - 1 - next + 1
        BY <1>3, <3>3, <4>1 DEF a
      <4> QED
        BY <1>3, <4>1, <4>2
    <3>5. \A i \in 1 .. Len(a) : a[i] = b[i]
      <4> HIDE DEF a, b
      <4> QED
        BY <3>2, <3>3, <3>4 DEF a, b
    <3> HIDE DEF a, b
    <3>6. a = b
      BY <3>3, <3>5, SeqEqual DEF a, b
    <3> QED
      BY <3>6 DEF a, b
  <2>3. json.uri = SubSeq(l, second, Least(spaces) - 1)
    BY <1>7, <1>13, <2>1, <2>2
  <2>4. json.ver = IF thirds # {} /\ l[Least(thirds)] \in Versions
                   THEN VersionCode[l[Least(thirds)]] ELSE 2
    <3>1. CASE next2 < eol
      <4>1. thirds # {} /\ Least(thirds) = next2
        BY <1>11, <1>13, <3>1
      <4>2. next2 \in 1 .. eol - 1
        BY <1>2, <1>3, <3>1
      <4>3. l[next2] = t[next2]
        BY <1>2, <4>2
      <4> QED
        BY <1>8, <1>13, <4>1, <4>3
    <3>2. CASE ~ (next2 < eol)
      <4>1. thirds = {} /\ next2 = eol
        BY <1>2, <1>3, <1>11, <1>13, <3>2
      <4>2. t[next2] \notin Versions
        BY <1>2, <4>1 DEF Versions
      <4> QED
        BY <1>8, <4>1, <4>2
    <3> QED
      BY <3>1, <3>2
  <2> QED
    BY <1>9, <2>1, <2>3, <2>4 DEF l
<1> QED
  BY <1>12, <1>13

\* The status that is parsed of a response is that of the second word of the line.
LEMMA StatusRead ==
  ASSUME NEW t, NEW w, NEW n, IsHeader(t, w, n), t[1] \notin {"SP", "CR", "LF"},
         NEW last, last = find_line_end(t, 1, n).lineend,
         http_response_status(t, 1, last + 1) # HTTP_ST_NONE
  PROVE  /\ http_response_status(t, 1, last + 1)
              = StatusOf[LineAt(w, 1)[Least(After(Words(LineAt(w, 1)), 1))]]
         /\ LineAt(w, 1)[Least(After(Words(LineAt(w, 1)), 1))] \in Statuses
<1> DEFINE l == LineAt(w, 1)
<1>1. PICK eol, stop, next, stop2, next2 :
        FirstTokens(t, l, eol, last, stop, next, stop2, next2)
  BY FirstLine
<1> HIDE DEF l
<1>2. /\ eol \in Nat /\ t[eol] \in {"CR", "LF"}
      /\ stop \in 2 .. eol /\ next \in stop .. eol
      /\ get_token_len(t, 1, last + 1) = [len |-> stop - 1, next_token |-> next]
      /\ \A k \in 1 .. eol - 1 : l[k] = t[k]
      /\ next < eol => After(Words(l), 1) # {} /\ Least(After(Words(l), 1)) = next
  BY <1>1 DEF FirstTokens
<1>3. t[next] \in Statuses /\ http_response_status(t, 1, last + 1) = StatusOf[t[next]]
  BY <1>2 DEF http_response_status
<1>4. next # eol
  BY <1>2, <1>3 DEF Statuses, StatusOf
<1>5. next < eol /\ next \in 1 .. eol - 1
  BY <1>2, <1>4
<1>6. l[Least(After(Words(l), 1))] = t[next]
  BY <1>2, <1>5
<1> QED
  BY <1>3, <1>6 DEF l

\* A text is the same whether it is cut from the copy, from the header or from a line.
LEMMA SameCut ==
  ASSUME NEW s, NEW u, NEW a \in Int, NEW b \in Int, NEW d \in Int,
         \A i \in a .. b : s[i] \in Atoms /\ u[i + d] = s[i]
  PROVE  SubSeq(s, a, b) = SubSeq(u, a + d, b + d)
<1> DEFINE x == SubSeq(s, a, b)
           y == SubSeq(u, a + d, b + d)
<1>1. \A i \in a + d .. b + d : u[i] \in Atoms
  <2> SUFFICES ASSUME NEW i \in a + d .. b + d PROVE u[i] \in Atoms
    OBVIOUS
  <2>1. i - d \in a .. b /\ (i - d) + d = i
    OBVIOUS
  <2> QED
    BY <2>1
<1>2. /\ x \in Seq(Atoms) /\ Len(x) = IF a <= b THEN b - a + 1 ELSE 0
      /\ \A i \in 1 .. b - a + 1 : x[i] = s[a + i - 1]
  BY SubSeqProperties
<1>3. /\ y \in Seq(Atoms) /\ Len(y) = IF a + d <= b + d THEN b + d - (a + d) + 1 ELSE 0
      /\ \A i \in 1 .. b + d - (a + d) + 1 : y[i] = u[a + d + i - 1]
  BY <1>1, SubSeqProperties
<1> HIDE DEF x, y
<1>4. Len(x) = Len(y)
  BY <1>2, <1>3
<1>5. \A i \in 1 .. Len(x) : x[i] = y[i]
  <2> SUFFICES ASSUME NEW i \in 1 .. Len(x) PROVE x[i] = y[i]
    OBVIOUS
  <2>1. i \in 1 .. b - a + 1 /\ i \in 1 .. b + d - (a + d) + 1
    BY <1>2
  <2>2. a + i - 1 \in a .. b /\ a + d + i - 1 = (a + i - 1) + d
    BY <2>1
  <2>3. x[i] = s[a + i - 1] /\ y[i] = u[a + d + i - 1]
    BY <1>2, <1>3, <2>1
  <2>4. u[(a + i - 1) + d] = s[a + i - 1]
    BY <2>2
  <2> QED
    BY <2>2, <2>3, <2>4
<1>6. x = y
  BY <1>2, <1>3, <1>4, <1>5, SeqEqual
<1> QED
  BY <1>6 DEF x, y

\* The value of the field at i begins at the first symbol that is no space and ends
\* before the end-of-line, unless there is nothing else.
HasValue(t, i, eol, value) ==
  \E c \in i + 1 .. eol :
    /\ t[c] # "SP" /\ \A j \in i + 1 .. c - 1 : t[j] = "SP"
    /\ value = SubSeq(t, c, IF c < eol THEN eol - 1 ELSE eol)

\* What Value takes out of the line of a field.
LEMMA ValueBounds ==
  ASSUME NEW t, NEW n \in Nat, NEW i \in 1 .. n, NEW e,
         NEW eol, eol = e.eol, NEW last, last = e.lineend,
         eol \in i + 1 .. n, last \in eol .. n, t[eol] \in {"CR", "LF"},
         \A j \in i .. eol - 1 : t[j] \notin {"CR", "LF"}
  PROVE  HasValue(t, i, eol, Value(t, i, e))
<1> DEFINE cs == {j \in i + 1 .. last - 1 : t[j] # "SP"} \cup {last}
           c  == Least(cs)
           back == {j \in c .. eol : j = c \/ t[j] \notin {"CR", "LF"}}
           g  == CHOOSE j \in back : \A k \in back : k <= j
<1>1. Value(t, i, e) = SubSeq(t, c, g)
  BY Zenon DEF Value
<1>2. i \in Nat /\ eol \in Nat /\ last \in Nat /\ i < eol /\ eol <= last /\ last <= n
  OBVIOUS
<1>3. eol \in cs /\ cs \subseteq Nat
  BY <1>2
<1>4. c \in cs /\ \A j \in cs : c <= j
  <2> HIDE DEF cs
  <2> QED
    BY <1>3, LeastProperties
<1>5. c \in i + 1 .. eol
  <2>1. c <= eol /\ c \in i + 1 .. last
    BY <1>2, <1>3, <1>4
  <2> HIDE DEF c
  <2> QED
    BY <1>2, <2>1
<1>6. t[c] # "SP"
  <2>1. CASE c = eol
    <3> HIDE DEF c
    <3> QED
      BY <2>1
  <2>2. CASE c # eol
    <3>1. c # last
      <4> HIDE DEF c
      <4> QED
        BY <1>2, <1>5, <2>2
    <3>2. c \in cs
      BY <1>4
    <3> HIDE DEF c
    <3> QED
      BY <3>1, <3>2
  <2> QED
    BY <2>1, <2>2
<1>7. \A j \in i + 1 .. c - 1 : t[j] = "SP"
  <2> SUFFICES ASSUME NEW j \in i + 1 .. c - 1, t[j] # "SP" PROVE FALSE
    OBVIOUS
  <2> HIDE DEF c
  <2>1. j \in i + 1 .. last - 1 /\ j < c
    BY <1>2, <1>5
  <2>2. j \in cs
    BY <2>1
  <2> QED
    BY <1>2, <1>4, <1>5, <2>1, <2>2
<1> HIDE DEF c, cs
<1>8. c \in back /\ back \subseteq 0 .. n
  BY <1>2, <1>5
<1>9. g \in back /\ \A k \in back : k <= g
  <2> HIDE DEF back
  <2>1. \E j \in back : \A k \in back : k <= j
    BY <1>8, GreatestIn
  <2> QED
    BY <2>1
<1> HIDE DEF g
<1>10. CASE c < eol
  <2>1. eol - 1 \in c .. eol /\ eol - 1 \in i .. eol - 1
    BY <1>2, <1>5, <1>10
  <2>2. eol - 1 \in back
    BY <2>1
  <2>3. eol \notin back
    BY <1>5, <1>10
  <2>4. g \in c .. eol /\ g # eol /\ eol - 1 <= g
    BY <1>9, <2>2, <2>3
  <2>5. g = eol - 1
    BY <1>2, <1>5, <2>4
  <2> QED
    BY <1>1, <1>5, <1>6, <1>7, <1>10, <2>5 DEF HasValue
<1>11. CASE ~ (c < eol)
  <2>1. c = eol
    BY <1>2, <1>5, <1>11
  <2>2. g = eol
    BY <1>2, <1>9, <2>1
  <2> QED
    BY <1>1, <1>5, <1>6, <1>7, <1>11, <2>2 DEF HasValue
<1> QED
  BY <1>10, <1>11

\* The value parsed of the line of a field is the one that stands there.
LEMMA ValueRead ==
  ASSUME NEW t, NEW w, NEW n, IsHeader(t, w, n), NEW i \in 1 .. n, t[i] \notin Chars
  PROVE  LET value == Value(t, i, find_line_end(t, i, n))
         IN value # <<>> /\ FieldLine(w, i, value)
<1> DEFINE e == find_line_end(t, i, n)
           eol == e.eol
           last == e.lineend
           lf == NextLf(t, i, n)
           l == LineAt(w, i)
           value == Value(t, i, e)
<1>1. n \in Nat /\ \A j \in 1 .. n : t[j] = w[j] /\ t[j] \in Atoms
  BY DEF IsHeader, EndsLine
<1>2. LineIs(t, w, n, i, lf, eol, last)
  BY LineShape
<1> HIDE DEF e, lf
<1>3. /\ lf \in i .. n /\ eol \in i .. lf /\ last \in lf .. n
      /\ t[eol] \in {"CR", "LF"}
      /\ \A j \in i .. eol - 1 : t[j] \notin {"CR", "LF"}
      /\ l \in Seq(Atoms) /\ Len(l) = eol - i
      /\ \A k \in 1 .. eol - i : l[k] = t[i + k - 1]
  BY <1>2 DEF LineIs
<1>4. eol # i
  BY <1>3 DEF Chars
<1> HIDE DEF l
<1>5. eol \in i + 1 .. n /\ last \in eol .. n
  <2> HIDE DEF eol, last
  <2> QED
    BY <1>1, <1>3, <1>4
<1>6. PICK c \in i + 1 .. eol :
        /\ t[c] # "SP" /\ \A j \in i + 1 .. c - 1 : t[j] = "SP"
        /\ value = SubSeq(t, c, IF c < eol THEN eol - 1 ELSE eol)
  <2> HIDE DEF eol, last
  <2>1. HasValue(t, i, eol, Value(t, i, e))
    <3>1. eol = e.eol /\ last = e.lineend
      BY DEF eol, last
    <3>2. n \in Nat /\ t[eol] \in {"CR", "LF"}
      BY <1>1, <1>3
    <3>3. \A j \in i .. eol - 1 : t[j] \notin {"CR", "LF"}
      BY <1>3
    <3> QED
      BY <1>5, <3>1, <3>2, <3>3, ValueBounds, Zenon
  <2> QED
    BY <2>1 DEF HasValue
<1> HIDE DEF eol, last, value
<1>7. /\ i \in Nat /\ eol \in Nat /\ c \in Nat /\ i < c /\ c <= eol /\ eol <= n /\ i >= 1
  BY <1>1, <1>5
<1> DEFINE words == After(DOMAIN l, 1) \ Spaces(l)
<1>8. \A k : k \in words <=> k \in 2 .. eol - i /\ t[i + k - 1] # "SP"
  <2>1. DOMAIN l = 1 .. eol - i
    BY <1>3, LenProperties
  <2>2. \A k : k \in words <=> k \in 1 .. eol - i /\ k > 1 /\ l[k] # "SP"
    BY <2>1 DEF After, Spaces
  <2>3. \A k : k \in 1 .. eol - i /\ k > 1 <=> k \in 2 .. eol - i
    BY <1>7
  <2>4. \A k \in 2 .. eol - i : l[k] = t[i + k - 1]
    BY <1>3, <1>7
  <2> HIDE DEF words
  <2> QED
    BY <2>2, <2>3, <2>4
<1>9. FieldLine(w, i, value)
        <=> value = IF words = {} THEN <<w[i + Len(l)]>> ELSE SubSeq(l, Least(words), Len(l))
  BY DEF FieldLine, l
<1> HIDE DEF words
<1>10. CASE c < eol
  <2> DEFINE k == c - i + 1
  <2>1. k \in 2 .. eol - i /\ i + k - 1 = c /\ k \in Nat
    BY <1>7, <1>10
  <2>2. k \in words
    BY <1>6, <1>8, <2>1
  <2>3. words \subseteq Nat /\ \A j \in words : k <= j
    <3>1. ASSUME NEW j \in words PROVE j \in Nat /\ k <= j
      <4>1. j \in 2 .. eol - i /\ t[i + j - 1] # "SP"
        BY <1>8
      <4>2. ~ (i + j - 1 \in i + 1 .. c - 1)
        BY <1>6, <4>1
      <4> QED
        BY <1>7, <4>1, <4>2
    <3> QED
      BY <3>1
  <2> HIDE DEF k
  <2>4. Least(words) = k
    <3>1. Least(words) \in words /\ \A j \in words : Least(words) <= j
      BY <2>2, <2>3, LeastProperties
    <3>2. Least(words) \in Nat /\ Least(words) <= k /\ k <= Least(words)
      BY <2>2, <2>3, <3>1
    <3> QED
      BY <2>1, <3>2
  <2>5. SubSeq(l, k, eol - i) = SubSeq(t, c, eol - 1)
    <3>1. \A j \in k .. eol - i : l[j] \in Atoms /\ t[j + (i - 1)] = l[j]
      <4> SUFFICES ASSUME NEW j \in k .. eol - i
                   PROVE  l[j] \in Atoms /\ t[j + (i - 1)] = l[j]
        OBVIOUS
      <4>1. j \in 1 .. eol - i /\ j + (i - 1) = i + j - 1 /\ i + j - 1 \in 1 .. n
        BY <1>1, <1>7, <2>1
      <4> QED
        BY <1>1, <1>3, <4>1
    <3>2. k + (i - 1) = c /\ eol - i + (i - 1) = eol - 1 /\ k \in Int /\ eol - i \in Int
          /\ i - 1 \in Int
      BY <1>7, <2>1
    <3>3. SubSeq(l, k, eol - i) = SubSeq(t, k + (i - 1), eol - i + (i - 1))
      BY ONLY <3>1, <3>2, SameCut
    <3> QED
      BY <3>2, <3>3
  <2>6. value = SubSeq(t, c, eol - 1)
    BY <1>6, <1>10
  <2>7. value # <<>>
    <3>1. \A j \in c .. eol - 1 : t[j] \in Atoms
      BY <1>1, <1>7
    <3>2. Len(value) = eol - 1 - c + 1
      BY <1>7, <1>10, <2>6, <3>1, SubSeqProperties
    <3>3. Len(value) # 0
      BY <1>7, <1>10, <3>2
    <3> QED
      BY <3>3
  <2>8. FieldLine(w, i, value)
    BY <1>3, <1>9, <2>2, <2>4, <2>5, <2>6
  <2> QED
    BY <2>7, <2>8 DEF value, e
<1>11. CASE ~ (c < eol)
  <2>1. c = eol
    BY <1>7, <1>11
  <2>2. words = {}
    <3> SUFFICES ASSUME NEW k \in words PROVE FALSE
      OBVIOUS
    <3>1. k \in 2 .. eol - i /\ t[i + k - 1] # "SP"
      BY <1>8
    <3>2. i + k - 1 \in i + 1 .. c - 1
      BY <1>7, <2>1, <3>1
    <3> QED
      BY <1>6, <3>1, <3>2
  <2>3. value = SubSeq(t, eol, eol)
    BY <1>6, <2>1, <1>7
  <2>4. value = <<t[eol]>>
    <3>1. eol \in 1 .. n /\ \A j \in eol .. eol : t[j] \in Atoms
      BY <1>1, <1>7
    <3>2. /\ value \in Seq(Atoms)
          /\ Len(value) = IF eol <= eol THEN eol - eol + 1 ELSE 0
          /\ \A j \in 1 .. eol - eol + 1 : value[j] = t[eol + j - 1]
      BY <1>7, <2>3, <3>1, SubSeqProperties
    <3>3. Len(value) = 1 /\ 1 \in 1 .. eol - eol + 1 /\ eol + 1 - 1 = eol
      BY <1>7, <3>2
    <3>4. value[1] = t[eol]
      BY <3>2, <3>3
    <3>5. <<t[eol]>> \in Seq(Atoms) /\ Len(<<t[eol]>>) = 1 /\ <<t[eol]>>[1] = t[eol]
      BY <1>1, <3>1
    <3>6. \A j \in 1 .. Len(value) : value[j] = <<t[eol]>>[j]
      BY <3>3, <3>4, <3>5
    <3> QED
      BY <3>2, <3>3, <3>5, <3>6, SeqEqual
  <2>5. w[i + Len(l)] = t[eol]
    <3>1. i + Len(l) = eol /\ eol \in 1 .. n
      BY <1>3, <1>7
    <3> QED
      BY <1>1, <3>1
  <2>6. value # <<>> /\ FieldLine(w, i, value)
    BY <1>9, <2>2, <2>4, <2>5
  <2> QED
    BY <2>6 DEF value, e
<1> QED
  BY <1>10, <1>11

\* The lines from i on that begin with the name of a field.
LinesFrom(w, i, f) == {j \in i .. Len(w) : w[j] = f /\ (j = 1 \/ w[j - 1] = "LF")}

\* The header ends with its first blank line: a line is not the last of it unless it
\* holds at most one character, and CR LF is not followed by anything.
LEMMA BlankLast ==
  ASSUME NEW t, NEW w, NEW n, IsHeader(t, w, n)
  PROVE  /\ \A i \in 1 .. n : i < n /\ w[i] = "LF" /\ w[i + 1] = "CR" => n <= i + 2
         /\ \E i \in 1 .. n - 1 : /\ w[i] = "LF"
                                  /\ n = i + 1 \/ (n = i + 2 /\ w[i + 1] \in Chars)
<1>1. /\ n \in Nat /\ n > 1 /\ w \in Seq(Atoms) /\ Len(w) = n /\ DOMAIN w = 1 .. n
      /\ n \in Ends(w) /\ \A j \in Ends(w) : n <= j
  BY LenProperties DEF IsHeader, EndsLine
<1>2. ASSUME NEW i \in 1 .. n, i < n, w[i] = "LF", w[i + 1] = "CR"
      PROVE  n <= i + 2
  <2>1. i + 1 \in 1 .. n
    BY <1>1, <1>2
  <2>2. i + 1 < n /\ w[i + 1 + 1] = "LF"
    BY <1>1, <1>2, <2>1 DEF IsHeader, Regular
  <2>3. i + 2 \in 1 .. n /\ i + 1 + 1 = i + 2
    BY <1>1, <2>1, <2>2
  <2>4. Blank(w, i, i + 2)
    BY <1>2, <2>2, <2>3 DEF Blank, Chars
  <2>5. i + 2 \in Ends(w)
    BY <1>1, <2>3, <2>4 DEF Ends
  <2> QED
    BY <1>1, <2>5
<1>3. PICK i \in 1 .. n : Blank(w, i, n)
  BY <1>1 DEF Ends
<1>4. /\ i \in 1 .. n - 1 /\ w[i] = "LF"
      /\ n = i + 1 \/ (n = i + 2 /\ w[i + 1] \in Chars)
  BY <1>1, <1>3 DEF Blank
<1> QED
  BY <1>2, <1>4

\* From the beginning of a line on, the search finds the first line with the name.
LEMMA SearchFirst ==
  ASSUME NEW t, NEW w, NEW n, IsHeader(t, w, n), NEW f, f \notin Chars,
         NEW s, IsSearch(t, n, f, s, 1)
  PROVE  \A i \in 1 .. n : BeginsLine(w, i) =>
           s[i] = IF LinesFrom(w, i, f) = {} THEN <<>>
                  ELSE LET j == Least(LinesFrom(w, i, f))
                       IN Value(t, j, find_line_end(t, j, n))
<1> DEFINE L(i) == LinesFrom(w, i, f)
           Found(i) == s[i] = IF L(i) = {} THEN <<>>
                              ELSE Value(t, Least(L(i)), find_line_end(t, Least(L(i)), n))
           bad == {i \in 1 .. n : BeginsLine(w, i) /\ ~ Found(i)}
<1> SUFFICES ASSUME bad # {} PROVE FALSE
  <2>1. \A i \in 1 .. n : BeginsLine(w, i) => Found(i)
    OBVIOUS
  <2> QED
    BY <2>1
<1>1. /\ n \in Nat /\ n > 1 /\ Len(w) = n /\ \A j \in 1 .. n : t[j] = w[j]
      /\ EndsLine(t, n) /\ t[n] = "LF"
  BY DEF IsHeader, EndsLine
<1>2. PICK i \in bad : \A j \in bad : j <= i
  <2>1. bad \subseteq 0 .. n
    BY <1>1
  <2> HIDE DEF bad
  <2> QED
    BY <1>1, <2>1, GreatestIn
<1>3. i \in 1 .. n /\ BeginsLine(w, i) /\ ~ Found(i)
  OBVIOUS
<1>4. \A j \in 1 .. n : j > i /\ BeginsLine(w, j) => Found(j)
  <2> SUFFICES ASSUME NEW j \in 1 .. n, j > i, BeginsLine(w, j), ~ Found(j) PROVE FALSE
    OBVIOUS
  <2>1. j \in bad
    OBVIOUS
  <2> HIDE DEF bad
  <2> QED
    BY <1>1, <1>2, <1>3, <2>1
<1> HIDE DEF bad
<1> DEFINE e == find_line_end(t, i, n)
           last == e.lineend
           lf == NextLf(t, i, n)
<1>5. /\ lf \in i .. n /\ last \in lf .. n /\ t[lf] = "LF"
      /\ \A j \in i .. lf - 1 : t[j] # "LF"
      /\ last = lf \/ (last = lf + 1 /\ last < n /\ t[last] = "CR")
  BY <1>3, LineShape DEF LineIs
<1>6. s[i] = CASE last = n -> <<>>
               [] last # n /\ t[i] = f -> Value(t, i, e)
               [] OTHER -> s[last + 1]
  <2>1. s[i] = SearchStep(t, n, f, s, i)
    BY <1>3 DEF IsSearch
  <2> QED
    BY <2>1 DEF SearchStep
<1> HIDE DEF lf, e, last
<1>7. lf \in Nat /\ i \in Nat /\ last \in Nat /\ i >= 1 /\ i <= lf /\ lf <= last /\ last <= n
  BY <1>1, <1>3, <1>5
<1>8. \A j : j \in L(i) <=> (j = i /\ w[i] = f) \/ (lf < n /\ j \in L(lf + 1))
  <2>1. ASSUME NEW j \in L(i)
        PROVE  (j = i /\ w[i] = f) \/ (lf < n /\ j \in L(lf + 1))
    <3>1. j \in i .. n /\ w[j] = f /\ (j = 1 \/ w[j - 1] = "LF")
      BY <1>1 DEF LinesFrom
    <3>2. CASE j = i
      BY <3>1, <3>2
    <3>3. CASE j # i
      <4>1. j \in Nat /\ j # 1 /\ w[j - 1] = "LF" /\ j - 1 \in 1 .. n /\ j - 1 \in Nat
            /\ j - 1 >= i
        BY <1>1, <1>7, <3>1, <3>3
      <4>2. t[j - 1] = "LF"
        BY <1>1, <4>1
      <4>3. ~ (j - 1 \in i .. lf - 1)
        BY <1>5, <4>2
      <4>4. lf + 1 <= j /\ j \in lf + 1 .. n /\ lf < n
        BY <1>1, <1>7, <3>1, <4>1, <4>3
      <4> QED
        BY <1>1, <3>1, <4>4 DEF LinesFrom
    <3> QED
      BY <3>2, <3>3
  <2>2. ASSUME NEW j, lf < n, j \in L(lf + 1) PROVE j \in L(i)
    <3>1. j \in lf + 1 .. n /\ w[j] = f /\ (j = 1 \/ w[j - 1] = "LF")
      BY <1>1, <2>2 DEF LinesFrom
    <3>2. j \in i .. n
      BY <1>1, <1>7, <3>1
    <3> QED
      BY <1>1, <3>1, <3>2 DEF LinesFrom
  <2>3. w[i] = f => i \in L(i)
    BY <1>1, <1>3, <1>7 DEF LinesFrom, BeginsLine
  <2> HIDE DEF L
  <2> QED
    BY <2>1, <2>2, <2>3
<1>9. \A k \in 1 .. n : L(k) \subseteq Nat /\ \A j \in L(k) : k <= j
  BY <1>1 DEF LinesFrom
<1>10. CASE last = n
  <2>1. lf = n
    BY <1>1, <1>5, <1>7, <1>10
  <2>2. w[i] # f
    <3>1. PICK k \in 1 .. n - 1 : /\ w[k] = "LF"
                                  /\ n = k + 1 \/ (n = k + 2 /\ w[k + 1] \in Chars)
      BY BlankLast
    <3>2. k < i
      <4>1. t[k] = "LF" /\ k \in Nat /\ k <= n - 1
        BY <1>1, <3>1
      <4>2. ~ (k \in i .. lf - 1)
        BY <1>5, <4>1
      <4> QED
        BY <1>1, <1>7, <2>1, <4>1, <4>2
    <3>3. i = n \/ (i = k + 1 /\ w[k + 1] \in Chars)
      BY <1>1, <1>3, <1>7, <3>1, <3>2
    <3>4. w[n] = "LF"
      BY <1>1
    <3> QED
      BY <3>3, <3>4 DEF Chars
  <2>3. L(i) = {}
    BY <1>1, <1>8, <2>1, <2>2
  <2>4. s[i] = <<>>
    BY <1>6, <1>10
  <2> QED
    BY <1>3, <2>3, <2>4
<1>11. CASE last # n /\ t[i] = f
  <2>1. s[i] = Value(t, i, e)
    BY <1>6, <1>11
  <2>2. w[i] = f
    BY <1>1, <1>3, <1>11
  <2>3. i \in L(i) /\ L(i) \subseteq Nat /\ \A j \in L(i) : i <= j
    <3> HIDE DEF L
    <3> QED
      BY <1>3, <1>8, <1>9, <2>2
  <2>4. L(i) # {} /\ Least(L(i)) = i
    <3> HIDE DEF L
    <3>1. Least(L(i)) \in L(i) /\ \A j \in L(i) : Least(L(i)) <= j
      BY <2>3, LeastProperties
    <3>2. Least(L(i)) \in Nat /\ Least(L(i)) <= i /\ i <= Least(L(i))
      BY <2>3, <3>1
    <3> QED
      BY <1>7, <2>3, <3>2
  <2>5. Found(i)
    <3> HIDE DEF L
    <3> QED
      BY <2>1, <2>4 DEF e
  <2> QED
    BY <1>3, <2>5
<1>12. CASE last # n /\ t[i] # f
  <2>1. s[i] = s[last + 1]
    BY <1>6, <1>12
  <2>2. w[i] # f /\ lf < n
    BY <1>1, <1>3, <1>7, <1>12
  <2>3. L(i) = L(lf + 1)
    <3>1. \A j : j \in L(i) <=> j \in L(lf + 1)
      BY <1>8, <2>2
    <3> HIDE DEF L
    <3>2. \A j \in L(i) : j \in L(lf + 1)
      BY <3>1
    <3>3. \A j \in L(lf + 1) : j \in L(i)
      BY <3>1
    <3> QED
      BY <3>2, <3>3
  <2>4. lf + 1 \in 1 .. n /\ lf + 1 > i /\ BeginsLine(w, lf + 1) /\ lf \in 1 .. n
    <3>1. lf + 1 \in 1 .. n /\ lf + 1 > i /\ lf \in 1 .. n /\ lf + 1 - 1 = lf
      BY <1>1, <1>7, <2>2
    <3>2. w[lf] = "LF"
      BY <1>1, <1>5, <3>1
    <3> QED
      BY <3>1, <3>2 DEF BeginsLine
  <2>5. Found(lf + 1)
    BY <1>4, <2>4
  <2>6. CASE last = lf
    <3> HIDE DEF L
    <3>1. Found(i)
      BY <2>1, <2>3, <2>5, <2>6
    <3> QED
      BY <1>3, <3>1
  <2>7. CASE last # lf
    <3>1. last = lf + 1 /\ t[lf + 1] = "CR"
      BY <1>5, <2>7
    <3>2. w[lf + 1] = "CR" /\ w[lf] = "LF"
      BY <1>1, <1>5, <2>4, <3>1
    <3>3. n <= lf + 2
      BY <2>2, <2>4, <3>2, BlankLast
    <3>4. n = lf + 2 /\ last + 1 = n
      BY <1>1, <1>5, <1>7, <1>12, <3>1, <3>3
    <3>5. s[n] = <<>>
      <4>1. n \in 1 .. n
        BY <1>1
      <4>2. find_line_end(t, n, n).lineend = n
        <5> DEFINE x == find_line_end(t, n, n).lineend
                   y == NextLf(t, n, n)
        <5>1. y \in n .. n /\ x \in y .. n
          BY <4>1, LineShape DEF LineIs
        <5> HIDE DEF x, y
        <5>2. x = n
          BY <1>1, <5>1
        <5> QED
          BY <5>2 DEF x
      <4>3. s[n] = SearchStep(t, n, f, s, n)
        BY <4>1 DEF IsSearch
      <4> QED
        BY <4>2, <4>3 DEF SearchStep
    <3>6. L(lf + 1) = {}
      <4> SUFFICES ASSUME NEW j \in L(lf + 1) PROVE FALSE
        OBVIOUS
      <4>1. j \in lf + 1 .. n /\ w[j] = f
        BY <1>1 DEF LinesFrom
      <4>2. j = lf + 1 \/ j = n
        BY <1>7, <3>4, <4>1
      <4>3. w[n] = "LF"
        BY <1>1
      <4> QED
        BY <3>2, <4>1, <4>2, <4>3 DEF Chars
    <3> HIDE DEF L
    <3>7. Found(i)
      BY <2>1, <2>3, <3>4, <3>5, <3>6
    <3> QED
      BY <1>3, <3>7
  <2> QED
    BY <2>6, <2>7
<1> QED
  BY <1>10, <1>11, <1>12

\* http_header_param finds the first line with the name of a field, if there is one.
LEMMA FieldRead ==
  ASSUME NEW t, NEW w, NEW n, IsHeader(t, w, n), NEW f, f \notin Chars, t[1] # f
  PROVE  LET lines == {i \in 2 .. Len(w) : w[i] = f /\ w[i - 1] = "LF"}
             value == http_header_param(t, n, f)
         IN /\ value = <<>> <=> lines = {}
            /\ lines # {} => FieldLine(w, Least(lines), value)
<1> DEFINE lines == {i \in 2 .. Len(w) : w[i] = f /\ w[i - 1] = "LF"}
           value == http_header_param(t, n, f)
           search == CHOOSE s : s = [line \in 1 .. n |->
                        LET end == find_line_end(t, line, n)
                        IN CASE end.lineend = n -> <<>>
                             [] end.lineend # n /\ t[line] = f -> Value(t, line, end)
                             [] OTHER -> s[end.lineend + 1]]
<1>1. value = search[1]
  BY Zenon DEF http_header_param
<1>2. EndsLine(t, n) /\ n >= 1 /\ n \in Nat /\ Len(w) = n /\ \A i \in 1 .. n : t[i] = w[i]
  BY DEF IsHeader, EndsLine
<1>3. PICK s0 : IsSearch(t, n, f, s0, 1)
  BY <1>2, SearchExists
<1>4. s0 = [line \in 1 .. n |->
              LET end == find_line_end(t, line, n)
              IN CASE end.lineend = n -> <<>>
                   [] end.lineend # n /\ t[line] = f -> Value(t, line, end)
                   [] OTHER -> s0[end.lineend + 1]]
  BY <1>3, Zenon DEF IsSearch, SearchStep
<1>5. search = [line \in 1 .. n |->
                  LET end == find_line_end(t, line, n)
                  IN CASE end.lineend = n -> <<>>
                       [] end.lineend # n /\ t[line] = f -> Value(t, line, end)
                       [] OTHER -> search[end.lineend + 1]]
  BY <1>4, Zenon
<1> HIDE DEF search
<1>6. IsSearch(t, n, f, search, 1)
  BY <1>5, Zenon DEF IsSearch, SearchStep
<1> HIDE DEF value
<1>7. LinesFrom(w, 1, f) = lines
  <2>1. w[1] # f /\ Len(w) \in Nat /\ Len(w) >= 1
    BY <1>2
  <2> QED
    BY <2>1 DEF LinesFrom
<1>8. value = IF lines = {} THEN <<>>
              ELSE Value(t, Least(lines), find_line_end(t, Least(lines), n))
  <2>1. 1 \in 1 .. n /\ BeginsLine(w, 1)
    BY <1>2 DEF BeginsLine
  <2>2. search[1] = IF LinesFrom(w, 1, f) = {} THEN <<>>
                    ELSE LET j == Least(LinesFrom(w, 1, f))
                         IN Value(t, j, find_line_end(t, j, n))
    BY <1>6, <2>1, SearchFirst
  <2> HIDE DEF lines
  <2> QED
    BY <1>1, <1>7, <2>2
<1>9. ASSUME lines # {} PROVE value # <<>> /\ FieldLine(w, Least(lines), value)
  <2> DEFINE j == Least(lines)
  <2>1. j \in lines
    <3>1. lines \subseteq Nat
      OBVIOUS
    <3> HIDE DEF lines
    <3> QED
      BY <1>9, <3>1, LeastProperties
  <2>2. j \in 1 .. n /\ w[j] = f
    <3>1. j \in 2 .. n /\ w[j] = f
      BY <1>2, <2>1
    <3> HIDE DEF j
    <3> QED
      BY <1>2, <3>1
  <2> HIDE DEF j, lines
  <2>3. t[j] \notin Chars
    BY <1>2, <2>2
  <2>4. value = Value(t, j, find_line_end(t, j, n))
    BY <1>8, <1>9 DEF j
  <2>5. value # <<>> /\ FieldLine(w, j, value)
    BY <2>2, <2>3, <2>4, ValueRead
  <2> QED
    BY <2>5 DEF j
<1> HIDE DEF lines
<1>10. (value = <<>> <=> lines = {}) /\ (lines # {} => FieldLine(w, Least(lines), value))
  BY <1>8, <1>9
<1> QED
  BY <1>10 DEF lines, value

\* What the packet of a parsed header holds is a header.
LEMMA PacketHeader ==
  ASSUME IInv, header # NULL, Regular(pkt.tcp_odata)
  PROVE  IsHeader(Copied(payload), pkt.tcp_odata, find_header_end(payload))
<1> DEFINE p == payload
           n == find_header_end(payload)
           t == Copied(payload)
           w == pkt.tcp_odata
<1>1. /\ p \in Seq(Atoms) /\ n \in 1 .. Len(p) /\ w = SubSeq(p, 1, n)
  BY HeaderParsed
<1>2. n # 0
  BY <1>1
<1>3. /\ p[n] = "LF" /\ n > 1 /\ Len(p) \in Nat
      /\ t \in Seq(Symbols) /\ Len(t) = n + 1
      /\ \A i \in 1 .. n : t[i] = p[i] /\ p[i] \in Atoms
  BY <1>1, <1>2, CopyIs
<1>4. DOMAIN p = 1 .. Len(p) /\ n \in Ends(p) /\ \A j \in Ends(p) : n <= j
  BY <1>1, <1>2, HeaderEnd, LenProperties
<1> HIDE DEF p, n, t, w
<1>5. w \in Seq(Atoms) /\ Len(w) = n /\ \A i \in 1 .. n : w[i] = p[i]
  <2>1. /\ w \in Seq(Atoms) /\ Len(w) = IF 1 <= n THEN n - 1 + 1 ELSE 0
        /\ \A i \in 1 .. n - 1 + 1 : w[i] = p[1 + i - 1]
    BY <1>1, <1>3, SubSeqProperties
  <2>2. n \in Nat /\ n - 1 + 1 = n /\ 1 <= n /\ \A i \in 1 .. n : 1 + i - 1 = i
    BY <1>1, <1>3
  <2> QED
    BY <2>1, <2>2
<1>6. DOMAIN w = 1 .. Len(w) /\ Len(w) \in Nat /\ n \in Nat
  BY <1>5, LenProperties
<1>7. ASSUME NEW j \in 1 .. n PROVE j \in Ends(p) <=> j \in Ends(w)
  <2>1. n <= Len(p) /\ n <= Len(w)
    BY <1>1, <1>3, <1>5, <1>6
  <2> QED
    BY <1>3, <1>4, <1>5, <1>6, <2>1, SameEnds
<1>8. Ends(w) \subseteq 1 .. n
  BY <1>5, HeaderEnd
<1>9. n \in Ends(w) /\ \A j \in Ends(w) : n <= j
  <2>1. n \in 1 .. n
    BY <1>1, <1>6
  <2>2. \A j \in Ends(w) : j \in Ends(p)
    BY <1>7, <1>8
  <2> QED
    BY <1>4, <1>7, <2>1, <2>2
<1>10. EndsLine(t, n)
  <2>1. n <= Len(t)
    BY <1>3, <1>6
  <2>2. t[n] = "LF" /\ \A i \in 1 .. n : t[i] \in Atoms
    BY <1>1, <1>3, <1>6
  <2> QED
    BY <1>3, <1>6, <2>1, <2>2 DEF EndsLine
<1>11. \A i \in 1 .. n : t[i] = w[i]
  BY <1>3, <1>5
<1>12. Regular(w)
  BY DEF w
<1>13. IsHeader(t, w, n)
  BY <1>3, <1>5, <1>9, <1>10, <1>11, <1>12 DEF IsHeader
<1> QED
  BY <1>13 DEF p, n, t, w

HttpFields == RequestFields \cup RequestContent \cup ResponseFields

\* No field has the name of a method or a version, or is a character.
LEMMA FieldNames ==
  /\ \A f \in HttpFields : f \notin Chars \cup Methods \cup Versions \cup {"M-"}
  /\ "Connection:" \notin RequestContent \cup ResponseFields
  /\ \A m \in Methods : m \notin {"CR", "LF", "SP", "NONE", "M-"}
  /\ \A v \in Versions : v \notin {"CR", "LF", "SP", "NONE", "M-"}
<1>1. \A f \in HttpFields : f \notin Chars \cup Versions \cup {"M-"}
  BY DEF HttpFields, RequestFields, RequestContent, ResponseFields, Chars, Versions
<1>2. \A f \in HttpFields : f \notin Methods
  BY DEF HttpFields, RequestFields, RequestContent, ResponseFields, Methods
<1>3. "Connection:" \notin RequestContent \cup ResponseFields
  BY DEF RequestContent, ResponseFields
<1>4. \A m \in Methods : m \notin {"CR", "LF", "SP", "NONE", "M-"}
  BY DEF Methods
<1>5. \A v \in Versions : v \notin {"CR", "LF", "SP", "NONE", "M-"}
  BY DEF Versions
<1> QED
  BY <1>1, <1>2, <1>3, <1>4, <1>5

\* What is written of the fields in "said" is what the lines of w say of them.
Written(w, said, param) ==
  LET Lines(f) == {i \in 2 .. Len(w) : w[i] = f /\ w[i - 1] = "LF"}
  IN /\ DOMAIN param = {f \in said : Lines(f) # {}}
     /\ \A f \in DOMAIN param : FieldLine(w, Least(Lines(f)), param[f])

\* The fields of h are those of the header that are asked for.
Asked(h, t, n, said) ==
  /\ said \subseteq DOMAIN h.param \ {"Connection:"}
  /\ DOMAIN h.param \subseteq HttpFields
  /\ \A f \in DOMAIN h.param \ {"Connection:"} :
       h.param[f] = IF f \in said THEN http_header_param(t, n, f) ELSE <<>>

\* The fields written are those that are asked for and have a line.
LEMMA FieldsWritten ==
  ASSUME NEW t, NEW w, NEW n, IsHeader(t, w, n), t[1] \in Methods \cup Versions \cup {"M-"},
         NEW h, NEW said, Asked(h, t, n, said)
  PROVE  Written(w, said, save_flow_json(h).param)
<1> DEFINE Lines(f) == {i \in 2 .. Len(w) : w[i] = f /\ w[i - 1] = "LF"}
           D == {g \in DOMAIN h.param \ {"Connection:"} : h.param[g] # <<>>}
           param == save_flow_json(h).param
<1>1. param = [f \in D |-> h.param[f]]
  BY DEF save_flow_json
<1>a. /\ said \subseteq DOMAIN h.param \ {"Connection:"}
      /\ DOMAIN h.param \subseteq HttpFields
      /\ \A f \in DOMAIN h.param \ {"Connection:"} :
           h.param[f] = IF f \in said THEN http_header_param(t, n, f) ELSE <<>>
  BY DEF Asked
<1>2. ASSUME NEW f \in said
      PROVE  /\ h.param[f] = <<>> <=> Lines(f) = {}
             /\ Lines(f) # {} => FieldLine(w, Least(Lines(f)), h.param[f])
  <2>1. f \in HttpFields /\ h.param[f] = http_header_param(t, n, f)
    BY <1>a
  <2>2. f \notin Chars /\ t[1] # f
    BY <2>1, FieldNames
  <2> QED
    BY <2>1, <2>2, FieldRead
<1> HIDE DEF Lines, param
<1>3. \A f \in D : f \in said
  BY <1>a
<1>4. D = {f \in said : Lines(f) # {}}
  <2>1. \A f \in D : f \in {g \in said : Lines(g) # {}}
    BY <1>2, <1>3
  <2>2. \A f \in said : Lines(f) # {} => f \in D
    BY <1>a, <1>2
  <2> HIDE DEF D
  <2> QED
    BY <2>1, <2>2
<1>5. DOMAIN param = D /\ \A f \in D : param[f] = h.param[f]
  <2> HIDE DEF D
  <2> QED
    BY <1>1
<1>6. \A f \in D : FieldLine(w, Least(Lines(f)), param[f])
  <2> SUFFICES ASSUME NEW f \in D PROVE FieldLine(w, Least(Lines(f)), param[f])
    OBVIOUS
  <2>1. f \in said /\ Lines(f) # {} /\ param[f] = h.param[f]
    <3> HIDE DEF D
    <3> QED
      BY <1>4, <1>5
  <2> QED
    BY <1>2, <2>1
<1> HIDE DEF D
<1>7. /\ DOMAIN param = {f \in said : Lines(f) # {}}
      /\ \A f \in DOMAIN param : FieldLine(w, Least(Lines(f)), param[f])
  BY <1>4, <1>5, <1>6
<1> QED
  BY <1>7 DEF Lines, param, Written

\* What http_parse_request leaves in a request it has parsed.
LEMMA RequestHeader ==
  ASSUME NEW t, NEW n, n \in Nat, n >= 1, Len(t) = n + 1,
         NEW h, h = http_parse_request(t, n, n), h.ret = 0,
         NEW last, last = find_line_end(t, 1, n).lineend
  PROVE  /\ h.uri = http_request_uri(t, 1, last + 1)
         /\ h.version = http_request_version(t, 1, last + 1)
         /\ DOMAIN h.param = RequestFields \cup RequestContent
         /\ \A f \in DOMAIN h.param :
              h.param[f] = IF f \in RequestFields
                                \/ (h.method = "POST" /\ f \in RequestContent)
                           THEN http_header_param(t, n, f) ELSE <<>>
<1> DEFINE method  == http_request_method(t, 1, last + 1)
           fields  == RequestFields \cup RequestContent
           wanted  == RequestFields \cup (IF method = "POST" THEN RequestContent ELSE {})
           param   == [f \in fields |-> IF f \in wanted THEN Field(t, n, f) ELSE <<>>]
           uri     == http_request_uri(t, 1, last + 1)
           version == http_request_version(t, 1, last + 1)
<1>1. h = IF method = "NONE" THEN Unparsed(fields, n)
          ELSE [ret |-> 0, hdlen |-> n, method |-> method, status |-> HTTP_ST_NONE,
                uri |-> uri, version |-> version, param |-> param]
  <2>1. last = FirstLineEnd(t, n).lineend
    BY DEF FirstLineEnd
  <2> QED
    BY <2>1, Zenon DEF http_parse_request
<1>2. DOMAIN param = fields
      /\ \A f \in fields : param[f] = IF f \in wanted THEN http_header_param(t, n, f)
                                      ELSE <<>>
  BY FieldWithin
<1>3. \A f : f \in wanted <=> f \in RequestFields \/ (method = "POST" /\ f \in RequestContent)
  OBVIOUS
<1> HIDE DEF method, fields, wanted, param, uri, version
<1>4. method # "NONE"
  <2> SUFFICES ASSUME method = "NONE" PROVE FALSE
    OBVIOUS
  <2>1. h = Unparsed(fields, n)
    BY <1>1
  <2>2. h.ret = -1
    BY <2>1 DEF Unparsed
  <2> QED
    BY <2>2
<1>5. h.method = method /\ h.uri = uri /\ h.version = version /\ h.param = param
  BY <1>1, <1>4
<1>6. \A f \in DOMAIN h.param :
        h.param[f] = IF f \in RequestFields \/ (h.method = "POST" /\ f \in RequestContent)
                     THEN http_header_param(t, n, f) ELSE <<>>
  BY <1>2, <1>3, <1>5
<1> QED
  BY <1>2, <1>5, <1>6 DEF uri, version, fields

\* What http_parse_response leaves in a response it has parsed.
LEMMA ResponseHeader ==
  ASSUME NEW t, NEW n, n \in Nat, n >= 1, Len(t) = n + 1,
         NEW h, h = http_parse_response(t, n, n), h.ret = 0,
         NEW last, last = find_line_end(t, 1, n).lineend
  PROVE  /\ h.status = http_response_status(t, 1, last + 1) /\ h.status # HTTP_ST_NONE
         /\ h.version = http_response_version(t)
         /\ DOMAIN h.param = ResponseFields
         /\ \A f \in DOMAIN h.param : h.param[f] = http_header_param(t, n, f)
<1> DEFINE status  == http_response_status(t, 1, last + 1)
           param   == [f \in ResponseFields |-> Field(t, n, f)]
           version == http_response_version(t)
<1>1. h = IF status = HTTP_ST_NONE THEN Unparsed(ResponseFields, n)
          ELSE [ret |-> 0, hdlen |-> n, method |-> "NONE", uri |-> <<>>, status |-> status,
                version |-> version, param |-> param]
  <2>1. last = FirstLineEnd(t, n).lineend
    BY DEF FirstLineEnd
  <2> QED
    BY <2>1, Zenon DEF http_parse_response
<1>2. /\ DOMAIN param = ResponseFields
      /\ \A f \in ResponseFields : param[f] = http_header_param(t, n, f)
  BY FieldWithin
<1> HIDE DEF status, param, version
<1>3. status # HTTP_ST_NONE
  <2> SUFFICES ASSUME status = HTTP_ST_NONE PROVE FALSE
    OBVIOUS
  <2>1. h = Unparsed(ResponseFields, n)
    BY <1>1
  <2>2. h.ret = -1
    BY <2>1 DEF Unparsed
  <2> QED
    BY <2>2
<1>4. h.status = status /\ h.version = version /\ h.param = param
  BY <1>1, <1>3
<1> QED
  BY <1>2, <1>3, <1>4 DEF status, version

\* The line begins with the symbols the header begins with.
LEMMA LineBegins ==
  ASSUME NEW t, NEW w, NEW n, IsHeader(t, w, n), t[1] \notin {"CR", "LF"}
  PROVE  /\ LineAt(w, 1)[1] = t[1]
         /\ t[2] \notin {"CR", "LF"} => LineAt(w, 1)[2] = t[2]
<1> DEFINE e == find_line_end(t, 1, n)
           eol == e.eol
           l == LineAt(w, 1)
           lf == NextLf(t, 1, n)
<1>1. n \in Nat /\ n > 1 /\ 1 \in 1 .. n
  BY DEF IsHeader, EndsLine
<1>2. LineIs(t, w, n, 1, lf, eol, e.lineend)
  BY <1>1, LineShape
<1> HIDE DEF e, eol, l, lf
<1>3. /\ lf \in 1 .. n /\ eol \in 1 .. lf /\ t[eol] \in {"CR", "LF"}
      /\ \A k \in 1 .. eol - 1 : l[k] = t[1 + k - 1]
  BY <1>2 DEF LineIs, l
<1>4. eol \in Nat /\ eol # 1 /\ (t[2] \notin {"CR", "LF"} => eol # 2)
  BY <1>1, <1>3
<1>5. 1 \in 1 .. eol - 1 /\ (eol # 2 => 2 \in 1 .. eol - 1)
  BY <1>3, <1>4
<1>6. l[1] = t[1] /\ (eol # 2 => l[2] = t[2])
  <2>1. 1 + 1 - 1 = 1 /\ 1 + 2 - 1 = 2
    OBVIOUS
  <2> QED
    BY <1>3, <1>5, <2>1
<1> QED
  BY <1>4, <1>6 DEF l

\* flow_extract_http, http_parse_request, http_parse_response and save_flow_json: what is
\* written of a message in lines is what the message says, whatever its URI, its version,
\* its status and its fields, in any order and any number, and whatever tcp_order takes of
\* the packet; only the fields need the header to have kept its end, and only a status
\* 307 is written as 306.
THEOREM MessageReported == Spec => []Reported
<1>1. IInv => Reported
  <2> SUFFICES ASSUME IInv, header # NULL, header.ret = 0, Regular(pkt.tcp_odata)
               PROVE  LET t     == pkt.tcp_odata
                          l     == LineAt(t, 1)
                          json  == save_flow_json(header)
                          Lines(f) == {i \in 2 .. Len(t) : t[i] = f /\ t[i - 1] = "LF"}
                          said  == IF pkt.http = "rsp" THEN ResponseFields
                                   ELSE (RequestFields \ {"Connection:"})
                                          \cup (IF json.mth = "POST" THEN RequestContent
                                                ELSE {})
                      IN /\ pkt.http = "req" => /\ json.mth = IF l[1] = "M-" THEN l[2] ELSE l[1]
                                                /\ RequestLine(l, json)
                         /\ pkt.http = "rsp" =>
                              /\ json.ver = VersionCode[l[1]]
                              /\ StatusLine(l, json)
                         /\ Reaches =>
                              /\ DOMAIN json.param = {f \in said : Lines(f) # {}}
                              /\ \A f \in DOMAIN json.param :
                                   FieldLine(t, Least(Lines(f)), json.param[f])
    BY DEF Reported
  <2> DEFINE p == payload
             t == Copied(payload)
             w == pkt.tcp_odata
             n == find_header_end(payload)
             l == LineAt(w, 1)
             last == find_line_end(t, 1, n).lineend
             W == WholeHeader(payload)
             json == save_flow_json(header)
             whole == save_flow_json(W)
             Lines(f) == {i \in 2 .. Len(w) : w[i] = f /\ w[i - 1] = "LF"}
  <2>1. /\ p \in Seq(Atoms) /\ p # <<>> /\ IsHttpPacket(p)
        /\ n \in 1 .. Len(p)
        /\ pkt.http = IF IsRequest(p) # 0 THEN "req" ELSE "rsp"
        /\ SameLine(header, W)
        /\ Reaches => header = W
    BY HeaderParsed
  <2>a. W = IF IsRequest(p) # 0 THEN http_parse_request(t, n, n)
            ELSE http_parse_response(t, n, n)
    BY DEF WholeHeader
  <2>2. n # 0 /\ n > 1
    <3>1. n # 0
      BY <2>1
    <3> QED
      BY <2>1, <3>1, CopyIs
  <2>3. /\ \A i \in 1 .. n : t[i] = p[i]
        /\ Len(t) = n + 1 /\ n \in Nat /\ n >= 1
    BY <2>1, <2>2, CopyIs
  <2>4. IsHeader(t, w, n)
    BY PacketHeader
  <2>5. t[1] = p[1] /\ t[2] = p[2]
    <3>1. n \in Nat /\ 1 \in 1 .. n /\ 2 \in 1 .. n
      BY <2>1, <2>2
    <3> HIDE DEF t, n
    <3> QED
      BY <2>3, <3>1
  <2>6. /\ json.mth = W.method /\ json.ver = VersionCode[W.version]
        /\ json.uri = W.uri /\ json.sta = W.status /\ W.ret = 0
        /\ whole.mth = W.method
    <3> HIDE DEF W
    <3>1. SameLine(header, W)
      BY <2>1
    <3> QED
      BY <3>1 DEF save_flow_json, SameLine
  <2>b. Reaches => json.param = whole.param
    <3> HIDE DEF W
    <3> QED
      BY <2>1
  <2>7. CASE IsRequest(p) # 0
    <3>1. pkt.http = "req" /\ W = http_parse_request(t, n, n)
      BY <2>1, <2>a, <2>7
    <3>2. /\ W.method \in Methods
          /\ W.method = IF t[1] = "M-" THEN t[2] ELSE t[1]
      <4>1. /\ IF p[1] = "CR" THEN W.ret = -1
               ELSE W.ret = 0 /\ W.method \in Methods
            /\ p[1] # "CR" => W.method = IF p[1] = "M-" THEN p[2] ELSE p[1]
        BY <2>1, <2>7, <3>1, RequestParsed
      <4> HIDE DEF t, W
      <4> QED
        BY <2>5, <2>6, <4>1
    <3> HIDE DEF t, n, l, last, json, w, W, whole
    <3>3. t[1] \in Methods \cup {"M-"} /\ (t[1] = "M-" => t[2] \in Methods)
      BY <3>2
    <3>4. t[1] \notin {"SP", "CR", "LF"}
      BY <3>3, FieldNames
    <3>5. l[1] = t[1] /\ (t[1] = "M-" => l[2] = t[2])
      <4>1. t[1] = "M-" => t[2] \notin {"CR", "LF"}
        BY <3>3, FieldNames
      <4> QED
        BY <2>4, <3>4, <4>1, LineBegins DEF l
    <3>6. json.mth = IF l[1] = "M-" THEN l[2] ELSE l[1]
      BY <2>6, <3>2, <3>5
    <3>7. /\ W.uri = http_request_uri(t, 1, last + 1)
          /\ W.version = http_request_version(t, 1, last + 1)
          /\ DOMAIN W.param = RequestFields \cup RequestContent
          /\ \A f \in DOMAIN W.param :
               W.param[f] = IF f \in RequestFields
                                     \/ (W.method = "POST" /\ f \in RequestContent)
                                 THEN http_header_param(t, n, f) ELSE <<>>
      BY <2>3, <2>6, <3>1, RequestHeader DEF last
    <3>8. RequestLine(l, json)
      BY <2>4, <2>6, <3>4, <3>7, RequestLineRead DEF last, l
    <3> DEFINE said == (RequestFields \ {"Connection:"})
                         \cup (IF json.mth = "POST" THEN RequestContent ELSE {})
    <3>9. /\ DOMAIN whole.param = {f \in said : Lines(f) # {}}
          /\ \A f \in DOMAIN whole.param : FieldLine(w, Least(Lines(f)), whole.param[f])
      <4>1. said \subseteq DOMAIN W.param \ {"Connection:"}
        BY <3>7, FieldNames
      <4>2. DOMAIN W.param \subseteq HttpFields
        BY <3>7 DEF HttpFields
      <4>3. \A f \in DOMAIN W.param \ {"Connection:"} :
              W.param[f] = IF f \in said THEN http_header_param(t, n, f) ELSE <<>>
        <5>1. \A f \in DOMAIN W.param \ {"Connection:"} :
                f \in said <=> f \in RequestFields
                                 \/ (W.method = "POST" /\ f \in RequestContent)
          BY <2>6, <3>7
        <5> HIDE DEF said
        <5> QED
          BY <3>7, <5>1
      <4>4. t[1] \in Methods \cup Versions \cup {"M-"}
        BY <3>3
      <4> HIDE DEF said
      <4> QED
        <5>1. Asked(W, t, n, said)
          BY Zenon, <4>1, <4>2, <4>3 DEF Asked
        <5>2. Written(w, said, save_flow_json(W).param)
          BY Zenon, <2>4, <4>4, <5>1, FieldsWritten
        <5> QED
          BY Zenon, <5>2 DEF Written, whole
    <3> QED
      BY <2>b, <3>1, <3>6, <3>8, <3>9 DEF l, json, w
  <2>8. CASE IsRequest(p) = 0
    <3>1. pkt.http = "rsp" /\ W = http_parse_response(t, n, n)
      BY <2>1, <2>a, <2>8
    <3>2. t[1] \in Versions
      <4>1. http_response_version(p) # "NONE"
        BY <2>1, <2>8 DEF IsHttpPacket, IsResponse
      <4> QED
        BY <2>5, <4>1 DEF http_response_version
    <3> HIDE DEF t, n, l, last, json, w, W, whole
    <3>3. t[1] \notin {"SP", "CR", "LF"}
      BY <3>2, FieldNames
    <3>4. /\ W.status = http_response_status(t, 1, last + 1)
          /\ W.status # HTTP_ST_NONE
          /\ W.version = http_response_version(t)
          /\ DOMAIN W.param = ResponseFields
          /\ \A f \in DOMAIN W.param : W.param[f] = http_header_param(t, n, f)
      BY <2>3, <2>6, <3>1, ResponseHeader DEF last
    <3>5. json.ver = VersionCode[l[1]]
      <4>1. W.version = t[1]
        BY <3>2, <3>4 DEF http_response_version
      <4>2. l[1] = t[1]
        BY <2>4, <3>3, LineBegins DEF l
      <4> QED
        BY <2>6, <4>1, <4>2
    <3>6. StatusLine(l, json)
      <4>1. http_response_status(t, 1, last + 1) # HTTP_ST_NONE
        BY <3>4
      <4>2. http_response_status(t, 1, last + 1)
              = StatusOf[LineAt(w, 1)[Least(After(Words(LineAt(w, 1)), 1))]]
        BY <2>4, <3>3, <4>1, StatusRead DEF last
      <4> DEFINE word == l[Least(After(Words(l), 1))]
      <4>3. json.sta = StatusOf[word] /\ word \in Statuses
        BY <2>4, <2>6, <3>3, <3>4, <4>1, <4>2, StatusRead DEF last, l
      <4> HIDE DEF word
      <4>4. StatusOf[word] = IF word = "307" THEN 306 ELSE NumberOf[word]
        BY <4>3 DEF StatusOf, Statuses, NumberOf
      <4> QED
        BY <4>3, <4>4 DEF StatusLine, word
    <3>7. /\ DOMAIN whole.param = {f \in ResponseFields : Lines(f) # {}}
          /\ \A f \in DOMAIN whole.param : FieldLine(w, Least(Lines(f)), whole.param[f])
      <4>1. ResponseFields \subseteq DOMAIN W.param \ {"Connection:"}
        BY <3>4, FieldNames
      <4>2. DOMAIN W.param \subseteq HttpFields
        BY <3>4 DEF HttpFields
      <4>3. \A f \in DOMAIN W.param \ {"Connection:"} :
              W.param[f] = IF f \in ResponseFields THEN http_header_param(t, n, f)
                                ELSE <<>>
        BY <3>4
      <4>4. t[1] \in Methods \cup Versions \cup {"M-"}
        BY <3>2
      <4> QED
        <5>1. Asked(W, t, n, ResponseFields)
          BY Zenon, <4>1, <4>2, <4>3 DEF Asked
        <5>2. Written(w, ResponseFields, save_flow_json(W).param)
          BY Zenon, <2>4, <4>4, <5>1, FieldsWritten
        <5> QED
          BY Zenon, <5>2 DEF Written, whole
    <3> QED
      BY <2>b, <3>1, <3>5, <3>6, <3>7 DEF l, json, w
  <2> QED
    BY <2>7, <2>8
<1> QED
  BY <1>1, Invariance, PTL

==============================================================================
