-------------------------- MODULE GlobalHeapProof --------------------------
(***************************************************************************)
(* Proofs about global_heap, for any arenas, sizes, number of threads and  *)
(* order of their calls.                                                   *)
(***************************************************************************)
EXTENDS GlobalHeap, TLAPS, SequenceTheorems, NaturalsInduction, WellFoundedInduction

-----------------------------------------------------------------------------
(* Arithmetic.                                                             *)

\* Rounding up moves an address by less than the alignment, to a multiple.
LEMMA AlignBounds ==
  ASSUME NEW x \in Nat, NEW n \in Nat \ {0}
  PROVE  /\ AlignUp(x, n) \in Nat /\ x <= AlignUp(x, n) /\ AlignUp(x, n) < x + n
         /\ AlignUp(x, n) % n = 0
<1> DEFINE y == x + n - 1  q == y \div n  r == y % n
<1>1. y \in Nat
  OBVIOUS
<1>2. q \in Nat /\ r \in 0 .. n - 1 /\ y = n * q + r
  BY <1>1
<1>3. AlignUp(x, n) = q * n /\ y = x + n - 1
  BY DEF AlignUp
<1> HIDE DEF y, q, r
<1>4. q * n = n * q /\ q * n \in Nat /\ (q * n) % n = 0
  BY <1>2
<1>5. QED
  BY <1>2, <1>3, <1>4

LEMMA Multiple ==
  ASSUME NEW x \in Nat, NEW n \in Nat \ {0} PROVE x % n = 0 <=> \E i \in Nat : x = n * i
<1>1. x = n * (x \div n) + (x % n) /\ x \div n \in Nat /\ x % n \in 0 .. n - 1
  OBVIOUS
<1>2. ASSUME NEW i \in Nat, x = n * i PROVE x % n = 0
  <2>1. PICK q \in Nat, r \in 0 .. n - 1 : q = x \div n /\ r = x % n
    BY <1>1
  <2>2. n * i = n * q + r
    BY <1>1, <1>2, <2>1
  <2>3. n * (i - q) = r
    BY <2>2
  <2>4. i - q >= 1 => n * (i - q) >= n
    OBVIOUS
  <2>5. i - q <= -1 => n * (i - q) <= -n
    OBVIOUS
  <2>6. i - q = 0
    BY <2>3, <2>4, <2>5
  <2>7. QED
    BY <2>1, <2>3, <2>6
<1>3. ASSUME x % n = 0 PROVE \E i \in Nat : x = n * i
  <2>1. PICK q \in Nat : q = x \div n
    BY <1>1
  <2>2. x = n * q + 0
    BY <1>1, <1>3, <2>1
  <2>3. n * q + 0 = n * q
    OBVIOUS
  <2>4. QED
    BY <2>2, <2>3
<1>4. QED
  BY <1>2, <1>3

LEMMA AlignedStays ==
  ASSUME NEW x \in Nat, NEW n \in Nat \ {0}, x % n = 0 PROVE AlignUp(x, n) = x
<1>1. PICK i \in Nat : x = n * i
  BY Multiple
<1>2. AlignUp(x, n) \in Nat /\ x <= AlignUp(x, n) /\ AlignUp(x, n) < x + n /\ AlignUp(x, n) % n = 0
  BY AlignBounds
<1>3. PICK j \in Nat : AlignUp(x, n) = n * j
  BY <1>2, Multiple
<1>4. n * i <= n * j /\ n * j < n * i + n
  BY <1>1, <1>2, <1>3
<1>5. i <= j
  BY <1>4
<1>6. j < i + 1
  <2>1. n * i + n = n * (i + 1)
    OBVIOUS
  <2>2. n * j < n * (i + 1)
    BY <1>4, <2>1
  <2>3. QED
    BY <2>2
<1>7. QED
  BY <1>1, <1>3, <1>5, <1>6

LEMMA MultiplesAdd ==
  ASSUME NEW x \in Nat, NEW y \in Nat, NEW n \in Nat \ {0}, x % n = 0, y % n = 0
  PROVE  (x + y) % n = 0
<1>1. PICK i \in Nat, j \in Nat : x = n * i /\ y = n * j
  BY Multiple
<1>2. x + y = n * (i + j) /\ i + j \in Nat /\ x + y \in Nat
  BY <1>1
<1>3. QED
  BY <1>2, Multiple

\* A non-empty set of numbers has a least element.
LEMMA LeastOf ==
  ASSUME NEW T \in SUBSET Nat, T # {} PROVE \E x \in T : \A y \in T : x <= y
<1> DEFINE Less == {ss \in Nat \X Nat : ss[1] < ss[2]}
<1>1. IsWellFoundedOn(Less, Nat)
  BY NatLessThanWellFounded DEF OpToRel
<1> HIDE DEF Less
<1>2. PICK x \in T : \A y \in T : ~ (<<y, x>> \in Less)
  BY <1>1, WFMin
<1>3. ASSUME NEW y \in T, y < x PROVE FALSE
  <2> DEFINE yx == <<y, x>>
  <2>1. yx \in Nat \X Nat /\ yx[1] = y /\ yx[2] = x
    OBVIOUS
  <2> HIDE DEF yx
  <2>2. yx \in Less
    BY <1>3, <2>1 DEF Less
  <2>3. QED
    BY <1>2, <2>2 DEF yx
<1>4. QED
  BY <1>3

-----------------------------------------------------------------------------
(* The lists: chain_ and free_ are sequences of addresses.                 *)

LEMMA InsertIs ==
  ASSUME NEW s \in Seq(Nat), NEW i \in 1 .. Len(s) + 1, NEW e \in Nat
  PROVE  /\ InsertAt(s, i, e) \in Seq(Nat) /\ Len(InsertAt(s, i, e)) = Len(s) + 1
         /\ \A j \in 1 .. Len(s) + 1 :
              InsertAt(s, i, e)[j] = IF j < i THEN s[j] ELSE IF j = i THEN e ELSE s[j - 1]
<1> DEFINE a == SubSeq(s, 1, i - 1)  b == SubSeq(s, i, Len(s))  u == <<e>>  c == a \o u
<1>1. Len(s) \in Nat /\ i \in Nat /\ i >= 1 /\ i <= Len(s) + 1
  OBVIOUS
<1>2. a \in Seq(Nat) /\ Len(a) = i - 1 /\ \A j \in 1 .. i - 1 : a[j] = s[j]
  BY <1>1
<1>3. b \in Seq(Nat) /\ Len(b) = Len(s) - i + 1 /\ \A j \in 1 .. Len(s) - i + 1 : b[j] = s[j + i - 1]
  <2>1. \A j \in i .. Len(s) : s[j] \in Nat
    BY <1>1
  <2>2. /\ b \in Seq(Nat) /\ Len(b) = IF i <= Len(s) THEN Len(s) - i + 1 ELSE 0
        /\ \A j \in 1 .. Len(s) - i + 1 : b[j] = s[i + j - 1]
    BY <1>1, <2>1, SubSeqProperties
  <2>3. QED
    BY <1>1, <2>2
<1>4. u \in Seq(Nat) /\ Len(u) = 1 /\ u[1] = e
  OBVIOUS
<1>5. InsertAt(s, i, e) = c \o b
  BY DEF InsertAt
<1> HIDE DEF a, b, u
<1>6. c \in Seq(Nat) /\ Len(c) = i /\ \A j \in 1 .. i : c[j] = IF j < i THEN s[j] ELSE e
  <2>1. /\ c \in Seq(Nat) /\ Len(c) = Len(a) + Len(u)
        /\ \A j \in 1 .. Len(a) + Len(u) : c[j] = IF j <= Len(a) THEN a[j] ELSE u[j - Len(a)]
    BY <1>2, <1>4, ConcatProperties
  <2> HIDE DEF c
  <2>2. Len(c) = i
    BY <1>1, <1>2, <1>4, <2>1
  <2>3. ASSUME NEW j \in 1 .. i PROVE c[j] = IF j < i THEN s[j] ELSE e
    <3>1. c[j] = IF j <= Len(a) THEN a[j] ELSE u[j - Len(a)]
      BY <1>1, <1>2, <1>4, <2>1
    <3>2. CASE j < i
      BY <1>1, <1>2, <3>1, <3>2
    <3>3. CASE j = i
      BY <1>1, <1>2, <1>4, <3>1, <3>3
    <3>4. QED
      BY <1>1, <3>2, <3>3
  <2>4. QED
    BY <2>1, <2>2, <2>3
<1> HIDE DEF c
<1>7. /\ c \o b \in Seq(Nat) /\ Len(c \o b) = Len(c) + Len(b)
      /\ \A j \in 1 .. Len(c) + Len(b) : (c \o b)[j] = IF j <= Len(c) THEN c[j] ELSE b[j - Len(c)]
  BY <1>3, <1>6, ConcatProperties
<1>8. Len(c) + Len(b) = Len(s) + 1
  BY <1>1, <1>3, <1>6
<1>9. ASSUME NEW j \in 1 .. Len(s) + 1
      PROVE  (c \o b)[j] = IF j < i THEN s[j] ELSE IF j = i THEN e ELSE s[j - 1]
  <2>1. (c \o b)[j] = IF j <= i THEN c[j] ELSE b[j - i]
    BY <1>6, <1>7, <1>8
  <2>2. CASE j <= i
    BY <1>1, <1>6, <2>1, <2>2
  <2>3. CASE j > i
    <3>1. j - i \in 1 .. Len(s) - i + 1 /\ (j - i) + i - 1 = j - 1
      BY <1>1, <2>3
    <3>2. b[j - i] = s[(j - i) + i - 1]
      BY <1>3, <3>1
    <3>3. QED
      BY <1>1, <2>1, <2>3, <3>1, <3>2
  <2>4. j <= i \/ j > i
    BY <1>1
  <2>5. QED
    BY <2>2, <2>3, <2>4
<1>10. QED
  BY <1>5, <1>7, <1>8, <1>9

LEMMA RemoveAtIs ==
  ASSUME NEW s \in Seq(Nat), NEW i \in 1 .. Len(s)
  PROVE  /\ RemoveAt(s, i) \in Seq(Nat) /\ Len(RemoveAt(s, i)) = Len(s) - 1
         /\ \A j \in 1 .. Len(s) - 1 : RemoveAt(s, i)[j] = IF j < i THEN s[j] ELSE s[j + 1]
<1> DEFINE a == SubSeq(s, 1, i - 1)  b == SubSeq(s, i + 1, Len(s))
<1>1. Len(s) \in Nat /\ i \in Nat /\ i >= 1 /\ i <= Len(s)
  OBVIOUS
<1>2. a \in Seq(Nat) /\ Len(a) = i - 1 /\ \A j \in 1 .. i - 1 : a[j] = s[j]
  BY <1>1
<1>3. b \in Seq(Nat) /\ Len(b) = Len(s) - i /\ \A j \in 1 .. Len(s) - i : b[j] = s[j + i]
  <2>1. \A j \in i + 1 .. Len(s) : s[j] \in Nat
    BY <1>1
  <2>2. /\ b \in Seq(Nat) /\ Len(b) = IF i + 1 <= Len(s) THEN Len(s) - (i + 1) + 1 ELSE 0
        /\ \A j \in 1 .. Len(s) - (i + 1) + 1 : b[j] = s[(i + 1) + j - 1]
    BY <1>1, <2>1, SubSeqProperties
  <2>3. QED
    BY <1>1, <2>2
<1>4. RemoveAt(s, i) = a \o b
  BY DEF RemoveAt
<1> HIDE DEF a, b
<1>5. /\ a \o b \in Seq(Nat) /\ Len(a \o b) = Len(s) - 1
      /\ \A j \in 1 .. Len(s) - 1 : (a \o b)[j] = IF j < i THEN a[j] ELSE b[j - i + 1]
  <2>1. /\ a \o b \in Seq(Nat) /\ Len(a \o b) = Len(a) + Len(b)
        /\ \A j \in 1 .. Len(a) + Len(b) :
             (a \o b)[j] = IF j <= Len(a) THEN a[j] ELSE b[j - Len(a)]
    BY <1>2, <1>3, ConcatProperties
  <2>2. Len(a) = i - 1 /\ Len(a) + Len(b) = Len(s) - 1
    BY <1>1, <1>2, <1>3
  <2>3. ASSUME NEW j \in 1 .. Len(s) - 1
        PROVE  (a \o b)[j] = IF j < i THEN a[j] ELSE b[j - i + 1]
    <3>1. j \in Int /\ j \in 1 .. Len(a) + Len(b)
      BY <2>2
    <3>2. j - Len(a) = j - i + 1 /\ (j <= Len(a) <=> j < i)
      BY <1>1, <2>2, <3>1
    <3>3. QED
      BY <2>1, <3>1, <3>2
  <2>4. QED
    BY <2>1, <2>2, <2>3
<1>6. ASSUME NEW j \in 1 .. Len(s) - 1 PROVE (a \o b)[j] = IF j < i THEN s[j] ELSE s[j + 1]
  <2>0. j \in Int
    OBVIOUS
  <2>1. CASE j < i
    BY <1>1, <1>2, <1>5, <2>1
  <2>2. CASE j >= i
    <3>1. j - i + 1 \in 1 .. Len(s) - i /\ (j - i + 1) + i = j + 1
      BY <1>1, <2>2
    <3>2. b[j - i + 1] = s[(j - i + 1) + i]
      BY <1>3, <3>1
    <3>3. QED
      BY <1>1, <1>5, <2>0, <2>2, <3>1, <3>2
  <2>3. j < i \/ j >= i
    BY <1>1, <2>0
  <2>4. QED
    BY <2>1, <2>2, <2>3
<1>7. QED
  BY <1>4, <1>5, <1>6

LEMMA IndexInIs ==
  ASSUME NEW s \in Seq(Nat), NEW m \in Range(s)
  PROVE  IndexIn(s, m) \in 1 .. Len(s) /\ s[IndexIn(s, m)] = m
<1>1. \E i \in DOMAIN s : s[i] = m
  BY DEF Range
<1>2. IndexIn(s, m) \in DOMAIN s /\ s[IndexIn(s, m)] = m
  BY <1>1 DEF IndexIn
<1>3. QED
  BY <1>2

\* A list that links no element twice.
IsList(s) == s \in Seq(Nat) /\ IsInjective(s)

LEMMA UnlinkIs ==
  ASSUME NEW s, IsList(s), NEW m
  PROVE  IsList(Unlink(s, m)) /\ Range(Unlink(s, m)) = Range(s) \ {m}
<1>1. s \in Seq(Nat) /\ \A i, j \in 1 .. Len(s) : s[i] = s[j] => i = j
  BY DEF IsList, IsInjective
<1>2. CASE m \notin Range(s)
  BY <1>2 DEF Unlink
<1>3. CASE m \in Range(s)
  <2> DEFINE i == IndexIn(s, m)  u == RemoveAt(s, i)
  <2>1. i \in 1 .. Len(s) /\ s[i] = m
    BY <1>1, <1>3, IndexInIs
  <2> HIDE DEF i
  <2>2. /\ u \in Seq(Nat) /\ Len(u) = Len(s) - 1
        /\ \A j \in 1 .. Len(s) - 1 : u[j] = IF j < i THEN s[j] ELSE s[j + 1]
    BY <1>1, <2>1, RemoveAtIs
  <2>3. Unlink(s, m) = u
    BY <1>3 DEF Unlink, i
  <2> HIDE DEF u
  <2>4. Len(s) \in Nat /\ DOMAIN u = 1 .. Len(s) - 1 /\ DOMAIN s = 1 .. Len(s)
    BY <1>1, <2>2
  <2>5. IsInjective(u)
    <3> SUFFICES ASSUME NEW j \in 1 .. Len(s) - 1, NEW k \in 1 .. Len(s) - 1, u[j] = u[k]
                 PROVE  j = k
      BY <2>4 DEF IsInjective
    <3>1. j \in Int /\ k \in Int /\ j \in 1 .. Len(s) /\ j + 1 \in 1 .. Len(s)
          /\ k \in 1 .. Len(s) /\ k + 1 \in 1 .. Len(s) /\ i \in Int
      BY <2>1, <2>4
    <3>2. u[j] = s[IF j < i THEN j ELSE j + 1] /\ u[k] = s[IF k < i THEN k ELSE k + 1]
      BY <2>2
    <3>3. (IF j < i THEN j ELSE j + 1) = (IF k < i THEN k ELSE k + 1)
      BY <1>1, <3>1, <3>2
    <3>4. QED
      BY <3>1, <3>3
  <2>6. ASSUME NEW x \in Range(u) PROVE x \in Range(s) \ {m}
    <3>1. PICK j \in 1 .. Len(s) - 1 : x = u[j]
      BY <2>4 DEF Range
    <3>2. j \in Int /\ i \in Int /\ (IF j < i THEN j ELSE j + 1) \in 1 .. Len(s)
          /\ (IF j < i THEN j ELSE j + 1) # i
      BY <2>1, <2>4
    <3>3. x = s[IF j < i THEN j ELSE j + 1]
      BY <2>2, <3>1
    <3>4. QED
      BY <1>1, <2>1, <2>4, <3>2, <3>3 DEF Range
  <2>7. ASSUME NEW x \in Range(s) \ {m} PROVE x \in Range(u)
    <3>1. PICK j \in 1 .. Len(s) : x = s[j]
      BY <2>4 DEF Range
    <3>2. j # i /\ j \in Int /\ i \in Int
      BY <2>1, <3>1
    <3>3. CASE j < i
      <4>1. j \in 1 .. Len(s) - 1
        BY <2>1, <2>4, <3>2, <3>3
      <4>2. u[j] = x
        BY <2>2, <3>1, <3>3, <4>1
      <4>3. QED
        BY <2>4, <4>1, <4>2 DEF Range
    <3>4. CASE j > i
      <4>1. j - 1 \in 1 .. Len(s) - 1 /\ ~ (j - 1 < i) /\ (j - 1) + 1 = j
        BY <2>1, <2>4, <3>2, <3>4
      <4>2. u[j - 1] = x
        BY <2>2, <3>1, <4>1
      <4>3. QED
        BY <2>4, <4>1, <4>2 DEF Range
    <3>5. QED
      BY <3>2, <3>3, <3>4
  <2>8. QED
    BY <2>2, <2>3, <2>5, <2>6, <2>7 DEF IsList
<1>4. QED
  BY <1>2, <1>3

LEMMA LinkFrontIs ==
  ASSUME NEW s, IsList(s), NEW m \in Nat
  PROVE  IsList(LinkFront(s, m)) /\ Range(LinkFront(s, m)) = Range(s) \cup {m}
<1>1. CASE m \in Range(s)
  BY <1>1 DEF LinkFront
<1>2. CASE m \notin Range(s)
  <2> DEFINE o == <<m>>  u == o \o s
  <2>1. /\ s \in Seq(Nat) /\ Len(s) \in Nat /\ DOMAIN s = 1 .. Len(s)
        /\ \A i, j \in 1 .. Len(s) : s[i] = s[j] => i = j
        /\ \A i \in 1 .. Len(s) : s[i] \in Range(s)
    BY DEF IsList, IsInjective, Range
  <2>2. o \in Seq(Nat) /\ Len(o) = 1 /\ o[1] = m
    OBVIOUS
  <2>3. LinkFront(s, m) = u
    BY <1>2 DEF LinkFront
  <2> HIDE DEF o
  <2>4. /\ u \in Seq(Nat) /\ Len(u) = Len(s) + 1
        /\ \A i \in 1 .. Len(s) + 1 : u[i] = IF i = 1 THEN m ELSE s[i - 1]
    <3>1. /\ u \in Seq(Nat) /\ Len(u) = Len(o) + Len(s)
          /\ \A i \in 1 .. Len(o) + Len(s) : u[i] = IF i <= Len(o) THEN o[i] ELSE s[i - Len(o)]
      BY <2>1, <2>2, ConcatProperties
    <3> HIDE DEF u
    <3>2. Len(o) + Len(s) = Len(s) + 1
      BY <2>1, <2>2
    <3>3. ASSUME NEW i \in 1 .. Len(s) + 1 PROVE u[i] = IF i = 1 THEN m ELSE s[i - 1]
      <4>1. u[i] = IF i <= Len(o) THEN o[i] ELSE s[i - Len(o)]
        BY <3>1, <3>2
      <4>2. i \in Int /\ (i <= Len(o) <=> i = 1) /\ i - Len(o) = i - 1
        BY <2>1, <2>2
      <4>3. QED
        BY <2>2, <4>1, <4>2
    <3>4. QED
      BY <3>1, <3>2, <3>3
  <2> HIDE DEF u
  <2>5. DOMAIN u = 1 .. Len(s) + 1
    BY <2>1, <2>4
  <2>6. IsInjective(u)
    <3> SUFFICES ASSUME NEW i \in 1 .. Len(s) + 1, NEW j \in 1 .. Len(s) + 1, u[i] = u[j]
                 PROVE  i = j
      BY <2>5 DEF IsInjective
    <3>1. i \in Int /\ j \in Int /\ (i # 1 => i - 1 \in 1 .. Len(s)) /\ (j # 1 => j - 1 \in 1 .. Len(s))
      BY <2>1
    <3>2. /\ i # 1 => u[i] = s[i - 1] /\ s[i - 1] \in Range(s)
          /\ j # 1 => u[j] = s[j - 1] /\ s[j - 1] \in Range(s)
          /\ i = 1 => u[i] = m
          /\ j = 1 => u[j] = m
      BY <2>1, <2>4, <3>1
    <3>3. CASE i = 1 \/ j = 1
      BY <1>2, <3>2, <3>3
    <3>4. CASE i # 1 /\ j # 1
      <4>1. i - 1 = j - 1
        BY <2>1, <3>1, <3>2, <3>4
      <4>2. QED
        BY <3>1, <4>1
    <3>5. QED
      BY <3>3, <3>4
  <2>7. \A x \in Range(u) : x \in Range(s) \cup {m}
    <3> SUFFICES ASSUME NEW i \in 1 .. Len(s) + 1 PROVE u[i] \in Range(s) \cup {m}
      BY <2>5 DEF Range
    <3>1. i \in Int /\ (i # 1 => i - 1 \in 1 .. Len(s))
      BY <2>1
    <3>2. QED
      BY <2>1, <2>4, <3>1
  <2>8. m \in Range(u)
    BY <2>1, <2>4, <2>5 DEF Range
  <2>9. \A x \in Range(s) : x \in Range(u)
    <3> SUFFICES ASSUME NEW i \in 1 .. Len(s) PROVE s[i] \in Range(u)
      BY <2>1 DEF Range
    <3>1. i + 1 \in 1 .. Len(s) + 1 /\ i + 1 # 1 /\ (i + 1) - 1 = i
      BY <2>1
    <3>2. u[i + 1] = s[i]
      BY <2>4, <3>1
    <3>3. QED
      BY <2>5, <3>1, <3>2 DEF Range
  <2>10. QED
    BY <2>3, <2>4, <2>6, <2>7, <2>8, <2>9 DEF IsList
<1>3. QED
  BY <1>1, <1>2

LEMMA LinkBackIs ==
  ASSUME NEW s, IsList(s), NEW m \in Nat
  PROVE  /\ IsList(LinkBack(s, m)) /\ Range(LinkBack(s, m)) = Range(s) \cup {m}
         /\ m \notin Range(s) =>
              /\ Len(LinkBack(s, m)) = Len(s) + 1
              /\ \A i \in 1 .. Len(s) + 1 :
                   LinkBack(s, m)[i] = IF i = Len(s) + 1 THEN m ELSE s[i]
<1>1. CASE m \in Range(s)
  BY <1>1 DEF LinkBack
<1>2. CASE m \notin Range(s)
  <2> DEFINE u == Append(s, m)
  <2>1. /\ s \in Seq(Nat) /\ Len(s) \in Nat /\ DOMAIN s = 1 .. Len(s)
        /\ \A i, j \in 1 .. Len(s) : s[i] = s[j] => i = j
        /\ \A i \in 1 .. Len(s) : s[i] \in Range(s)
    BY DEF IsList, IsInjective, Range
  <2>2. LinkBack(s, m) = u
    BY <1>2 DEF LinkBack
  <2>3. u \in Seq(Nat) /\ Len(u) = Len(s) + 1
    BY <2>1, AppendProperties
  <2>4. \A i \in 1 .. Len(s) + 1 : u[i] = IF i = Len(s) + 1 THEN m ELSE s[i]
    BY <2>1, AppendProperties
  <2> HIDE DEF u
  <2>5. DOMAIN u = 1 .. Len(s) + 1
    BY <2>1, <2>3
  <2>6. IsInjective(u)
    <3> SUFFICES ASSUME NEW i \in 1 .. Len(s) + 1, NEW j \in 1 .. Len(s) + 1, u[i] = u[j]
                 PROVE  i = j
      BY <2>5 DEF IsInjective
    <3>1. /\ i # Len(s) + 1 => i \in 1 .. Len(s)
          /\ j # Len(s) + 1 => j \in 1 .. Len(s)
      BY <2>1
    <3>2. /\ i # Len(s) + 1 => u[i] = s[i] /\ s[i] \in Range(s)
          /\ j # Len(s) + 1 => u[j] = s[j] /\ s[j] \in Range(s)
          /\ i = Len(s) + 1 => u[i] = m
          /\ j = Len(s) + 1 => u[j] = m
      BY <2>1, <2>4, <3>1
    <3>3. CASE i = Len(s) + 1 \/ j = Len(s) + 1
      BY <1>2, <3>2, <3>3
    <3>4. CASE i # Len(s) + 1 /\ j # Len(s) + 1
      BY <2>1, <3>1, <3>2, <3>4
    <3>5. QED
      BY <3>3, <3>4
  <2>7. \A x \in Range(u) : x \in Range(s) \cup {m}
    <3> SUFFICES ASSUME NEW i \in 1 .. Len(s) + 1 PROVE u[i] \in Range(s) \cup {m}
      BY <2>5 DEF Range
    <3>1. i # Len(s) + 1 => i \in 1 .. Len(s)
      BY <2>1
    <3>2. QED
      BY <2>1, <2>4, <3>1
  <2>8. m \in Range(u)
    <3>1. Len(s) + 1 \in 1 .. Len(s) + 1
      BY <2>1
    <3>2. QED
      BY <2>4, <2>5, <3>1 DEF Range
  <2>9. \A x \in Range(s) : x \in Range(u)
    <3> SUFFICES ASSUME NEW i \in 1 .. Len(s) PROVE s[i] \in Range(u)
      BY <2>1 DEF Range
    <3>1. i \in 1 .. Len(s) + 1 /\ i # Len(s) + 1
      BY <2>1
    <3>2. QED
      BY <2>4, <2>5, <3>1 DEF Range
  <2>10. QED
    BY <2>2, <2>3, <2>4, <2>6, <2>7, <2>8, <2>9 DEF IsList
<1>3. QED
  BY <1>1, <1>2

\* An element linked right behind another one.
LEMMA LinkAfterIs ==
  ASSUME NEW s, IsList(s), NEW i \in 1 .. Len(s), NEW e \in Nat, e \notin Range(s)
  PROVE  LET u == LinkAfter(s, e, s[i])
         IN  /\ IsList(u) /\ Range(u) = Range(s) \cup {e} /\ Len(u) = Len(s) + 1
             /\ \A j \in 1 .. Len(s) + 1 :
                  u[j] = IF j <= i THEN s[j] ELSE IF j = i + 1 THEN e ELSE s[j - 1]
<1> DEFINE u == LinkAfter(s, e, s[i])
<1>1. /\ s \in Seq(Nat) /\ Len(s) \in Nat /\ DOMAIN s = 1 .. Len(s)
      /\ \A j, k \in 1 .. Len(s) : s[j] = s[k] => j = k
      /\ \A j \in 1 .. Len(s) : s[j] \in Range(s)
  BY DEF IsList, IsInjective, Range
<1>2. IndexIn(s, s[i]) = i
  BY <1>1, IndexInIs
<1>3. u = InsertAt(s, i + 1, e)
  BY <1>2 DEF LinkAfter
<1>4. i \in Nat /\ i + 1 \in 1 .. Len(s) + 1
  BY <1>1
<1> HIDE DEF u
<1>5. /\ u \in Seq(Nat) /\ Len(u) = Len(s) + 1
      /\ \A j \in 1 .. Len(s) + 1 :
           u[j] = IF j < i + 1 THEN s[j] ELSE IF j = i + 1 THEN e ELSE s[j - 1]
  <2>1. s \in Seq(Nat)
    BY <1>1
  <2>2. ASSUME NEW k \in 1 .. Len(s) + 1
        PROVE  /\ InsertAt(s, k, e) \in Seq(Nat) /\ Len(InsertAt(s, k, e)) = Len(s) + 1
               /\ \A j \in 1 .. Len(s) + 1 :
                    InsertAt(s, k, e)[j] = IF j < k THEN s[j] ELSE IF j = k THEN e ELSE s[j - 1]
    BY <2>1, InsertIs
  <2>3. QED
    BY <1>3, <1>4, <2>2
<1>6. DOMAIN u = 1 .. Len(s) + 1
  BY <1>1, <1>5
<1>7. \A j \in 1 .. Len(s) + 1 :
        u[j] = IF j <= i THEN s[j] ELSE IF j = i + 1 THEN e ELSE s[j - 1]
  BY <1>4, <1>5
<1>8. ASSUME NEW j \in 1 .. Len(s) + 1
      PROVE  /\ j \in Int
             /\ j <= i => j \in 1 .. Len(s)
             /\ j > i + 1 => j - 1 \in 1 .. Len(s)
  BY <1>1, <1>4
<1>9. IsInjective(u)
  <2> SUFFICES ASSUME NEW j \in 1 .. Len(s) + 1, NEW k \in 1 .. Len(s) + 1, u[j] = u[k]
               PROVE  j = k
    BY <1>6 DEF IsInjective
  <2>1. CASE j = i + 1 \/ k = i + 1
    BY <1>1, <1>4, <1>7, <1>8, <2>1
  <2>2. CASE j # i + 1 /\ k # i + 1
    <3>1. u[j] = s[IF j <= i THEN j ELSE j - 1] /\ u[k] = s[IF k <= i THEN k ELSE k - 1]
      BY <1>7, <2>2
    <3>2. /\ (IF j <= i THEN j ELSE j - 1) \in 1 .. Len(s)
          /\ (IF k <= i THEN k ELSE k - 1) \in 1 .. Len(s)
      BY <1>4, <1>8, <2>2
    <3>3. (IF j <= i THEN j ELSE j - 1) = (IF k <= i THEN k ELSE k - 1)
      BY <1>1, <3>1, <3>2
    <3>4. QED
      BY <1>4, <1>8, <2>2, <3>3
  <2>3. QED
    BY <2>1, <2>2
<1>10. \A x \in Range(u) : x \in Range(s) \cup {e}
  <2> SUFFICES ASSUME NEW j \in 1 .. Len(s) + 1 PROVE u[j] \in Range(s) \cup {e}
    BY <1>6 DEF Range
  <2>1. QED
    BY <1>1, <1>4, <1>7, <1>8
<1>11. e \in Range(u)
  <2>1. i + 1 \in 1 .. Len(s) + 1 /\ ~ (i + 1 <= i)
    BY <1>4
  <2>2. u[i + 1] = e
    BY <1>7, <2>1
  <2>3. QED
    BY <1>6, <2>1, <2>2 DEF Range
<1>12. \A x \in Range(s) : x \in Range(u)
  <2> SUFFICES ASSUME NEW j \in 1 .. Len(s) PROVE s[j] \in Range(u)
    BY <1>1 DEF Range
  <2>1. j \in Int /\ j \in 1 .. Len(s) + 1 /\ j + 1 \in 1 .. Len(s) + 1 /\ (j + 1) - 1 = j
    BY <1>1
  <2>2. CASE j <= i
    BY <1>6, <1>7, <2>1, <2>2 DEF Range
  <2>3. CASE j > i
    <3>1. u[j + 1] = s[j]
      BY <1>4, <1>7, <2>1, <2>3
    <3>2. QED
      BY <1>6, <2>1, <3>1 DEF Range
  <2>4. QED
    BY <1>4, <2>1, <2>2, <2>3
<1>13. QED
  BY <1>5, <1>7, <1>9, <1>10, <1>11, <1>12 DEF IsList, u

-----------------------------------------------------------------------------
(* The lay-out: headers at the addresses D, the ends E of their spans, the *)
(* roots R among them, the chain c, and the arenas g obtained.             *)

\* Position i of the chain: what comes next begins where this span ends, or
\* is the root of another arena and this span ends its own.
Follows(D, E, R, c, g, i) ==
  /\ i = 1 => c[i] \in R
  /\ i = Len(c) \/ c[i + 1] \in R => \E a \in g : a[1] \in D /\ E[c[i]] = a[1] + a[2]
  /\ i # Len(c) /\ c[i + 1] \notin R => c[i + 1] = E[c[i]]

Ordered(D, E) ==
  /\ D \subseteq Nat /\ E \in [D -> Nat]
  /\ \A x \in D : x < E[x]
  /\ \A x, y \in D : x < y => E[x] <= y

Housed(D, E, g) ==
  \A x \in D : \E a \in g : a[1] \in D /\ a[1] <= x /\ E[x] <= a[1] + a[2]

Rooted(D, R, g) == R \subseteq D /\ \A x \in D : x \in R <=> \E a \in g : a[1] = x

Chained(D, E, R, c, g) ==
  /\ IsList(c) /\ Range(c) = D
  /\ \A i \in 1 .. Len(c) : Follows(D, E, R, c, g, i)

Tiling(D, E, R, c, g) ==
  Ordered(D, E) /\ Housed(D, E, g) /\ Rooted(D, R, g) /\ Chained(D, E, R, c, g)

LEMMA ArenaNumbers ==
  ASSUME NEW g \in SUBSET Arenas
  PROVE  /\ \A a \in g : a[1] \in Nat /\ a[2] \in Nat
         /\ \A a, b \in g : a = b \/ a[1] + a[2] <= b[1] \/ b[1] + b[2] <= a[1]
<1>1. \A a \in Arenas : a[1] \in Nat /\ a[2] \in Nat
  BY ArenaAssumption
<1>2. QED
  BY <1>1, ArenaAssumption

LEMMA ListFacts ==
  ASSUME NEW c, IsList(c)
  PROVE  /\ c \in Seq(Nat) /\ Len(c) \in Nat /\ DOMAIN c = 1 .. Len(c)
         /\ \A j, k \in 1 .. Len(c) : c[j] = c[k] => j = k
         /\ \A j \in 1 .. Len(c) : c[j] \in Range(c)
         /\ \A x \in Range(c) : \E j \in 1 .. Len(c) : c[j] = x
<1>1. c \in Seq(Nat) /\ IsInjective(c)
  BY DEF IsList
<1>2. DOMAIN c = 1 .. Len(c) /\ Len(c) \in Nat
  BY <1>1
<1>3. QED
  BY <1>1, <1>2 DEF IsInjective, Range

\* The end of m's span becomes a header of its own.
LEMMA TileSplit ==
  ASSUME NEW D, NEW E, NEW R, NEW c, NEW g \in SUBSET Arenas, Tiling(D, E, R, c, g),
         NEW m \in D, NEW mm \in Nat, m < mm, mm < E[m],
         NEW F, F = [x \in D \cup {mm} |-> IF x = m THEN mm ELSE IF x = mm THEN E[m] ELSE E[x]]
  PROVE  /\ mm \notin D
         /\ Tiling(D \cup {mm}, F, R, LinkAfter(c, mm, m), g)
<1> DEFINE H == D \cup {mm}  u == LinkAfter(c, mm, m)
<1>1. D \subseteq Nat /\ E \in [D -> Nat] /\ (\A x \in D : x < E[x]) /\ \A x, y \in D : x < y => E[x] <= y
  BY DEF Tiling, Ordered
<1>2. mm \notin D /\ m \in Nat /\ E[m] \in Nat
  <2>1. m \in Nat /\ E[m] \in Nat
    BY <1>1
  <2>2. QED
    BY <1>1, <2>1
<1>3. /\ F \in [H -> Nat] /\ F[m] = mm /\ F[mm] = E[m]
      /\ \A x \in D : x # m => F[x] = E[x]
  BY <1>1, <1>2
<1>4. Ordered(H, F)
  <2>1. H \subseteq Nat
    BY <1>1
  <2>2. \A x \in H : x < F[x]
    BY <1>1, <1>2, <1>3
  <2>3. ASSUME NEW x \in H, NEW y \in H, x < y PROVE F[x] <= y
    <3>1. CASE x = m
      <4>1. y = mm \/ (y \in D /\ E[m] <= y /\ y \in Nat)
        BY <1>1, <2>3, <3>1
      <4>2. QED
        BY <1>2, <1>3, <3>1, <4>1
    <3>2. CASE x = mm
      <4>1. y \in D /\ y \in Nat /\ m < y
        BY <1>1, <1>2, <2>3, <3>2
      <4>2. QED
        BY <1>1, <1>3, <3>2, <4>1
    <3>3. CASE x # m /\ x # mm
      <4>1. x \in D /\ F[x] = E[x] /\ x \in Nat /\ E[x] \in Nat
        BY <1>1, <1>3, <3>3
      <4>2. CASE y = mm
        <5>1. ~ (m < x)
          BY <1>1, <1>2, <2>3, <4>1, <4>2
        <5>2. x < m
          BY <1>2, <3>3, <4>1, <5>1
        <5>3. E[x] <= m
          BY <1>1, <4>1, <5>2
        <5>4. QED
          BY <1>2, <4>1, <4>2, <5>3
      <4>3. CASE y # mm
        BY <1>1, <2>3, <4>1, <4>3
      <4>4. QED
        BY <4>2, <4>3
    <3>4. QED
      BY <3>1, <3>2, <3>3
  <2>4. QED
    BY <1>3, <2>1, <2>2, <2>3 DEF Ordered
<1> HIDE DEF u
<1>5. Housed(H, F, g)
  <2> SUFFICES ASSUME NEW x \in H PROVE \E a \in g : a[1] \in H /\ a[1] <= x /\ F[x] <= a[1] + a[2]
    BY DEF Housed
  <2>1. CASE x \notin {m, mm}
    BY <1>3, <2>1 DEF Tiling, Housed
  <2>2. CASE x \in {m, mm}
    <3>1. PICK a \in g : a[1] \in D /\ a[1] <= m /\ E[m] <= a[1] + a[2]
      BY DEF Tiling, Housed
    <3>2. a[1] \in Nat /\ a[2] \in Nat
      BY ArenaNumbers
    <3>3. a[1] <= x /\ F[x] <= a[1] + a[2]
      BY <1>2, <1>3, <2>2, <3>1, <3>2
    <3>4. QED
      BY <3>1, <3>3
  <2>3. QED
    BY <2>1, <2>2
<1>6. Rooted(H, R, g)
  <2>1. mm \notin R
    BY <1>2 DEF Tiling, Rooted
  <2>2. ASSUME NEW a \in g, a[1] = mm PROVE FALSE
    <3>1. PICK b \in g : b[1] \in D /\ b[1] <= m /\ E[m] <= b[1] + b[2]
      BY DEF Tiling, Housed
    <3>2. a[1] \in Nat /\ a[2] \in Nat /\ b[1] \in Nat /\ b[2] \in Nat
      BY ArenaNumbers
    <3>3. a = b \/ a[1] + a[2] <= b[1] \/ b[1] + b[2] <= a[1]
      BY ArenaNumbers
    <3>4. QED
      BY <1>2, <2>2, <3>1, <3>2, <3>3
  <2>3. QED
    BY <2>1, <2>2 DEF Tiling, Rooted
<1>7. IsList(c) /\ Range(c) = D /\ \A j \in 1 .. Len(c) : Follows(D, E, R, c, g, j)
  BY DEF Tiling, Chained
<1>8. PICK i \in 1 .. Len(c) : c[i] = m
  BY <1>7, ListFacts
<1>9. /\ IsList(u) /\ Range(u) = H /\ Len(u) = Len(c) + 1
      /\ \A j \in 1 .. Len(c) + 1 :
           u[j] = IF j <= i THEN c[j] ELSE IF j = i + 1 THEN mm ELSE c[j - 1]
  <2>1. mm \notin Range(c)
    BY <1>2, <1>7
  <2>2. LET w == LinkAfter(c, mm, c[i])
        IN  /\ IsList(w) /\ Range(w) = Range(c) \cup {mm} /\ Len(w) = Len(c) + 1
            /\ \A j \in 1 .. Len(c) + 1 :
                 w[j] = IF j <= i THEN c[j] ELSE IF j = i + 1 THEN mm ELSE c[j - 1]
    BY <1>7, <2>1, LinkAfterIs
  <2>3. QED
    BY <1>7, <1>8, <2>2 DEF u
<1>10. /\ c \in Seq(Nat) /\ Len(c) \in Nat /\ i \in Nat /\ i >= 1 /\ i <= Len(c)
       /\ \A j, k \in 1 .. Len(c) : c[j] = c[k] => j = k
       /\ \A j \in 1 .. Len(c) : c[j] \in D
  BY <1>7, ListFacts
<1>11. ASSUME NEW j \in 1 .. Len(u) PROVE Follows(H, F, R, u, g, j)
  <2>0. j \in Int /\ 1 <= j /\ j <= Len(c) + 1 /\ mm \notin R
    BY <1>9, <1>10, <1>2 DEF Tiling, Rooted
  <2>1. CASE j < i
    <3>1. /\ j \in 1 .. Len(c) /\ j + 1 \in 1 .. Len(c) + 1 /\ j \in 1 .. Len(c) + 1
          /\ j + 1 <= i /\ j # Len(c) /\ j # Len(u) /\ j # i
      BY <1>9, <1>10, <2>0, <2>1
    <3>2. u[j] = c[j] /\ u[j + 1] = c[j + 1]
      BY <1>9, <2>1, <3>1
    <3>3. F[u[j]] = E[c[j]]
      BY <1>3, <1>8, <1>10, <3>1, <3>2
    <3>4. Follows(D, E, R, c, g, j)
      BY <1>7, <3>1
    <3>5. QED
      BY <3>1, <3>2, <3>3, <3>4 DEF Follows
  <2>2. CASE j = i
    <3>1. i \in 1 .. Len(c) + 1 /\ i + 1 \in 1 .. Len(c) + 1 /\ i # Len(u) /\ ~ (i + 1 <= i)
      BY <1>9, <1>10
    <3>2. u[i] = m /\ u[i + 1] = mm
      BY <1>8, <1>9, <3>1
    <3>3. i = 1 => m \in R
      BY <1>7, <1>8 DEF Follows
    <3>4. QED
      BY <1>3, <2>0, <2>2, <3>1, <3>2, <3>3 DEF Follows
  <2>3. CASE j = i + 1
    <3>1. j \in 1 .. Len(c) + 1 /\ ~ (j <= i) /\ j # 1 /\ (j = Len(u) <=> i = Len(c))
      BY <1>9, <1>10, <2>3
    <3>2. u[j] = mm /\ F[u[j]] = E[c[i]]
      BY <1>3, <1>8, <1>9, <2>3, <3>1
    <3>3. i # Len(c) => u[j + 1] = c[i + 1]
      <4> HAVE i # Len(c)
      <4>1. j + 1 \in 1 .. Len(c) + 1 /\ ~ (j + 1 <= i) /\ j + 1 # i + 1 /\ (j + 1) - 1 = i + 1
        BY <1>10, <2>3
      <4>2. QED
        BY <1>9, <4>1
    <3>4. Follows(D, E, R, c, g, i)
      BY <1>7
    <3>5. QED
      BY <3>1, <3>2, <3>3, <3>4 DEF Follows
  <2>4. CASE j > i + 1
    <3>1. /\ j \in 1 .. Len(c) + 1 /\ ~ (j <= i) /\ j # i + 1 /\ j # 1 /\ j - 1 \in 1 .. Len(c)
          /\ j - 1 # i /\ (j = Len(u) <=> j - 1 = Len(c)) /\ (j - 1) + 1 = j
      BY <1>9, <1>10, <2>0, <2>4
    <3>2. u[j] = c[j - 1] /\ F[u[j]] = E[c[j - 1]]
      <4>1. u[j] = c[j - 1]
        BY <1>9, <3>1
      <4>2. c[j - 1] # m /\ c[j - 1] \in D
        <5>1. \A k \in 1 .. Len(c) : k # i => c[k] # m /\ c[k] \in D
          BY <1>8, <1>10
        <5>2. j - 1 \in 1 .. Len(c) /\ j - 1 # i
          BY <3>1
        <5>3. QED
          BY <5>1, <5>2, Zenon
      <4>3. QED
        BY <1>3, <4>1, <4>2
    <3>3. j # Len(u) => u[j + 1] = c[j]
      <4> HAVE j # Len(u)
      <4>0. i \in Nat /\ Len(c) \in Nat /\ Len(u) = Len(c) + 1
        BY <1>9, <1>10
      <4>1. j + 1 \in 1 .. Len(c) + 1 /\ ~ (j + 1 <= i) /\ j + 1 # i + 1 /\ (j + 1) - 1 = j
        BY <2>0, <2>4, <4>0
      <4>2. QED
        BY <1>9, <4>1
    <3>4. Follows(D, E, R, c, g, j - 1)
      BY <1>7, <3>1
    <3>5. QED
      BY <3>1, <3>2, <3>3, <3>4 DEF Follows
  <2>5. QED
    BY <1>10, <2>0, <2>1, <2>2, <2>3, <2>4
<1>12. QED
  BY <1>2, <1>4, <1>5, <1>6, <1>9, <1>11 DEF Tiling, Chained, u

\* A header that is no root is absorbed by the one before it.
LEMMA TileMerge ==
  ASSUME NEW D, NEW E, NEW R, NEW c, NEW g \in SUBSET Arenas, Tiling(D, E, R, c, g),
         NEW m \in D, m \notin R,
         NEW p, p = c[IndexIn(c, m) - 1],
         NEW F, F = [x \in D \ {m} |-> IF x = p THEN E[m] ELSE E[x]]
  PROVE  /\ p \in D /\ p < m /\ E[p] = m
         /\ Tiling(D \ {m}, F, R, Unlink(c, m), g)
<1> DEFINE H == D \ {m}  u == Unlink(c, m)
<1>1. /\ D \subseteq Nat /\ E \in [D -> Nat] /\ (\A x \in D : x < E[x])
      /\ \A x, y \in D : x < y => E[x] <= y
  BY DEF Tiling, Ordered
<1>2. IsList(c) /\ Range(c) = D /\ \A j \in 1 .. Len(c) : Follows(D, E, R, c, g, j)
  BY DEF Tiling, Chained
<1>3. PICK i \in 1 .. Len(c) : i = IndexIn(c, m) /\ c[i] = m
  BY <1>2, ListFacts, IndexInIs
<1>4. /\ c \in Seq(Nat) /\ Len(c) \in Nat /\ i \in Nat /\ i >= 1 /\ i <= Len(c)
      /\ \A j, k \in 1 .. Len(c) : c[j] = c[k] => j = k
      /\ \A j \in 1 .. Len(c) : c[j] \in D
  BY <1>2, ListFacts
<1>5. i # 1
  BY <1>2, <1>3 DEF Follows
<1>6. i - 1 \in 1 .. Len(c) /\ (i - 1) + 1 = i /\ i - 1 # Len(c) /\ p = c[i - 1]
  BY <1>3, <1>4, <1>5
<1>7. Follows(D, E, R, c, g, i - 1)
  BY <1>2, <1>6
<1>8. p \in D /\ E[p] = m /\ p \in Nat /\ m \in Nat /\ E[m] \in Nat /\ p < m /\ m < E[m]
  <2>1. p \in D
    BY <1>4, <1>6
  <2>2. E[p] = m
    BY <1>3, <1>6, <1>7 DEF Follows
  <2>3. QED
    BY <1>1, <2>1, <2>2
<1>9. F \in [H -> Nat] /\ F[p] = E[m] /\ p \in H /\ \A x \in H : x # p => F[x] = E[x]
  BY <1>1, <1>8
<1>10. Ordered(H, F)
  <2>1. \A x \in H : x < F[x]
    BY <1>1, <1>8, <1>9
  <2>2. ASSUME NEW x \in H, NEW y \in H, x < y PROVE F[x] <= y
    <3>1. CASE x = p
      <4>1. y \in D /\ y \in Nat /\ m <= y /\ y # m
        BY <1>1, <1>8, <2>2, <3>1
      <4>2. E[m] <= y
        BY <1>1, <1>8, <4>1
      <4>3. QED
        BY <1>9, <3>1, <4>2
    <3>2. CASE x # p
      BY <1>1, <1>9, <2>2, <3>2
    <3>3. QED
      BY <3>1, <3>2
  <2>3. QED
    BY <1>1, <1>9, <2>1, <2>2 DEF Ordered
<1> HIDE DEF u
<1>11. \A a \in g : a[1] # m
  BY DEF Tiling, Rooted
<1>12. Housed(H, F, g)
  <2> SUFFICES ASSUME NEW x \in H PROVE \E a \in g : a[1] \in H /\ a[1] <= x /\ F[x] <= a[1] + a[2]
    BY DEF Housed
  <2>1. CASE x # p
    <3>1. PICK a \in g : a[1] \in D /\ a[1] <= x /\ E[x] <= a[1] + a[2]
      BY DEF Tiling, Housed
    <3>2. QED
      BY <1>9, <1>11, <2>1, <3>1
  <2>2. CASE x = p
    <3>1. PICK a \in g : a[1] \in D /\ a[1] <= m /\ E[m] <= a[1] + a[2]
      BY DEF Tiling, Housed
    <3>2. a[1] \in Nat /\ a[2] \in Nat /\ a[1] # m
      BY <1>11, ArenaNumbers
    <3>3. ASSUME p < a[1] PROVE FALSE
      BY <1>1, <1>8, <3>1, <3>2, <3>3
    <3>4. a[1] <= p
      BY <1>8, <3>2, <3>3
    <3>5. QED
      BY <1>9, <2>2, <3>1, <3>2, <3>4
  <2>3. QED
    BY <2>1, <2>2
<1>13. Rooted(H, R, g)
  BY DEF Tiling, Rooted
<1>14. IsList(u) /\ Range(u) = H
  BY <1>2, UnlinkIs DEF u
<1>15. /\ Len(u) = Len(c) - 1
       /\ \A j \in 1 .. Len(c) - 1 : u[j] = IF j < i THEN c[j] ELSE c[j + 1]
  <2>1. u = RemoveAt(c, i)
    BY <1>2, <1>3 DEF u, Unlink
  <2>2. QED
    BY <1>4, <2>1, RemoveAtIs
<1>16. ASSUME NEW j \in 1 .. Len(u) PROVE Follows(H, F, R, u, g, j)
  <2>0. /\ j \in Int /\ 1 <= j /\ j <= Len(c) - 1 /\ j \in 1 .. Len(c) - 1
        /\ j \in 1 .. Len(c) /\ j + 1 \in 1 .. Len(c)
    BY <1>4, <1>15
  <2>1. ASSUME NEW a \in g, a[1] \in D PROVE a[1] \in H
    BY <1>11, <2>1
  <2>2. ASSUME NEW k \in 1 .. Len(c), k # i, k # i - 1 PROVE F[c[k]] = E[c[k]]
    <3>1. c[k] \in D /\ c[k] # m /\ c[k] # p
      BY <1>3, <1>4, <1>6, <2>2
    <3>2. QED
      BY <1>9, <3>1
  <2>3. CASE j < i - 1
    <3>1. /\ j + 1 \in 1 .. Len(c) - 1 /\ j < i /\ j + 1 < i /\ j # Len(c) /\ j # Len(u)
          /\ j # i /\ j # i - 1
      BY <1>4, <1>15, <2>0, <2>3
    <3>2. u[j] = c[j] /\ u[j + 1] = c[j + 1] /\ F[u[j]] = E[c[j]]
      BY <1>15, <2>0, <2>2, <3>1
    <3>3. Follows(D, E, R, c, g, j)
      BY <1>2, <2>0
    <3>4. QED
      BY <2>1, <3>1, <3>2, <3>3 DEF Follows
  <2>4. CASE j = i - 1
    <3>1. j < i /\ (j = Len(u) <=> i = Len(c))
      BY <1>4, <1>15, <2>0, <2>4
    <3>2. u[j] = p /\ F[u[j]] = E[m]
      BY <1>6, <1>9, <1>15, <2>0, <2>4, <3>1
    <3>3. i # Len(c) => u[j + 1] = c[i + 1]
      <4> HAVE i # Len(c)
      <4>1. j + 1 \in 1 .. Len(c) - 1 /\ ~ (j + 1 < i) /\ (j + 1) + 1 = i + 1
        BY <1>4, <2>4
      <4>2. QED
        BY <1>15, <4>1
    <3>4. Follows(D, E, R, c, g, i)
      BY <1>2
    <3>5. j = 1 => u[j] \in R
      BY <1>6, <1>7, <2>4, <3>2 DEF Follows
    <3>6. QED
      BY <1>3, <2>1, <3>1, <3>2, <3>3, <3>4, <3>5 DEF Follows
  <2>5. CASE j >= i
    <3>0. i \in Int /\ i > 1 /\ Len(c) \in Int /\ Len(u) = Len(c) - 1
      BY <1>4, <1>5, <1>15
    <3>1. ~ (j < i) /\ j # 1 /\ (j = Len(u) <=> j + 1 = Len(c)) /\ j + 1 # i /\ j + 1 # i - 1
      BY <2>0, <2>5, <3>0
    <3>2. u[j] = c[j + 1] /\ F[u[j]] = E[c[j + 1]]
      BY <1>15, <2>0, <2>2, <3>1
    <3>3. j # Len(u) => u[j + 1] = c[(j + 1) + 1]
      <4> HAVE j # Len(u)
      <4>1. j + 1 \in 1 .. Len(c) - 1 /\ ~ (j + 1 < i)
        BY <1>4, <1>15, <2>0, <2>5
      <4>2. QED
        BY <1>15, <4>1
    <3>4. Follows(D, E, R, c, g, j + 1)
      BY <1>2, <2>0
    <3>5. QED
      BY <2>1, <3>1, <3>2, <3>3, <3>4 DEF Follows
  <2>6. QED
    BY <1>4, <2>0, <2>3, <2>4, <2>5
<1>17. QED
  BY <1>8, <1>10, <1>12, <1>13, <1>14, <1>16 DEF Tiling, Chained, u

\* Memory that was just obtained begins at no header and leaves the lay-out
\* as it is.
LEMMA TileObtain ==
  ASSUME NEW D, NEW E, NEW R, NEW c, NEW g \in SUBSET Arenas, Tiling(D, E, R, c, g),
         NEW a \in Arenas, a \notin g, a[2] > 0
  PROVE  a[1] \notin D /\ Tiling(D, E, R, c, g \cup {a})
<1>1. /\ g \cup {a} \in SUBSET Arenas /\ a \in g \cup {a}
      /\ D \subseteq Nat /\ E \in [D -> Nat] /\ (\A x \in D : x < E[x])
  BY DEF Tiling, Ordered
<1>2. ASSUME NEW x \in D PROVE a[1] # x
  <2>1. PICK b \in g : b[1] \in D /\ b[1] <= x /\ E[x] <= b[1] + b[2]
    BY DEF Tiling, Housed
  <2>2. b # a /\ b \in g \cup {a}
    BY <2>1
  <2>3. a[1] \in Nat /\ a[2] \in Nat /\ b[1] \in Nat /\ b[2] \in Nat
    BY <1>1, <2>2, ArenaNumbers
  <2>4. a[1] + a[2] <= b[1] \/ b[1] + b[2] <= a[1]
    BY <1>1, <2>2, ArenaNumbers
  <2>5. x \in Nat /\ E[x] \in Nat /\ x < E[x]
    BY <1>1
  <2>6. QED
    BY <2>1, <2>3, <2>4, <2>5
<1>3. Housed(D, E, g \cup {a})
  BY DEF Tiling, Housed
<1>4. Rooted(D, R, g \cup {a})
  BY <1>2 DEF Tiling, Rooted
<1>5. \A i \in 1 .. Len(c) : Follows(D, E, R, c, g \cup {a}, i)
  BY DEF Tiling, Chained, Follows
<1>6. QED
  BY <1>2, <1>3, <1>4, <1>5 DEF Tiling, Chained

\* An arena is linked: its root is last in the chain and has all of it.
LEMMA TileArena ==
  ASSUME NEW D, NEW E, NEW R, NEW c, NEW g \in SUBSET Arenas, Tiling(D, E, R, c, g),
         NEW a \in g, a[1] \notin D, a[2] > 0,
         NEW F, F = [x \in D \cup {a[1]} |-> IF x = a[1] THEN a[1] + a[2] ELSE E[x]]
  PROVE  Tiling(D \cup {a[1]}, F, R \cup {a[1]}, LinkBack(c, a[1]), g)
<1> DEFINE r == a[1]  t == a[1] + a[2]  H == D \cup {r}  u == LinkBack(c, r)
<1>1. /\ D \subseteq Nat /\ E \in [D -> Nat] /\ (\A x \in D : x < E[x])
      /\ \A x, y \in D : x < y => E[x] <= y
  BY DEF Tiling, Ordered
<1>2. r \in Nat /\ t \in Nat /\ r < t /\ r \notin D
  <2>1. a[1] \in Nat /\ a[2] \in Nat
    BY ArenaNumbers
  <2>2. QED
    BY <2>1
<1>3. F \in [H -> Nat] /\ F[r] = t /\ \A x \in D : F[x] = E[x]
  BY <1>1, <1>2
<1>4. ASSUME NEW x \in D PROVE E[x] <= r \/ t <= x
  <2>1. PICK b \in g : b[1] \in D /\ b[1] <= x /\ E[x] <= b[1] + b[2]
    BY DEF Tiling, Housed
  <2>2. b # a
    BY <2>1
  <2>3. a[1] \in Nat /\ a[2] \in Nat /\ b[1] \in Nat /\ b[2] \in Nat
    BY ArenaNumbers
  <2>4. a[1] + a[2] <= b[1] \/ b[1] + b[2] <= a[1]
    BY <2>2, ArenaNumbers
  <2>5. x \in Nat /\ E[x] \in Nat
    BY <1>1
  <2>6. QED
    BY <2>1, <2>3, <2>4, <2>5
<1>5. \E b \in g : b[1] = r /\ t = b[1] + b[2]
  OBVIOUS
<1> HIDE DEF t
<1> HIDE DEF r, u
<1>6. Ordered(H, F)
  <2>1. H \subseteq Nat /\ \A x \in H : x < F[x]
    BY <1>1, <1>2, <1>3
  <2>2. ASSUME NEW x \in H, NEW y \in H, x < y PROVE F[x] <= y
    <3>1. CASE x \in D /\ y \in D
      BY <1>1, <1>3, <2>2, <3>1
    <3>2. CASE x \in D /\ y = r
      <4>1. x \in Nat /\ (E[x] <= r \/ t <= x)
        BY <1>1, <1>4, <3>2
      <4>2. QED
        BY <1>2, <1>3, <2>2, <3>2, <4>1
    <3>3. CASE x = r /\ y \in D
      <4>1. y \in Nat /\ E[y] \in Nat /\ y < E[y] /\ (E[y] <= r \/ t <= y)
        BY <1>1, <1>4, <3>3
      <4>2. QED
        BY <1>2, <1>3, <2>2, <3>3, <4>1
    <3>4. CASE x = r /\ y = r
      BY <1>2, <2>2, <3>4
    <3>5. QED
      BY <3>1, <3>2, <3>3, <3>4
  <2>3. QED
    BY <1>3, <2>1, <2>2 DEF Ordered
<1>7. Housed(H, F, g)
  <2> SUFFICES ASSUME NEW x \in H PROVE \E b \in g : b[1] \in H /\ b[1] <= x /\ F[x] <= b[1] + b[2]
    BY DEF Housed
  <2>1. CASE x \in D
    BY <1>3, <2>1 DEF Tiling, Housed
  <2>2. CASE x = r
    BY <1>2, <1>3, <1>5, <2>2
  <2>3. QED
    BY <2>1, <2>2
<1>8. Rooted(H, R \cup {r}, g)
  <2>1. R \subseteq D /\ \A x \in D : x \in R <=> \E b \in g : b[1] = x
    BY DEF Tiling, Rooted
  <2>2. QED
    BY <1>2, <1>5, <2>1 DEF Rooted
<1>9. IsList(c) /\ Range(c) = D /\ \A j \in 1 .. Len(c) : Follows(D, E, R, c, g, j)
  BY DEF Tiling, Chained
<1>10. /\ IsList(u) /\ Range(u) = H /\ Len(u) = Len(c) + 1
       /\ \A i \in 1 .. Len(c) + 1 : u[i] = IF i = Len(c) + 1 THEN r ELSE c[i]
  BY <1>2, <1>9, LinkBackIs DEF u
<1>11. Len(c) \in Nat /\ \A j \in 1 .. Len(c) : c[j] \in D
  BY <1>9, ListFacts
<1>12. ASSUME NEW j \in 1 .. Len(u) PROVE Follows(H, F, R \cup {r}, u, g, j)
  <2>1. CASE j = Len(c) + 1
    <3>1. j = Len(u) /\ u[j] = r
      BY <1>10, <1>11, <2>1
    <3>2. r \in H /\ F[u[j]] = t
      BY <1>3, <3>1
    <3>3. QED
      BY <1>5, <3>1, <3>2 DEF Follows
  <2>2. CASE j = Len(c)
    <3>1. j \in 1 .. Len(c) /\ j \in 1 .. Len(c) + 1 /\ j + 1 \in 1 .. Len(c) + 1 /\ j # Len(c) + 1
      BY <1>10, <1>11, <2>2
    <3>2. u[j] = c[j] /\ u[j + 1] = r
      BY <1>10, <1>11, <2>2, <3>1
    <3>3. F[u[j]] = E[c[j]]
      BY <1>3, <1>11, <3>1, <3>2
    <3>4. Follows(D, E, R, c, g, j)
      BY <1>9, <3>1
    <3>5. QED
      BY <2>2, <3>2, <3>3, <3>4 DEF Follows
  <2>3. CASE j # Len(c) /\ j # Len(c) + 1
    <3>1. /\ j \in 1 .. Len(c) /\ j \in 1 .. Len(c) + 1 /\ j + 1 \in 1 .. Len(c) + 1
          /\ j + 1 \in 1 .. Len(c) /\ j + 1 # Len(c) + 1 /\ j # Len(u)
      BY <1>10, <1>11, <2>3
    <3>2. u[j] = c[j] /\ u[j + 1] = c[j + 1]
      BY <1>10, <2>3, <3>1
    <3>3. F[u[j]] = E[c[j]] /\ c[j + 1] # r /\ c[j + 1] \in D
      BY <1>2, <1>3, <1>11, <3>1, <3>2
    <3>4. Follows(D, E, R, c, g, j)
      BY <1>9, <3>1
    <3>5. QED
      BY <2>3, <3>1, <3>2, <3>3, <3>4 DEF Follows
  <2>4. QED
    BY <2>1, <2>2, <2>3
<1>13. QED
  BY <1>6, <1>7, <1>8, <1>10, <1>12 DEF Tiling, Chained, r, u

-----------------------------------------------------------------------------
(* The heap.  What the proofs ask of the memory that heap_malloc returns:  *)
(* that bytes_free_ can hold its size, and that the second header behind a *)
(* fresh root is aligned for what it allocates; and of the alignments      *)
(* asked for, that a header is at least as large.  With a larger one, or   *)
(* memory that begins between two multiples of it, the difference in       *)
(* try_split() wraps.                                                      *)

ArenasFit == \A a \in Arenas : a[2] < Mas + FreeW
NoGaps ==
  \A al \in Aligns :
    /\ MemAlign + al <= Mas
    /\ \A a \in Arenas : AlignUp(AlignUp(a[1] + Mas, MemAlign) + Mas, al) = a[1] + 2 * Mas

Ends(h)  == [x \in DOMAIN h.seg |-> SpanEnd(h, x)]
Roots(h) == {x \in DOMAIN h.seg : h.seg[x].root}

Layout(h, g) == Tiling(DOMAIN h.seg, Ends(h), Roots(h), h.chain, g)

Shape(h) == h = [seg |-> h.seg, chain |-> h.chain, used |-> h.used, free |-> h.free]

\* A header that is no root exists for its allocation, and used_ has every
\* header in use.
Headers(h) ==
  /\ \A m \in DOMAIN h.seg :
       /\ h.seg[m] \in Segment
       /\ ~ h.seg[m].root => h.seg[m].used
       /\ ~ h.seg[m].used => h.seg[m].bytes_used = 0
       /\ h.seg[m].used => m \in h.used
  /\ h.used \subseteq DOMAIN h.seg

FreeList(h) == IsList(h.free) /\ Range(h.free) \subseteq DOMAIN h.seg

\* What is on the free list has room for a header, or is a root that is free.
Roomy(h) ==
  \A m \in Range(h.free) :
    h.seg[m].bytes_free >= Mas \/ (h.seg[m].root /\ ~ h.seg[m].used)

\* What is not on it has no room to give; a free root has given it away.
Listed(h) ==
  \A m \in DOMAIN h.seg : m \notin Range(h.free) =>
    /\ ~ WantsFree(h.seg[m])
    /\ h.seg[m].root /\ ~ h.seg[m].used =>
         \E y \in DOMAIN h.seg : y = SpanEnd(h, m) /\ ~ h.seg[y].root

HeapInv(h, g) ==
  Shape(h) /\ Layout(h, g) /\ Headers(h) /\ FreeList(h) /\ Roomy(h) /\ Listed(h)

LEMMA Widths ==
  /\ Mas \in Nat /\ Mas > 0 /\ MemAlign \in Nat \ {0}
  /\ MaxAlloc \in Nat /\ FreeW \in Nat /\ SizeW \in Nat /\ MaxAlloc < FreeW /\ FreeW <= SizeW
BY MasAssumption, WidthAssumption

\* NoGaps is what _config.h:39 asks of heap_malloc, memory aligned to
\* max_align_t, for alignments that divide the size of two headers (on amd64
\* they are at most 16, and a header takes 56 bytes).
LEMMA AlignedMemory ==
  ASSUME \A al \in Aligns : /\ MemAlign + al <= Mas /\ (2 * Mas) % al = 0
                            /\ \A a \in Arenas : a[1] % al = 0,
         \A a \in Arenas : a[1] % MemAlign = 0
  PROVE  NoGaps
<1> SUFFICES ASSUME NEW al \in Aligns, NEW a \in Arenas
             PROVE  AlignUp(AlignUp(a[1] + Mas, MemAlign) + Mas, al) = a[1] + 2 * Mas
  BY DEF NoGaps
<1>1. PICK r : r = a[1]
  OBVIOUS
<1>2. r \in Nat /\ r % al = 0 /\ r % MemAlign = 0 /\ al \in Nat \ {0} /\ Mas % MemAlign = 0
  <2>1. a \in Nat \X Nat
    BY ArenaAssumption
  <2>2. r \in Nat
    BY <1>1, <2>1
  <2>3. r % al = 0 /\ r % MemAlign = 0
    BY <1>1
  <2>4. QED
    BY <2>2, <2>3, RequestAssumption, MasAssumption
<1>3. r + Mas \in Nat /\ (r + Mas) % MemAlign = 0
  <2>1. r \in Nat /\ Mas \in Nat /\ MemAlign \in Nat \ {0}
    BY <1>2, Widths
  <2>2. (r + Mas) % MemAlign = 0
    BY ONLY <1>2, <2>1, MultiplesAdd
  <2>3. QED
    BY <2>1, <2>2
<1>4. AlignUp(r + Mas, MemAlign) = r + Mas
  BY <1>3, Widths, AlignedStays
<1>5. 2 * Mas \in Nat /\ (2 * Mas) % al = 0 /\ r + Mas + Mas = r + 2 * Mas
  BY <1>2, Widths
<1>6. r + 2 * Mas \in Nat /\ (r + 2 * Mas) % al = 0
  BY <1>2, <1>5, MultiplesAdd
<1>7. AlignUp(r + 2 * Mas, al) = r + 2 * Mas
  BY <1>2, <1>6, AlignedStays
<1>8. QED
  BY <1>1, <1>4, <1>5, <1>7

\* A number below the width is not changed by its wrap.
LEMMA NoWrap ==
  ASSUME NEW n \in Nat, NEW w \in Nat, n < w PROVE n % w = n
OBVIOUS

LEMMA ClaimedIs ==
  ASSUME NEW s \in Segment, NEW sz \in Nat, sz <= MaxAlloc, sz <= s.bytes_free
  PROVE  LET t == Claimed(s, sz)
         IN  /\ t \in Segment /\ t.root = s.root /\ t.used /\ t.bytes_used = sz
             /\ t.bytes_free = s.bytes_free - sz /\ t.bytes_free \in Nat
<1>1. /\ s.bytes_free \in Nat /\ s.bytes_free - sz \in Nat /\ sz \in 0 .. MaxAlloc
      /\ s.bytes_free - sz \in 0 .. FreeW - 1
  BY Widths DEF Segment
<1>2. [s EXCEPT !.used = TRUE, !.bytes_used = sz, !.bytes_free = s.bytes_free - sz] \in Segment
  BY <1>1 DEF Segment
<1>3. QED
  BY <1>1, <1>2 DEF Claimed, Segment

\* The numbers in a header, and how they relate to the lay-out.
LEMMA HeaderFacts ==
  ASSUME NEW h, NEW g \in SUBSET Arenas, HeapInv(h, g), NEW m \in DOMAIN h.seg
  PROVE  /\ m \in Nat /\ h.seg[m].root \in BOOLEAN /\ h.seg[m].used \in BOOLEAN
         /\ h.seg[m].bytes_used \in Nat /\ h.seg[m].bytes_used <= MaxAlloc
         /\ h.seg[m].bytes_free \in Nat /\ h.seg[m].bytes_free < FreeW
         /\ h.seg[m] \in Segment
         /\ SpanOf(h.seg[m]) = Mas + h.seg[m].bytes_used + h.seg[m].bytes_free
         /\ SpanEnd(h, m) = m + SpanOf(h.seg[m]) /\ Ends(h)[m] = SpanEnd(h, m)
         /\ FreeAddr(h, m) = m + Mas + h.seg[m].bytes_used
<1>1. h.seg[m] \in Segment
  BY DEF HeapInv, Headers
<1>2. m \in Nat
  BY DEF HeapInv, Layout, Tiling, Ordered
<1>3. QED
  BY <1>1, <1>2, Widths DEF Segment, SpanOf, SpanEnd, Ends, FreeAddr

\* A span lies within an arena, so that its bytes can be counted.
LEMMA SpanFits ==
  ASSUME ArenasFit, NEW h, NEW g \in SUBSET Arenas, HeapInv(h, g), NEW m \in DOMAIN h.seg
  PROVE  h.seg[m].bytes_used + h.seg[m].bytes_free < FreeW
<1>1. PICK a \in g : a[1] \in DOMAIN h.seg /\ a[1] <= m /\ Ends(h)[m] <= a[1] + a[2]
  BY DEF HeapInv, Layout, Tiling, Housed
<1>2. a[1] \in Nat /\ a[2] \in Nat
  BY ArenaNumbers
<1>3. a[2] < Mas + FreeW
  BY DEF ArenasFit
<1>4. /\ m \in Nat /\ h.seg[m].bytes_used \in Nat /\ h.seg[m].bytes_free \in Nat
      /\ Ends(h)[m] = m + (Mas + h.seg[m].bytes_used + h.seg[m].bytes_free)
  BY HeaderFacts
<1>5. QED
  BY <1>1, <1>2, <1>3, <1>4, Widths

\* A header is rewritten over the same span.
LEMMA SameSpan ==
  ASSUME NEW h, NEW g, Layout(h, g), NEW m \in DOMAIN h.seg, NEW t,
         t.root = h.seg[m].root, SpanOf(t) = SpanOf(h.seg[m]),
         NEW k, k.seg = [h.seg EXCEPT ![m] = t], k.chain = h.chain
  PROVE  Layout(k, g) /\ DOMAIN k.seg = DOMAIN h.seg
         /\ \A x \in DOMAIN h.seg : SpanEnd(k, x) = SpanEnd(h, x)
<1>1. DOMAIN k.seg = DOMAIN h.seg
  OBVIOUS
<1>2. \A x \in DOMAIN h.seg : k.seg[x] = IF x = m THEN t ELSE h.seg[x]
  OBVIOUS
<1>3. \A x \in DOMAIN h.seg : SpanEnd(k, x) = SpanEnd(h, x)
  BY <1>2 DEF SpanEnd
<1>4. Ends(k) = Ends(h)
  BY <1>1, <1>3 DEF Ends
<1>5. Roots(k) = Roots(h)
  BY <1>1, <1>2 DEF Roots
<1>6. QED
  BY <1>1, <1>3, <1>4, <1>5 DEF Layout

\* ... and with it the free list, in a way that suits what is written.
LEMMA Rewritten ==
  ASSUME NEW h, NEW g \in SUBSET Arenas, HeapInv(h, g), NEW m \in DOMAIN h.seg, NEW t \in Segment,
         t.root = h.seg[m].root, SpanOf(t) = SpanOf(h.seg[m]),
         ~ t.root => t.used, ~ t.used => t.bytes_used = 0,
         NEW k, Shape(k), k.seg = [h.seg EXCEPT ![m] = t], k.chain = h.chain,
         k.used = h.used \cup {m}, IsList(k.free),
         \A x : x # m => (x \in Range(k.free) <=> x \in Range(h.free)),
         m \in Range(k.free) => t.bytes_free >= Mas \/ (t.root /\ ~ t.used),
         m \notin Range(k.free) => ~ WantsFree(t) /\ t.used
  PROVE  HeapInv(k, g)
<1> USE DEF HeapInv
<1>1. /\ Layout(k, g) /\ DOMAIN k.seg = DOMAIN h.seg
      /\ \A x \in DOMAIN h.seg : SpanEnd(k, x) = SpanEnd(h, x)
  BY SameSpan
<1>2. k.seg[m] = t /\ \A x \in DOMAIN h.seg : x # m => k.seg[x] = h.seg[x]
  OBVIOUS
<1>3. Headers(k)
  BY <1>1, <1>2 DEF Headers
<1>4. FreeList(k)
  BY <1>1 DEF FreeList
<1>5. Roomy(k)
  BY <1>1, <1>2, <1>4 DEF Roomy, FreeList
<1>6. Listed(k)
  <2> SUFFICES ASSUME NEW x \in DOMAIN h.seg, x \notin Range(k.free)
               PROVE  /\ ~ WantsFree(k.seg[x])
                      /\ k.seg[x].root /\ ~ k.seg[x].used =>
                           \E y \in DOMAIN h.seg : y = SpanEnd(k, x) /\ ~ k.seg[y].root
    BY <1>1 DEF Listed
  <2>1. CASE x = m
    BY <1>2, <2>1
  <2>2. CASE x # m
    <3>1. \A y \in DOMAIN h.seg : k.seg[y].root = h.seg[y].root
      BY <1>2
    <3>2. QED
      BY <1>1, <1>2, <2>2, <3>1 DEF Listed
  <2>3. QED
    BY <2>1, <2>2
<1>7. QED
  BY <1>1, <1>3, <1>4, <1>5, <1>6

-----------------------------------------------------------------------------
(* try_claim_, the first attempt: the header takes the allocation itself.  *)

LEMMA DirectStep ==
  ASSUME NEW h, NEW g \in SUBSET Arenas, HeapInv(h, g), NEW m \in Range(h.free),
         NEW sz \in Nat, CanClaim(h.seg[m], sz),
         NEW k, k = ClaimDirectly(h, m, sz)
  PROVE  /\ HeapInv(k, g) /\ m \in DOMAIN h.seg /\ ~ h.seg[m].used
         /\ k.seg[m] = Claimed(h.seg[m], sz) /\ k.used = h.used \cup {m}
         /\ DOMAIN k.seg = DOMAIN h.seg /\ \A x \in DOMAIN h.seg : x # m => k.seg[x] = h.seg[x]
<1> DEFINE s == h.seg[m]  t == Claimed(s, sz)
<1>1. m \in DOMAIN h.seg /\ IsList(h.free)
  BY DEF HeapInv, FreeList
<1>2. /\ s.root \in BOOLEAN /\ s.bytes_free \in Nat /\ s.bytes_free < FreeW
      /\ s \in Segment
      /\ SpanOf(s) = Mas + s.bytes_used + s.bytes_free
  BY <1>1, HeaderFacts
<1>3. ~ s.used /\ s.bytes_used = 0 /\ sz <= MaxAlloc /\ sz <= s.bytes_free
  BY <1>1 DEF CanClaim, HeapInv, Headers
<1> HIDE DEF s
<1>4. /\ t \in Segment /\ t.root = s.root /\ t.used /\ t.bytes_used = sz
      /\ t.bytes_free = s.bytes_free - sz /\ t.bytes_free \in Nat
  BY <1>2, <1>3, ClaimedIs
<1> HIDE DEF t
<1>5. SpanOf(t) = SpanOf(s)
  BY <1>2, <1>3, <1>4, Widths DEF SpanOf
<1>6. Shape(h)
  BY DEF HeapInv
<1>7. /\ k.seg = [h.seg EXCEPT ![m] = t] /\ k.chain = h.chain /\ k.used = h.used \cup {m}
      /\ k.free = IF t.bytes_free <= Mas THEN Unlink(h.free, m) ELSE h.free
      /\ Shape(k)
  <2>1. k = [seg |-> [h.seg EXCEPT ![m] = t], chain |-> h.chain, used |-> h.used \cup {m},
             free |-> IF t.bytes_free <= Mas THEN Unlink(h.free, m) ELSE h.free]
    BY <1>6 DEF ClaimDirectly, Shape, s, t
  <2>2. QED
    BY <2>1 DEF Shape
<1>8. IsList(Unlink(h.free, m)) /\ Range(Unlink(h.free, m)) = Range(h.free) \ {m}
  BY <1>1, UnlinkIs
<1>9. /\ IsList(k.free) /\ \A x : x # m => (x \in Range(k.free) <=> x \in Range(h.free))
      /\ m \in Range(k.free) => t.bytes_free >= Mas
      /\ m \notin Range(k.free) => ~ WantsFree(t)
  <2>1. CASE t.bytes_free <= Mas
    BY <1>4, <1>7, <1>8, <2>1, Widths DEF WantsFree
  <2>2. CASE ~ (t.bytes_free <= Mas)
    BY <1>1, <1>4, <1>7, <2>2, Widths
  <2>3. QED
    BY <2>1, <2>2
<1>10. HeapInv(k, g)
  BY <1>1, <1>4, <1>5, <1>7, <1>9, Rewritten DEF s
<1>11. QED
  BY <1>1, <1>3, <1>7, <1>10 DEF s, t

-----------------------------------------------------------------------------
(* The second attempt: a new header in the free space.                     *)

\* The new header and its allocation fit: aligning moves the address by less
\* than a header, and not at all behind a root that is free.
LEMMA SplitFacts ==
  ASSUME NoGaps, NEW h, NEW g \in SUBSET Arenas, HeapInv(h, g), NEW m \in Range(h.free),
         NEW sz \in Nat, NEW al \in Aligns, FitsBySplit(h, m, sz, al),
         NEW mm, mm = SplitAddr(h, m, al)
  PROVE  /\ m \in DOMAIN h.seg /\ mm \in Nat /\ UsedAddr(mm) % al = 0
         /\ FreeAddr(h, m) <= mm /\ mm <= SpanEnd(h, m)
         /\ SplitSpan(h, m, al) = SpanEnd(h, m) - mm
         /\ Mas + sz <= SplitSpan(h, m, al) /\ sz <= MaxAlloc
<1> DEFINE s == h.seg[m]  at == FreeAddr(h, m)
           up == AlignUp(at, MemAlign)  over == AlignUp(up + Mas, al)
<1>1. m \in DOMAIN h.seg
  BY DEF HeapInv, FreeList
<1>2. /\ m \in Nat /\ s.bytes_used \in Nat /\ s.bytes_free \in Nat /\ s.bytes_free < FreeW
      /\ SpanEnd(h, m) = m + (Mas + s.bytes_used + s.bytes_free)
      /\ at = m + Mas + s.bytes_used
  BY <1>1, HeaderFacts
<1>3. al \in Nat \ {0} /\ MemAlign + al <= Mas
  BY RequestAssumption DEF NoGaps
<1>4. at \in Nat
  BY <1>2, Widths
<1>5. up \in Nat /\ at <= up /\ up < at + MemAlign
  BY <1>4, Widths, AlignBounds
<1>6. over \in Nat /\ up + Mas <= over /\ over < up + Mas + al /\ over % al = 0
  <2>1. up + Mas \in Nat
    BY <1>5, Widths
  <2>2. QED
    BY <1>3, <2>1, AlignBounds
<1>7. mm = over - Mas
  BY DEF SplitAddr
<1>8. UsedAddr(mm) % al = 0
  <2>1. UsedAddr(mm) = over
    BY <1>6, <1>7, Widths DEF UsedAddr
  <2>2. QED
    BY <1>6, <2>1
<1> HIDE DEF at, up, over, s
<1>9. at <= mm /\ mm <= SpanEnd(h, m) /\ mm \in Nat
  <2>1. CASE s.bytes_free < Mas
    <3>1. s.root /\ ~ s.used
      BY <1>2, <2>1, Widths DEF HeapInv, Roomy, s
    <3>2. s.bytes_used = 0
      BY <1>1, <3>1 DEF HeapInv, Headers, s
    <3>3. PICK a \in g : a[1] = m
      BY <1>1, <3>1 DEF HeapInv, Layout, Tiling, Rooted, Roots, s
    <3>4. at = a[1] + Mas
      BY <1>2, <3>2, <3>3, Widths
    <3>5. over = a[1] + 2 * Mas
      BY <3>4 DEF NoGaps, over, up
    <3>6. mm = at
      BY <1>2, <1>7, <3>3, <3>4, <3>5, Widths
    <3>7. QED
      BY <1>2, <1>4, <3>6, Widths
  <2>2. CASE s.bytes_free >= Mas
    BY <1>2, <1>3, <1>4, <1>5, <1>6, <1>7, <2>2, Widths
  <2>3. QED
    BY <1>2, <2>1, <2>2, Widths
<1>10. SplitSpan(h, m, al) = SpanEnd(h, m) - mm
  <2> DEFINE n == s.bytes_free - (mm - at)
  <2>1. n \in Nat /\ n < SizeW /\ n = SpanEnd(h, m) - mm
    BY <1>2, <1>4, <1>9, Widths
  <2>2. SplitSpan(h, m, al) = n % SizeW
    BY DEF SplitSpan, s, at
  <2> HIDE DEF n
  <2>3. n % SizeW = n
    BY <2>1, Widths, NoWrap
  <2>4. QED
    BY <2>1, <2>2, <2>3
<1>11. Mas + sz <= SplitSpan(h, m, al) /\ sz <= MaxAlloc
  BY DEF FitsBySplit, CanClaim
<1>12. QED
  BY <1>1, <1>8, <1>9, <1>10, <1>11 DEF at

\* The header made for the rest of the space, and claimed.
LEMMA NewClaimed ==
  ASSUME NEW span \in Nat, NEW sz \in Nat, Mas + sz <= span, span < Mas + FreeW, sz <= MaxAlloc
  PROVE  LET new == Claimed(NewSegment(span, FALSE), sz)
         IN  /\ new \in Segment /\ ~ new.root /\ new.used /\ new.bytes_used = sz
             /\ new.bytes_free = span - Mas - sz /\ new.bytes_free \in Nat /\ SpanOf(new) = span
<1> DEFINE s == NewSegment(span, FALSE)  new == Claimed(s, sz)
<1>1. span - Mas \in Nat /\ span - Mas < FreeW
  BY Widths
<1>2. (span - Mas) % FreeW = span - Mas
  BY <1>1, Widths, NoWrap
<1>3. s = [root |-> FALSE, used |-> FALSE, bytes_used |-> 0, bytes_free |-> span - Mas]
  BY <1>2 DEF NewSegment
<1> HIDE DEF s
<1>4. s \in Segment /\ s.bytes_free = span - Mas /\ s.root = FALSE
  <2>1. 0 \in 0 .. MaxAlloc /\ span - Mas \in 0 .. FreeW - 1
    BY <1>1, Widths
  <2>2. [root |-> FALSE, used |-> FALSE, bytes_used |-> 0, bytes_free |-> span - Mas] \in Segment
    BY <2>1 DEF Segment
  <2>3. QED
    BY <1>3, <2>2
<1>5. sz <= s.bytes_free
  BY <1>1, <1>4, Widths
<1>6. /\ new \in Segment /\ new.root = s.root /\ new.used /\ new.bytes_used = sz
      /\ new.bytes_free = s.bytes_free - sz /\ new.bytes_free \in Nat
  BY <1>4, <1>5, ClaimedIs
<1> HIDE DEF new
<1>7. /\ new \in Segment /\ ~ new.root /\ new.used /\ new.bytes_used = sz
      /\ new.bytes_free = span - Mas - sz /\ new.bytes_free \in Nat
  BY <1>1, <1>4, <1>6, Widths
<1>8. SpanOf(new) = Mas + new.bytes_used + new.bytes_free
  BY DEF SpanOf
<1>9. SpanOf(new) = span
  <2>1. SpanOf(new) = Mas + sz + (span - Mas - sz)
    BY <1>7, <1>8
  <2>2. Mas + sz + (span - Mas - sz) = span
    BY Widths
  <2>3. QED
    BY <2>1, <2>2
<1>10. QED
  BY <1>7, <1>9 DEF new, s

\* What is left of the parent: the bytes up to the new header.
LEMMA ParentIs ==
  ASSUME NEW s \in Segment, NEW n \in Nat, n <= s.bytes_free
  PROVE  LET t == [s EXCEPT !.bytes_free = (@ - n) % FreeW]
         IN  /\ t \in Segment /\ t.root = s.root /\ t.used = s.used
             /\ t.bytes_used = s.bytes_used /\ t.bytes_free = s.bytes_free - n
             /\ SpanOf(t) = SpanOf(s) - n
<1> DEFINE t == [s EXCEPT !.bytes_free = (@ - n) % FreeW]
<1>1. /\ s.bytes_free - n \in Nat /\ s.bytes_free - n < FreeW
      /\ s.bytes_free \in Nat /\ s.bytes_used \in Nat
  BY Widths DEF Segment
<1>2. (s.bytes_free - n) % FreeW = s.bytes_free - n /\ s.bytes_free - n \in 0 .. FreeW - 1
  BY <1>1, Widths, NoWrap
<1>3. t = [s EXCEPT !.bytes_free = s.bytes_free - n]
  BY <1>2
<1> HIDE DEF t
<1>4. /\ t \in Segment /\ t.root = s.root /\ t.used = s.used /\ t.bytes_used = s.bytes_used
      /\ t.bytes_free = s.bytes_free - n
  BY <1>2, <1>3 DEF Segment
<1>5. SpanOf(t) = Mas + s.bytes_used + (s.bytes_free - n)
  BY <1>4 DEF SpanOf
<1>6. SpanOf(s) = Mas + s.bytes_used + s.bytes_free
  BY DEF SpanOf
<1>7. SpanOf(t) = SpanOf(s) - n
  BY <1>1, <1>5, <1>6, Widths
<1>8. QED
  BY <1>4, <1>7 DEF t

\* What a new header mm, claimed for sz bytes, makes of the heap.
SplitInto(h, g, sz, al, mm, k) ==
  /\ HeapInv(k, g) /\ mm \notin DOMAIN h.seg /\ DOMAIN k.seg = DOMAIN h.seg \cup {mm}
  /\ ~ k.seg[mm].root /\ k.seg[mm].used /\ k.seg[mm].bytes_used = sz
  /\ \A x \in DOMAIN h.seg : /\ k.seg[x].used = h.seg[x].used
                             /\ k.seg[x].bytes_used = h.seg[x].bytes_used
  /\ UsedAddr(mm) % al = 0

LEMMA SplitStep ==
  ASSUME NoGaps, NEW h, NEW g \in SUBSET Arenas, HeapInv(h, g), NEW m \in Range(h.free),
         NEW sz \in Nat, NEW al \in Aligns, FitsBySplit(h, m, sz, al)
  PROVE  SplitInto(h, g, sz, al, SplitAddr(h, m, al), ClaimBySplit(h, m, sz, al))
<1> SUFFICES ASSUME NEW mm, mm = SplitAddr(h, m, al), NEW k, k = ClaimBySplit(h, m, sz, al)
             PROVE  SplitInto(h, g, sz, al, mm, k)
  OBVIOUS
<1> DEFINE D == DOMAIN h.seg
<1>1. PICK s, span : s = h.seg[m] /\ span = SplitSpan(h, m, al)
  OBVIOUS
<1>2. /\ m \in D /\ mm \in Nat /\ UsedAddr(mm) % al = 0
      /\ FreeAddr(h, m) <= mm /\ mm <= SpanEnd(h, m) /\ span = SpanEnd(h, m) - mm
      /\ Mas + sz <= span /\ sz <= MaxAlloc
  BY <1>1, SplitFacts
<1>3. /\ m \in Nat /\ s \in Segment /\ s.bytes_used \in Nat /\ s.bytes_free \in Nat
      /\ s.bytes_free < FreeW /\ SpanOf(s) = Mas + s.bytes_used + s.bytes_free
      /\ SpanEnd(h, m) = m + SpanOf(s) /\ FreeAddr(h, m) = m + Mas + s.bytes_used
      /\ Ends(h)[m] = SpanEnd(h, m)
  BY <1>1, <1>2, HeaderFacts
<1>4. span \in Nat /\ span < Mas + FreeW /\ span <= s.bytes_free /\ m < mm /\ mm < SpanEnd(h, m)
  BY <1>2, <1>3, Widths
<1>5. PICK new : new = Claimed(NewSegment(span, FALSE), sz)
  OBVIOUS
<1>6. /\ new \in Segment /\ ~ new.root /\ new.used /\ new.bytes_used = sz
      /\ new.bytes_free = span - Mas - sz /\ new.bytes_free \in Nat /\ SpanOf(new) = span
  BY <1>2, <1>4, <1>5, NewClaimed
<1>7. PICK parent : parent = [s EXCEPT !.bytes_free = (@ - SpanOf(new)) % FreeW]
  OBVIOUS
<1>8. /\ parent \in Segment /\ parent.root = s.root /\ parent.used = s.used
      /\ parent.bytes_used = s.bytes_used /\ parent.bytes_free = s.bytes_free - span
      /\ SpanOf(parent) = SpanOf(s) - span
  <2>1. parent = [s EXCEPT !.bytes_free = (@ - span) % FreeW]
    BY <1>6, <1>7
  <2>2. QED
    BY <1>3, <1>4, <2>1, ParentIs
<1>9. PICK f : f = IF new.bytes_free >= Mas THEN LinkFront(h.free, mm) ELSE h.free
  OBVIOUS
<1>10. k = [seg   |-> [x \in D \cup {mm} |-> IF x = mm THEN new ELSE IF x = m THEN parent ELSE h.seg[x]],
           chain |-> LinkAfter(h.chain, mm, m),
           used  |-> h.used \cup {mm},
           free  |-> IF WantsFree(parent) THEN f ELSE Unlink(f, m)]
  BY <1>1, <1>5, <1>7, <1>9 DEF ClaimBySplit
<1>11. Shape(k)
  BY <1>10 DEF Shape
<1>12. /\ DOMAIN k.seg = D \cup {mm} /\ k.chain = LinkAfter(h.chain, mm, m)
      /\ k.used = h.used \cup {mm}
      /\ k.free = IF WantsFree(parent) THEN f ELSE Unlink(f, m)
  BY <1>10
<1>13. mm \notin D /\ Layout(h, g)
  <2>1. Layout(h, g) /\ mm < Ends(h)[m]
    BY <1>3, <1>4 DEF HeapInv
  <2>2. Ordered(D, Ends(h))
    BY <2>1 DEF Layout, Tiling
  <2>3. D \subseteq Nat /\ \A x, y \in D : x < y => Ends(h)[x] <= y
    BY <2>2 DEF Ordered
  <2>4. Ends(h)[m] \in Nat
    BY <1>2, <2>2 DEF Ordered
  <2>5. QED
    BY <1>2, <1>4, <2>1, <2>3, <2>4
<1>14. /\ k.seg[mm] = new /\ k.seg[m] = parent
       /\ \A x \in D : x # m => k.seg[x] = h.seg[x]
  BY <1>2, <1>10, <1>13
<1>15. /\ SpanEnd(k, mm) = SpanEnd(h, m) /\ SpanEnd(k, m) = mm
       /\ \A x \in D : x # m => SpanEnd(k, x) = SpanEnd(h, x)
  <2>1. SpanEnd(k, mm) = mm + span /\ SpanEnd(k, m) = m + SpanOf(s) - span
    BY <1>3, <1>4, <1>6, <1>8, <1>14, Widths DEF SpanEnd
  <2>2. \A x \in D : x # m => SpanEnd(k, x) = SpanEnd(h, x)
    BY <1>14 DEF SpanEnd
  <2>3. QED
    BY <1>2, <1>3, <2>1, <2>2, Widths
<1>16. Layout(k, g)
  <2>1. Roots(k) = Roots(h)
    BY <1>1, <1>2, <1>6, <1>8, <1>12, <1>13, <1>14 DEF Roots
  <2>2. Ends(k) = [x \in D \cup {mm} |->
                     IF x = m THEN mm ELSE IF x = mm THEN Ends(h)[m] ELSE Ends(h)[x]]
    <3>1. \A x \in D \cup {mm} :
            SpanEnd(k, x) = IF x = m THEN mm ELSE IF x = mm THEN Ends(h)[m] ELSE Ends(h)[x]
      BY <1>2, <1>3, <1>4, <1>13, <1>15 DEF Ends
    <3>2. QED
      BY <1>12, <3>1 DEF Ends
  <2>3. Tiling(D \cup {mm}, Ends(k), Roots(h), LinkAfter(h.chain, mm, m), g)
    BY <1>2, <1>3, <1>4, <1>13, <2>2, TileSplit DEF Layout
  <2>4. QED
    BY <1>12, <2>1, <2>3 DEF Layout
<1>17. Headers(k)
  <2>1. Headers(h)
    BY DEF HeapInv
  <2>2. ASSUME NEW x \in D \cup {mm}
        PROVE  /\ k.seg[x] \in Segment
               /\ ~ k.seg[x].root => k.seg[x].used
               /\ ~ k.seg[x].used => k.seg[x].bytes_used = 0
               /\ k.seg[x].used => x \in k.used
    <3>1. CASE x = mm
      BY <1>6, <1>12, <1>14, <3>1
    <3>2. CASE x = m
      BY <1>1, <1>2, <1>8, <1>12, <1>14, <2>1, <3>2 DEF Headers
    <3>3. CASE x # m /\ x # mm
      BY <1>12, <1>14, <2>1, <3>3 DEF Headers
    <3>4. QED
      BY <3>1, <3>2, <3>3
  <2>3. QED
    BY <1>12, <2>1, <2>2 DEF Headers
<1>18. IsList(f) /\ Range(f) = IF new.bytes_free >= Mas THEN Range(h.free) \cup {mm} ELSE Range(h.free)
  BY <1>2, <1>9, LinkFrontIs DEF HeapInv, FreeList
<1>19. /\ IsList(k.free)
       /\ Range(k.free) = IF WantsFree(parent) THEN Range(f) ELSE Range(f) \ {m}
  <2>1. IsList(Unlink(f, m)) /\ Range(Unlink(f, m)) = Range(f) \ {m}
    BY <1>18, UnlinkIs
  <2>2. QED
    BY <1>12, <1>18, <2>1
<1>20. m # mm /\ Range(h.free) \subseteq D
  BY <1>2, <1>13 DEF HeapInv, FreeList
<1>21. FreeList(k)
  BY <1>12, <1>18, <1>19, <1>20 DEF FreeList
<1>22. Roomy(k)
  <2>1. Roomy(h)
    BY DEF HeapInv
  <2>2. ASSUME NEW x \in Range(k.free)
        PROVE  k.seg[x].bytes_free >= Mas \/ (k.seg[x].root /\ ~ k.seg[x].used)
    <3>1. CASE x = mm
      BY <1>13, <1>14, <1>18, <1>19, <1>20, <3>1
    <3>2. CASE x = m
      BY <1>14, <1>19, <3>2 DEF WantsFree
    <3>3. CASE x # m /\ x # mm
      BY <1>14, <1>18, <1>19, <1>20, <2>1, <3>3 DEF Roomy
    <3>4. QED
      BY <3>1, <3>2, <3>3
  <2>3. QED
    BY <2>2 DEF Roomy
<1>23. Listed(k)
  <2>1. Listed(h)
    BY DEF HeapInv
  <2>2. ASSUME NEW x \in D \cup {mm}, x \notin Range(k.free)
        PROVE  /\ ~ WantsFree(k.seg[x])
               /\ k.seg[x].root /\ ~ k.seg[x].used =>
                    \E y \in D \cup {mm} : y = SpanEnd(k, x) /\ ~ k.seg[y].root
    <3>1. CASE x = mm
      <4>1. ~ (new.bytes_free >= Mas)
        BY <1>18, <1>19, <1>20, <2>2, <3>1
      <4>2. QED
        BY <1>6, <1>14, <3>1, <4>1 DEF WantsFree
    <3>2. CASE x = m
      <4>1. ~ WantsFree(parent)
        BY <1>18, <1>19, <2>2, <3>2
      <4>2. QED
        BY <1>6, <1>14, <1>15, <3>2, <4>1
    <3>3. CASE x # m /\ x # mm
      <4>1. x \in D /\ x \notin Range(h.free) /\ k.seg[x] = h.seg[x] /\ SpanEnd(k, x) = SpanEnd(h, x)
        BY <1>14, <1>15, <1>18, <1>19, <2>2, <3>3
      <4>2. \A y \in D : k.seg[y].root = h.seg[y].root
        BY <1>1, <1>8, <1>14
      <4>3. QED
        BY <2>1, <4>1, <4>2 DEF Listed
    <3>4. QED
      BY <3>1, <3>2, <3>3
  <2>3. QED
    BY <1>12, <2>2 DEF Listed
<1>24. HeapInv(k, g)
  BY <1>11, <1>16, <1>17, <1>21, <1>22, <1>23 DEF HeapInv
<1>25. \A x \in D : k.seg[x].used = h.seg[x].used /\ k.seg[x].bytes_used = h.seg[x].bytes_used
  BY <1>1, <1>8, <1>14
<1>26. QED
  BY <1>2, <1>6, <1>12, <1>13, <1>14, <1>24, <1>25 DEF SplitInto

-----------------------------------------------------------------------------
(* allocate links what it got, free() merges, resize() moves the boundary. *)

LEMMA FreshIs ==
  ASSUME NEW n \in Nat, Mas <= n, n < Mas + FreeW
  PROVE  LET t == NewSegment(n, TRUE)
         IN  /\ t \in Segment /\ t.root /\ ~ t.used /\ t.bytes_used = 0
             /\ t.bytes_free = n - Mas /\ SpanOf(t) = n
<1> DEFINE t == NewSegment(n, TRUE)
<1>1. n - Mas \in Nat /\ n - Mas < FreeW
  BY Widths
<1>2. (n - Mas) % FreeW = n - Mas /\ n - Mas \in 0 .. FreeW - 1 /\ 0 \in 0 .. MaxAlloc
  BY <1>1, Widths, NoWrap
<1>3. t = [root |-> TRUE, used |-> FALSE, bytes_used |-> 0, bytes_free |-> n - Mas]
  BY <1>2 DEF NewSegment
<1> HIDE DEF t
<1>4. /\ t \in Segment /\ t.root /\ ~ t.used /\ t.bytes_used = 0 /\ t.bytes_free = n - Mas
  BY <1>2, <1>3 DEF Segment
<1>5. SpanOf(t) = Mas + 0 + (n - Mas)
  BY <1>4 DEF SpanOf
<1>6. Mas + 0 + (n - Mas) = n
  BY Widths
<1>7. QED
  BY <1>4, <1>5, <1>6 DEF t

LEMMA ArenaStep ==
  ASSUME ArenasFit, NEW h, NEW g \in SUBSET Arenas, HeapInv(h, g),
         NEW a \in g, a[1] \notin DOMAIN h.seg, Mas <= a[2],
         NEW k, k = WithArena(h, a[1], a[2])
  PROVE  /\ HeapInv(k, g) /\ DOMAIN k.seg = DOMAIN h.seg \cup {a[1]} /\ ~ k.seg[a[1]].used
         /\ \A x \in DOMAIN h.seg : k.seg[x] = h.seg[x]
<1> DEFINE D == DOMAIN h.seg
<1>1. PICK r, n : r = a[1] /\ n = a[2]
  OBVIOUS
<1>2. r \in Nat /\ n \in Nat /\ r \notin D /\ Mas <= n /\ n < Mas + FreeW
  BY <1>1, ArenaNumbers DEF ArenasFit
<1>3. PICK t : t = NewSegment(n, TRUE)
  OBVIOUS
<1>4. /\ t \in Segment /\ t.root /\ ~ t.used /\ t.bytes_used = 0
      /\ t.bytes_free = n - Mas /\ SpanOf(t) = n
  BY <1>2, <1>3, FreshIs
<1>5. k = [seg   |-> [x \in D \cup {r} |-> IF x = r THEN t ELSE h.seg[x]],
           chain |-> LinkBack(h.chain, r), used |-> h.used, free |-> LinkFront(h.free, r)]
  BY <1>1, <1>3 DEF WithArena
<1>6. /\ Shape(k) /\ DOMAIN k.seg = D \cup {r} /\ k.chain = LinkBack(h.chain, r)
      /\ k.used = h.used /\ k.free = LinkFront(h.free, r)
      /\ k.seg[r] = t /\ \A x \in D : k.seg[x] = h.seg[x]
  BY <1>2, <1>5 DEF Shape
<1>7. SpanEnd(k, r) = r + n /\ \A x \in D : SpanEnd(k, x) = SpanEnd(h, x)
  BY <1>4, <1>6 DEF SpanEnd
<1>8. Layout(k, g)
  <2>1. Roots(k) = Roots(h) \cup {r}
    BY <1>4, <1>6 DEF Roots
  <2>2. Ends(k) = [x \in D \cup {r} |-> IF x = r THEN r + n ELSE Ends(h)[x]]
    BY <1>2, <1>6, <1>7 DEF Ends
  <2>3. Tiling(D, Ends(h), Roots(h), h.chain, g)
    BY DEF HeapInv, Layout
  <2>4. Tiling(D \cup {r}, Ends(k), Roots(h) \cup {r}, LinkBack(h.chain, r), g)
    <3>1. a[2] > 0 /\ a[1] \notin D
      BY <1>1, <1>2, Widths
    <3>2. Ends(k) = [x \in D \cup {a[1]} |-> IF x = a[1] THEN a[1] + a[2] ELSE Ends(h)[x]]
      BY <1>1, <2>2
    <3>3. Tiling(D \cup {a[1]}, Ends(k), Roots(h) \cup {a[1]}, LinkBack(h.chain, a[1]), g)
      BY <2>3, <3>1, <3>2, TileArena
    <3>4. QED
      BY <1>1, <3>3
  <2>5. QED
    BY <1>6, <2>1, <2>4 DEF Layout
<1>9. Headers(k)
  BY <1>4, <1>6 DEF HeapInv, Headers
<1>10. IsList(h.free) /\ Range(h.free) \subseteq D
  BY DEF HeapInv, FreeList
<1>11. IsList(k.free) /\ Range(k.free) = Range(h.free) \cup {r}
  BY <1>2, <1>6, <1>10, LinkFrontIs
<1>12. FreeList(k)
  BY <1>6, <1>10, <1>11 DEF FreeList
<1>13. Roomy(k)
  BY <1>4, <1>6, <1>10, <1>11 DEF HeapInv, Roomy
<1>14. Listed(k)
  <2> SUFFICES ASSUME NEW x \in D, x \notin Range(h.free)
               PROVE  /\ ~ WantsFree(k.seg[x])
                      /\ k.seg[x].root /\ ~ k.seg[x].used =>
                           \E y \in D \cup {r} : y = SpanEnd(k, x) /\ ~ k.seg[y].root
    BY <1>6, <1>11 DEF Listed
  <2>1. QED
    BY <1>6, <1>7 DEF HeapInv, Listed
<1>15. HeapInv(k, g)
  BY <1>6, <1>8, <1>9, <1>12, <1>13, <1>14 DEF HeapInv
<1>16. QED
  BY <1>1, <1>4, <1>6, <1>15

\* memory::resize over the same span.
LEMMA ResizedIs ==
  ASSUME NEW s \in Segment, NEW n \in Nat, n <= MaxAlloc, n <= s.bytes_used + s.bytes_free,
         s.bytes_used + s.bytes_free < FreeW
  PROVE  LET t == [s EXCEPT !.bytes_free = s.bytes_free + s.bytes_used - n, !.bytes_used = n]
         IN  /\ t \in Segment /\ t.root = s.root /\ t.used = s.used /\ t.bytes_used = n
             /\ t.bytes_free \in Nat /\ SpanOf(t) = SpanOf(s)
<1> DEFINE b == s.bytes_free + s.bytes_used - n
           t == [s EXCEPT !.bytes_free = s.bytes_free + s.bytes_used - n, !.bytes_used = n]
<1>1. s.bytes_free \in Nat /\ s.bytes_used \in Nat
  BY DEF Segment
<1>2. b \in Nat /\ b \in 0 .. FreeW - 1 /\ n \in 0 .. MaxAlloc /\ Mas + n + b = Mas + s.bytes_used + s.bytes_free
  BY <1>1, Widths
<1>3. t = [s EXCEPT !.bytes_free = b, !.bytes_used = n]
  OBVIOUS
<1> HIDE DEF b, t
<1>4. /\ t \in Segment /\ t.root = s.root /\ t.used = s.used /\ t.bytes_used = n /\ t.bytes_free = b
  BY <1>2, <1>3 DEF Segment
<1>5. SpanOf(t) = Mas + n + b
  BY <1>4 DEF SpanOf
<1>6. SpanOf(s) = Mas + s.bytes_used + s.bytes_free
  BY DEF SpanOf
<1>7. QED
  BY <1>2, <1>4, <1>5, <1>6 DEF t

LEMMA ResizeStep ==
  ASSUME ArenasFit, NEW h, NEW g \in SUBSET Arenas, HeapInv(h, g),
         NEW m \in DOMAIN h.seg, h.seg[m].used, NEW ptr, ptr - Mas = m,
         NEW n \in Nat, CanResize(h, ptr, n), NEW k, k = Resized(h, ptr, n)
  PROVE  /\ HeapInv(k, g) /\ DOMAIN k.seg = DOMAIN h.seg /\ k.used = h.used
         /\ k.seg[m].used /\ k.seg[m].bytes_used = n
         /\ \A x \in DOMAIN h.seg : x # m => k.seg[x] = h.seg[x]
<1>1. PICK s : s = h.seg[m]
  OBVIOUS
<1>2. /\ m \in Nat /\ s \in Segment /\ s.used \in BOOLEAN
      /\ s.bytes_used + s.bytes_free < FreeW
  BY <1>1, HeaderFacts, SpanFits
<1>3. n <= MaxAlloc /\ n <= s.bytes_used + s.bytes_free
  BY <1>1 DEF CanResize
<1>4. PICK t : t = [s EXCEPT !.bytes_free = s.bytes_free + s.bytes_used - n, !.bytes_used = n]
  OBVIOUS
<1>5. /\ t \in Segment /\ t.root = s.root /\ t.used = s.used /\ t.bytes_used = n
      /\ t.bytes_free \in Nat /\ SpanOf(t) = SpanOf(s)
  BY <1>2, <1>3, <1>4, ResizedIs
<1>6. k = [h EXCEPT !.seg[m] = t,
                    !.free = IF t.bytes_free >= Mas THEN LinkBack(@, m) ELSE Unlink(@, m)]
  BY <1>1, <1>4 DEF Resized
<1>7. Shape(h) /\ IsList(h.free) /\ m \in h.used
  BY DEF HeapInv, FreeList, Headers
<1>8. /\ k.seg = [h.seg EXCEPT ![m] = t] /\ k.chain = h.chain /\ k.used = h.used
      /\ k.free = IF t.bytes_free >= Mas THEN LinkBack(h.free, m) ELSE Unlink(h.free, m)
      /\ Shape(k)
  <2>1. k = [seg |-> [h.seg EXCEPT ![m] = t], chain |-> h.chain, used |-> h.used,
             free |-> IF t.bytes_free >= Mas THEN LinkBack(h.free, m) ELSE Unlink(h.free, m)]
    BY <1>6, <1>7 DEF Shape
  <2>2. QED
    BY <2>1 DEF Shape
<1>9. /\ IsList(LinkBack(h.free, m)) /\ Range(LinkBack(h.free, m)) = Range(h.free) \cup {m}
      /\ IsList(Unlink(h.free, m)) /\ Range(Unlink(h.free, m)) = Range(h.free) \ {m}
  BY <1>2, <1>7, UnlinkIs, LinkBackIs
<1>10. /\ IsList(k.free) /\ \A x : x # m => (x \in Range(k.free) <=> x \in Range(h.free))
       /\ m \in Range(k.free) <=> t.bytes_free >= Mas
  BY <1>8, <1>9
<1>11. t.used /\ (m \notin Range(k.free) => ~ WantsFree(t))
  BY <1>1, <1>5, <1>10 DEF WantsFree
<1>12. k.used = h.used \cup {m}
  BY <1>7, <1>8
<1>13. HeapInv(k, g)
  BY <1>1, <1>5, <1>8, <1>10, <1>11, <1>12, Rewritten
<1>14. QED
  BY <1>5, <1>8, <1>11, <1>13

\* memory::release
LEMMA ReleasedIs ==
  ASSUME NEW s \in Segment, s.bytes_used + s.bytes_free < FreeW
  PROVE  LET t == Released(s)
         IN  /\ t \in Segment /\ t.root = s.root /\ ~ t.used /\ t.bytes_used = 0
             /\ SpanOf(t) = SpanOf(s)
<1> DEFINE b == s.bytes_free + s.bytes_used  t == Released(s)
<1>1. s.bytes_free \in Nat /\ s.bytes_used \in Nat
  BY DEF Segment
<1>2. b \in 0 .. FreeW - 1 /\ 0 \in 0 .. MaxAlloc /\ Mas + 0 + b = Mas + s.bytes_used + s.bytes_free
  BY <1>1, Widths
<1>3. t = [s EXCEPT !.used = FALSE, !.bytes_used = 0, !.bytes_free = b]
  BY DEF Released
<1> HIDE DEF b, t
<1>4. t \in Segment /\ t.root = s.root /\ ~ t.used /\ t.bytes_used = 0 /\ t.bytes_free = b
  BY <1>2, <1>3 DEF Segment
<1>5. SpanOf(t) = Mas + 0 + b
  BY <1>4 DEF SpanOf
<1>6. SpanOf(s) = Mas + s.bytes_used + s.bytes_free
  BY DEF SpanOf
<1>7. QED
  BY <1>2, <1>4, <1>5, <1>6 DEF t

LEMMA FreedRoot ==
  ASSUME ArenasFit, NEW h, NEW g \in SUBSET Arenas, HeapInv(h, g),
         NEW m \in DOMAIN h.seg, h.seg[m].used, h.seg[m].root, NEW ptr, ptr - Mas = m,
         NEW k, k = Freed(h, ptr)
  PROVE  /\ HeapInv(k, g) /\ DOMAIN k.seg = DOMAIN h.seg /\ k.used = h.used /\ ~ k.seg[m].used
         /\ \A x \in DOMAIN h.seg : x # m => k.seg[x] = h.seg[x]
<1>1. PICK s, t : s = h.seg[m] /\ t = Released(s)
  OBVIOUS
<1>2. /\ m \in Nat /\ s \in Segment /\ s.bytes_used + s.bytes_free < FreeW
      /\ s.root \in BOOLEAN
  BY <1>1, HeaderFacts, SpanFits
<1>3. t \in Segment /\ t.root = s.root /\ ~ t.used /\ t.bytes_used = 0 /\ SpanOf(t) = SpanOf(s)
  BY <1>1, <1>2, ReleasedIs
<1>4. Shape(h) /\ IsList(h.free) /\ m \in h.used
  BY DEF HeapInv, FreeList, Headers
<1>5. k = [h EXCEPT !.seg[m] = t, !.free = LinkFront(@, m)]
  BY <1>1, <1>3 DEF Freed
<1>6. /\ k.seg = [h.seg EXCEPT ![m] = t] /\ k.chain = h.chain /\ k.used = h.used
      /\ k.free = LinkFront(h.free, m) /\ Shape(k)
  <2>1. k = [seg |-> [h.seg EXCEPT ![m] = t], chain |-> h.chain, used |-> h.used,
             free |-> LinkFront(h.free, m)]
    BY <1>4, <1>5 DEF Shape
  <2>2. QED
    BY <2>1 DEF Shape
<1>7. IsList(k.free) /\ Range(k.free) = Range(h.free) \cup {m}
  BY <1>2, <1>4, <1>6, LinkFrontIs
<1>8. k.used = h.used \cup {m}
  BY <1>4, <1>6
<1>9. /\ \A x : x # m => (x \in Range(k.free) <=> x \in Range(h.free))
      /\ m \in Range(k.free) /\ t.root
  BY <1>1, <1>3, <1>7
<1>10. HeapInv(k, g)
  BY <1>1, <1>3, <1>6, <1>7, <1>8, <1>9, Rewritten
<1>11. QED
  BY <1>3, <1>6, <1>10

\* The predecessor takes over the bytes of a span behind its own.
LEMMA AbsorberIs ==
  ASSUME NEW s \in Segment, NEW n \in Nat, Mas <= n, s.bytes_free + n < FreeW
  PROVE  LET t == [s EXCEPT !.bytes_free = (@ + n) % FreeW]
         IN  /\ t \in Segment /\ t.root = s.root /\ t.used = s.used
             /\ t.bytes_used = s.bytes_used /\ t.bytes_free \in Nat /\ t.bytes_free >= Mas
             /\ SpanOf(t) = SpanOf(s) + n
<1> DEFINE b == s.bytes_free + n  t == [s EXCEPT !.bytes_free = (@ + n) % FreeW]
<1>1. s.bytes_free \in Nat /\ s.bytes_used \in Nat
  BY DEF Segment
<1>2. b \in Nat /\ b \in 0 .. FreeW - 1 /\ b % FreeW = b /\ b >= Mas
      /\ Mas + s.bytes_used + b = Mas + s.bytes_used + s.bytes_free + n
  <2>1. b \in Nat /\ b < FreeW /\ b >= Mas
        /\ Mas + s.bytes_used + b = Mas + s.bytes_used + s.bytes_free + n
    BY <1>1, Widths
  <2> HIDE DEF b
  <2>2. b % FreeW = b
    BY <2>1, Widths, NoWrap
  <2>3. QED
    BY <2>1, <2>2, Widths
<1>3. t = [s EXCEPT !.bytes_free = b]
  BY <1>2
<1> HIDE DEF b, t
<1>4. /\ t \in Segment /\ t.root = s.root /\ t.used = s.used
      /\ t.bytes_used = s.bytes_used /\ t.bytes_free = b
  BY <1>2, <1>3 DEF Segment
<1>5. SpanOf(t) = Mas + s.bytes_used + b /\ SpanOf(s) = Mas + s.bytes_used + s.bytes_free
  BY <1>4 DEF SpanOf
<1>6. QED
  BY <1>2, <1>4, <1>5 DEF t

LEMMA FreedOther ==
  ASSUME ArenasFit, NEW h, NEW g \in SUBSET Arenas, HeapInv(h, g),
         NEW m \in DOMAIN h.seg, h.seg[m].used, ~ h.seg[m].root, NEW ptr, ptr - Mas = m,
         NEW k, k = Freed(h, ptr)
  PROVE  /\ HeapInv(k, g) /\ DOMAIN k.seg = DOMAIN h.seg \ {m} /\ k.used = h.used \ {m}
         /\ \A x \in DOMAIN h.seg \ {m} : /\ k.seg[x].used = h.seg[x].used
                                          /\ k.seg[x].bytes_used = h.seg[x].bytes_used
<1> DEFINE D == DOMAIN h.seg
<1>1. PICK s, n, p : s = h.seg[m] /\ n = SpanOf(Released(s)) /\ p = h.chain[IndexIn(h.chain, m) - 1]
  OBVIOUS
<1>2. /\ m \in Nat /\ s \in Segment /\ s.bytes_used \in Nat /\ s.bytes_free \in Nat
      /\ s.bytes_used + s.bytes_free < FreeW /\ SpanOf(s) = Mas + s.bytes_used + s.bytes_free
      /\ Ends(h)[m] = m + SpanOf(s)
  BY <1>1, HeaderFacts, SpanFits
<1>3. n = SpanOf(s) /\ n \in Nat /\ Mas <= n /\ ~ Released(s).root
  BY <1>1, <1>2, ReleasedIs, Widths
<1>4. PICK F : F = [x \in D \ {m} |-> IF x = p THEN Ends(h)[m] ELSE Ends(h)[x]]
  OBVIOUS
<1>5. m \notin Roots(h) /\ Tiling(D, Ends(h), Roots(h), h.chain, g)
  BY DEF Roots, HeapInv, Layout
<1>6. /\ p \in D /\ p < m /\ Ends(h)[p] = m
      /\ Tiling(D \ {m}, F, Roots(h), Unlink(h.chain, m), g)
  BY <1>1, <1>4, <1>5, TileMerge
<1>7. PICK q : q = h.seg[p]
  OBVIOUS
<1>8. /\ p \in Nat /\ q \in Segment /\ q.bytes_used \in Nat /\ q.bytes_free \in Nat
      /\ SpanOf(q) = Mas + q.bytes_used + q.bytes_free /\ Ends(h)[p] = p + SpanOf(q)
  BY <1>6, <1>7, HeaderFacts
<1>9. q.bytes_free + n < FreeW
  <2>1. p \in D \ {m} /\ F[p] = Ends(h)[m]
    BY <1>4, <1>6, <1>8, <1>2
  <2>2. PICK a \in g : a[1] <= p /\ F[p] <= a[1] + a[2]
    BY <1>6, <2>1 DEF Tiling, Housed
  <2>3. a[1] \in Nat /\ a[2] \in Nat
    BY ArenaNumbers
  <2>4. a[2] < Mas + FreeW
    BY DEF ArenasFit
  <2>5. p + SpanOf(q) + n <= a[1] + a[2]
    BY <1>2, <1>3, <1>6, <1>8, <2>1, <2>2
  <2>6. QED
    BY <1>3, <1>8, <2>2, <2>3, <2>4, <2>5, Widths
<1>10. PICK t : t = [q EXCEPT !.bytes_free = (@ + n) % FreeW]
  OBVIOUS
<1>11. /\ t \in Segment /\ t.root = q.root /\ t.used = q.used
       /\ t.bytes_used = q.bytes_used /\ t.bytes_free \in Nat /\ t.bytes_free >= Mas
       /\ SpanOf(t) = SpanOf(q) + n
  BY <1>3, <1>8, <1>9, <1>10, AbsorberIs
<1>12. k = [seg   |-> [x \in D \ {m} |-> IF x = p THEN t ELSE h.seg[x]],
            chain |-> Unlink(h.chain, m), used |-> h.used \ {m},
            free  |-> LinkFront(Unlink(h.free, m), p)]
  BY <1>1, <1>3, <1>7, <1>10 DEF Freed
<1>13. /\ Shape(k) /\ DOMAIN k.seg = D \ {m} /\ k.chain = Unlink(h.chain, m)
       /\ k.used = h.used \ {m} /\ k.free = LinkFront(Unlink(h.free, m), p)
       /\ p # m /\ k.seg[p] = t /\ \A x \in D \ {m} : x # p => k.seg[x] = h.seg[x]
  BY <1>2, <1>6, <1>8, <1>12 DEF Shape
<1>14. /\ SpanEnd(k, p) = Ends(h)[m]
       /\ \A x \in D \ {m} : x # p => SpanEnd(k, x) = SpanEnd(h, x)
  <2>1. SpanEnd(k, p) = p + (SpanOf(q) + n)
    BY <1>11, <1>13 DEF SpanEnd
  <2>2. SpanOf(q) \in Nat /\ m = p + SpanOf(q)
    BY <1>6, <1>8, Widths
  <2>3. p + (SpanOf(q) + n) = m + n
    BY <1>3, <1>8, <2>2
  <2>4. QED
    BY <1>2, <1>3, <1>13, <2>1, <2>3 DEF SpanEnd
<1>15. Roots(k) = Roots(h)
  BY <1>5, <1>7, <1>11, <1>13 DEF Roots
<1>16. Layout(k, g)
  <2>1. Ends(k) = F
    BY <1>4, <1>13, <1>14 DEF Ends
  <2>2. QED
    BY <1>6, <1>13, <1>15, <2>1 DEF Layout
<1>17. Headers(k)
  <2>1. Headers(h)
    BY DEF HeapInv
  <2>2. QED
    BY <1>6, <1>7, <1>11, <1>13, <2>1 DEF Headers
<1>18. IsList(h.free) /\ Range(h.free) \subseteq D
  BY DEF HeapInv, FreeList
<1>19. IsList(k.free) /\ Range(k.free) = (Range(h.free) \ {m}) \cup {p}
  <2>1. IsList(Unlink(h.free, m)) /\ Range(Unlink(h.free, m)) = Range(h.free) \ {m}
    BY <1>18, UnlinkIs
  <2>2. QED
    BY <1>8, <1>13, <2>1, LinkFrontIs
<1>20. FreeList(k)
  BY <1>6, <1>13, <1>18, <1>19 DEF FreeList
<1>21. Roomy(k)
  <2>1. Roomy(h)
    BY DEF HeapInv
  <2>2. QED
    BY <1>11, <1>13, <1>18, <1>19, <2>1 DEF Roomy
<1>22. Listed(k)
  <2> SUFFICES ASSUME NEW x \in D \ {m}, x \notin Range(k.free)
               PROVE  /\ ~ WantsFree(k.seg[x])
                      /\ k.seg[x].root /\ ~ k.seg[x].used =>
                           \E y \in D \ {m} : y = SpanEnd(k, x) /\ ~ k.seg[y].root
    BY <1>13 DEF Listed
  <2>1. x # p /\ x \notin Range(h.free) /\ k.seg[x] = h.seg[x] /\ SpanEnd(k, x) = SpanEnd(h, x)
    BY <1>13, <1>14, <1>19
  <2>2. Listed(h)
    BY DEF HeapInv
  <2>3. ~ WantsFree(k.seg[x])
    BY <2>1, <2>2 DEF Listed
  <2>4. ASSUME h.seg[x].root, ~ h.seg[x].used
        PROVE  \E y \in D \ {m} : y = SpanEnd(h, x) /\ ~ k.seg[y].root
    <3>1. PICK y \in D : y = SpanEnd(h, x) /\ ~ h.seg[y].root
      BY <2>1, <2>2, <2>4 DEF Listed
    <3>2. y # m
      <4> SUFFICES ASSUME y = m PROVE FALSE
        OBVIOUS
      <4>1. x \in Nat /\ Ends(h)[x] = m
        BY <3>1, HeaderFacts
      <4>2. /\ \A u \in D : u < Ends(h)[u]
            /\ \A u, v \in D : u < v => Ends(h)[u] <= v
        BY <1>5 DEF Tiling, Ordered
      <4>3. x < m /\ p < m /\ Ends(h)[p] = m
        BY <1>6, <4>1, <4>2
      <4>4. x < p \/ p < x
        BY <1>8, <2>1, <4>1
      <4>5. QED
        BY <1>2, <1>6, <1>8, <4>1, <4>2, <4>3, <4>4
    <3>3. k.seg[y].root = h.seg[y].root
      BY <1>7, <1>11, <1>13, <3>2
    <3>4. QED
      BY <3>1, <3>2, <3>3
  <2>5. QED
    BY <2>1, <2>3, <2>4
<1>23. HeapInv(k, g)
  BY <1>13, <1>16, <1>17, <1>20, <1>21, <1>22 DEF HeapInv
<1>24. QED
  BY <1>7, <1>11, <1>13, <1>23

-----------------------------------------------------------------------------
(* The operations, by what becomes of the headers in use.                  *)

InUse(h) == {x \in DOMAIN h.seg : h.seg[x].used}

\* There is a first header on the free list among those that will do.
LEMMA FirstFitIs ==
  ASSUME NEW h, IsList(h.free), NEW sz, NEW al, HasRoom(h, sz, al)
  PROVE  /\ FirstFit(h, sz, al) \in Range(h.free)
         /\ Fits(h, FirstFit(h, sz, al), sz, al)
<1> DEFINE T == {i \in 1 .. Len(h.free) : Fits(h, h.free[i], sz, al)}
           First(i) == /\ Fits(h, h.free[i], sz, al)
                       /\ \A j \in 1 .. i - 1 : ~ Fits(h, h.free[j], sz, al)
<1>1. DOMAIN h.free = 1 .. Len(h.free) /\ Len(h.free) \in Nat
  BY ListFacts
<1>2. T \in SUBSET Nat /\ T # {}
  BY <1>1 DEF HasRoom
<1>3. PICK i \in T : \A j \in T : i <= j
  BY <1>2, LeastOf
<1>4. i \in DOMAIN h.free /\ Fits(h, h.free[i], sz, al)
  BY <1>1, <1>3
<1>5. ASSUME NEW j \in 1 .. i - 1 PROVE ~ Fits(h, h.free[j], sz, al)
  <2>1. i \in Nat /\ i <= Len(h.free) /\ j \in Nat /\ j < i /\ j \in 1 .. Len(h.free)
    BY <1>1, <1>4
  <2>2. j \notin T
    BY <1>3, <2>1
  <2>3. QED
    BY <2>1, <2>2
<1>6. First(i)
  BY <1>4, <1>5
<1> HIDE DEF First
<1>7. PICK n : n = CHOOSE x \in DOMAIN h.free : First(x)
  OBVIOUS
<1>8. n \in DOMAIN h.free /\ First(n)
  BY <1>4, <1>6, <1>7
<1>9. FirstFit(h, sz, al) = h.free[n]
  BY <1>7 DEF FirstFit, First
<1>10. h.free[n] \in Range(h.free)
  BY <1>1, <1>8, ListFacts
<1>11. QED
  BY <1>8, <1>9, <1>10 DEF First

LEMMA AllocateStep ==
  ASSUME NoGaps, NEW h, NEW g \in SUBSET Arenas, HeapInv(h, g),
         NEW sz \in Nat, NEW al \in Aligns, HasRoom(h, sz, al),
         NEW k, k = AllocatedFrom(h, sz, al)
  PROVE  \E m \in InUse(k) :
           /\ HeapInv(k, g) /\ AllocatedAt(h, sz, al) = UsedAddr(m) /\ UsedAddr(m) % al = 0
           /\ m \notin InUse(h) /\ InUse(k) = InUse(h) \cup {m} /\ k.seg[m].bytes_used = sz
           /\ \A x \in InUse(h) : k.seg[x].bytes_used = h.seg[x].bytes_used
           /\ \A a \in g : a[1] \in DOMAIN k.seg => a[1] \in DOMAIN h.seg
<1>1. PICK m : m = FirstFit(h, sz, al)
  OBVIOUS
<1>2. m \in Range(h.free) /\ Fits(h, m, sz, al)
  BY <1>1, FirstFitIs DEF HeapInv, FreeList
<1>3. CASE FitsDirectly(h, m, sz, al)
  <2>1. k = ClaimDirectly(h, m, sz) /\ AllocatedAt(h, sz, al) = UsedAddr(m)
    BY <1>1, <1>3 DEF AllocatedFrom, AllocatedAt
  <2>2. CanClaim(h.seg[m], sz) /\ AlignUp(FreeAddr(h, m), al) = FreeAddr(h, m)
    BY <1>3 DEF FitsDirectly
  <2>3. /\ HeapInv(k, g) /\ m \in DOMAIN h.seg /\ ~ h.seg[m].used
        /\ k.seg[m] = Claimed(h.seg[m], sz) /\ DOMAIN k.seg = DOMAIN h.seg
        /\ \A x \in DOMAIN h.seg : x # m => k.seg[x] = h.seg[x]
    BY <1>2, <2>1, <2>2, DirectStep
  <2>4. h.seg[m] \in Segment /\ sz <= MaxAlloc /\ sz <= h.seg[m].bytes_free
    BY <2>2, <2>3, HeaderFacts DEF CanClaim
  <2>5. k.seg[m].used /\ k.seg[m].bytes_used = sz
    BY <2>3, <2>4, ClaimedIs
  <2>6. UsedAddr(m) % al = 0
    <3>1. m \in Nat /\ h.seg[m].bytes_used = 0 /\ FreeAddr(h, m) = m + Mas + h.seg[m].bytes_used
      BY <2>3, HeaderFacts DEF HeapInv, Headers
    <3>2. FreeAddr(h, m) = UsedAddr(m) /\ UsedAddr(m) \in Nat
      BY <3>1, Widths DEF UsedAddr
    <3>3. al \in Nat \ {0}
      BY RequestAssumption
    <3>4. AlignUp(UsedAddr(m), al) % al = 0
      BY <3>2, <3>3, AlignBounds
    <3>5. QED
      BY <2>2, <3>2, <3>4
  <2>7. InUse(k) = InUse(h) \cup {m} /\ m \notin InUse(h)
    BY <2>3, <2>5 DEF InUse
  <2>8. \A x \in InUse(h) : k.seg[x].bytes_used = h.seg[x].bytes_used
    BY <2>3 DEF InUse
  <2>9. QED
    BY <2>1, <2>3, <2>5, <2>6, <2>7, <2>8
<1>4. CASE ~ FitsDirectly(h, m, sz, al)
  <2>1. PICK mm : mm = SplitAddr(h, m, al)
    OBVIOUS
  <2>2. k = ClaimBySplit(h, m, sz, al) /\ AllocatedAt(h, sz, al) = UsedAddr(mm)
    BY <1>1, <1>4, <2>1 DEF AllocatedFrom, AllocatedAt
  <2>3. FitsBySplit(h, m, sz, al)
    BY <1>2, <1>4 DEF Fits
  <2>4. /\ HeapInv(k, g) /\ mm \notin DOMAIN h.seg /\ DOMAIN k.seg = DOMAIN h.seg \cup {mm}
        /\ ~ k.seg[mm].root /\ k.seg[mm].used /\ k.seg[mm].bytes_used = sz
        /\ \A x \in DOMAIN h.seg : /\ k.seg[x].used = h.seg[x].used
                                   /\ k.seg[x].bytes_used = h.seg[x].bytes_used
        /\ UsedAddr(mm) % al = 0
    <3>1. m \in Range(h.free)
      BY <1>2
    <3>2. SplitInto(h, g, sz, al, SplitAddr(h, m, al), ClaimBySplit(h, m, sz, al))
      BY <2>3, <3>1, SplitStep
    <3>3. SplitInto(h, g, sz, al, mm, k)
      BY <2>1, <2>2, <3>2
    <3>4. QED
      BY <3>3 DEF SplitInto
  <2>5. InUse(k) = InUse(h) \cup {mm} /\ mm \notin InUse(h)
    BY <2>4 DEF InUse
  <2>6. \A x \in InUse(h) : k.seg[x].bytes_used = h.seg[x].bytes_used
    BY <2>4 DEF InUse
  <2>7. ASSUME NEW a \in g, a[1] \in DOMAIN k.seg PROVE a[1] \in DOMAIN h.seg
    <3>1. Rooted(DOMAIN k.seg, Roots(k), g)
      BY <2>4 DEF HeapInv, Layout, Tiling
    <3>2. a[1] \in Roots(k)
      BY <2>7, <3>1 DEF Rooted
    <3>3. QED
      BY <2>4, <3>2 DEF Roots
  <2>8. QED
    BY <2>2, <2>4, <2>5, <2>6, <2>7
<1>5. QED
  BY <1>3, <1>4

\* What freeing header m makes of the heap.
FreedOf(h, g, m, k) ==
  /\ HeapInv(k, g) /\ DOMAIN k.seg \subseteq DOMAIN h.seg
  /\ InUse(k) = InUse(h) \ {m}
  /\ \A x \in InUse(k) : k.seg[x].bytes_used = h.seg[x].bytes_used

LEMMA FreedStep ==
  ASSUME ArenasFit, NEW h, NEW g \in SUBSET Arenas, HeapInv(h, g),
         NEW ptr, ptr - Mas \in InUse(h)
  PROVE  FreedOf(h, g, ptr - Mas, Freed(h, ptr))
<1>0. PICK m, k : m = ptr - Mas /\ k = Freed(h, ptr)
  OBVIOUS
<1>1. m \in DOMAIN h.seg /\ h.seg[m].used
  BY <1>0 DEF InUse
<1>2. CASE h.seg[m].root
  <2>1. /\ HeapInv(k, g) /\ DOMAIN k.seg = DOMAIN h.seg /\ ~ k.seg[m].used
        /\ \A x \in DOMAIN h.seg : x # m => k.seg[x] = h.seg[x]
    BY <1>0, <1>1, <1>2, FreedRoot
  <2>2. QED
    BY <1>0, <2>1 DEF InUse, FreedOf
<1>3. CASE ~ h.seg[m].root
  <2>1. /\ HeapInv(k, g) /\ DOMAIN k.seg = DOMAIN h.seg \ {m}
        /\ \A x \in DOMAIN h.seg \ {m} : /\ k.seg[x].used = h.seg[x].used
                                         /\ k.seg[x].bytes_used = h.seg[x].bytes_used
    BY <1>0, <1>1, <1>3, FreedOther
  <2>2. QED
    BY <1>0, <2>1 DEF InUse, FreedOf
<1>4. QED
  BY <1>2, <1>3

-----------------------------------------------------------------------------
(* The states of the allocator.                                            *)

\* A thread that has memory and has not linked it yet.
Holds(p) == want[p] # NoRequest /\ want[p].got # <<>>

\* What it holds is its own, and no header is in it.
Waiting ==
  /\ want \in [Threads -> Requests \cup {NoRequest}]
  /\ \A p \in Threads : Holds(p) =>
       want[p].got \in given /\ want[p].got[1] \notin DOMAIN heap.seg
  /\ \A p, q \in Threads : Holds(p) /\ Holds(q) /\ p # q => want[p].got # want[q].got

\* The callers' blocks are the headers in use: one block for each, of the
\* size the header says.
Known(h, L) ==
  /\ L \subseteq [ptr : Nat, size : Sizes, al : Aligns]
  /\ \A b \in L : b.ptr - Mas \in InUse(h) /\ h.seg[b.ptr - Mas].bytes_used = b.size
  /\ \A m \in InUse(h) : \E b \in L : b.ptr = UsedAddr(m)
  /\ \A b, c \in L : b.ptr = c.ptr => b = c

IInv ==
  /\ HeapInv(heap, given)
  /\ given \subseteq Arenas /\ \A a \in given : Mas <= a[2]
  /\ Known(heap, live)
  /\ Waiting

LEMMA Apartness ==
  ASSUME NEW a \in Arenas, NEW b \in Arenas, a # b, Mas <= a[2], Mas <= b[2]
  PROVE  a[1] # b[1]
<1>1. a[1] \in Nat /\ a[2] \in Nat /\ b[1] \in Nat /\ b[2] \in Nat
  BY ArenaAssumption, ArenaNumbers
<1>2. a[1] + a[2] <= b[1] \/ b[1] + b[2] <= a[1]
  BY ArenaAssumption
<1>3. QED
  BY <1>1, <1>2, Widths

\* A thread leaves the unlocked stretch or enters it with nothing; what the
\* others hold stays theirs.
LEMMA WaitingStep ==
  ASSUME IInv, NEW p \in Threads, NEW v \in Requests \cup {NoRequest},
         v = NoRequest \/ v.got = <<>>, want' = [want EXCEPT ![p] = v], UNCHANGED given,
         \A a \in given : a[1] \in DOMAIN heap'.seg =>
           a[1] \in DOMAIN heap.seg \/ (Holds(p) /\ a[1] = want[p].got[1])
  PROVE  Waiting'
<1>1. /\ want \in [Threads -> Requests \cup {NoRequest}]
      /\ \A q \in Threads : Holds(q) =>
           want[q].got \in given /\ want[q].got[1] \notin DOMAIN heap.seg
      /\ \A q, r \in Threads : Holds(q) /\ Holds(r) /\ q # r => want[q].got # want[r].got
  BY DEF IInv, Waiting
<1>2. want' \in [Threads -> Requests \cup {NoRequest}] /\ want'[p] = v
      /\ \A q \in Threads : q # p => want'[q] = want[q]
  BY <1>1
<1>3. ~ Holds(p)' /\ \A q \in Threads : Holds(q)' => q # p /\ Holds(q)
  BY <1>2 DEF Holds
<1>4. ASSUME NEW q \in Threads, Holds(q)'
      PROVE  want'[q].got \in given' /\ want'[q].got[1] \notin DOMAIN heap'.seg
  <2>1. q # p /\ Holds(q) /\ want'[q] = want[q]
    BY <1>2, <1>3, <1>4
  <2>2. want[q].got \in given /\ want[q].got[1] \notin DOMAIN heap.seg
    BY <1>1, <2>1
  <2>3. ASSUME Holds(p) PROVE want[q].got[1] # want[p].got[1]
    <3>1. want[p].got \in given /\ want[p].got # want[q].got
      BY <1>1, <2>1, <2>3
    <3>2. given \subseteq Arenas /\ \A a \in given : Mas <= a[2]
      BY DEF IInv
    <3>3. QED
      BY <2>2, <3>1, <3>2, Apartness
  <2>4. QED
    BY <2>1, <2>2, <2>3
<1>5. ASSUME NEW q \in Threads, NEW r \in Threads, Holds(q)', Holds(r)', q # r
      PROVE  want'[q].got # want'[r].got
  BY <1>1, <1>2, <1>3, <1>5
<1>6. QED
  BY <1>2, <1>4, <1>5 DEF Waiting

\* A header that is claimed gives its caller a block, a header that is
\* resized changes one, and nothing else about the headers matters to them.
LEMMA KnownAdd ==
  ASSUME NEW h, NEW k, NEW L, Known(h, L), NEW m \in InUse(k), m \in Nat, m \notin InUse(h),
         InUse(k) = InUse(h) \cup {m},
         \A x \in InUse(h) : k.seg[x].bytes_used = h.seg[x].bytes_used,
         NEW b \in [ptr : Nat, size : Sizes, al : Aligns],
         b.ptr = UsedAddr(m), b.size = k.seg[m].bytes_used
  PROVE  Known(k, L \cup {b}) /\ b \notin L
<1>1. b.ptr = m + Mas /\ b.ptr - Mas = m
  BY Widths DEF UsedAddr
<1>2. \A c \in L : c.ptr - Mas \in InUse(h) /\ c.ptr # b.ptr
  BY <1>1 DEF Known
<1>3. L \cup {b} \subseteq [ptr : Nat, size : Sizes, al : Aligns]
  BY DEF Known
<1>4. \A c \in L \cup {b} : c.ptr - Mas \in InUse(k) /\ k.seg[c.ptr - Mas].bytes_used = c.size
  BY <1>1, <1>2 DEF Known
<1>5. \A x \in InUse(k) : \E c \in L \cup {b} : c.ptr = UsedAddr(x)
  BY DEF Known
<1>6. \A c, d \in L \cup {b} : c.ptr = d.ptr => c = d
  BY <1>2 DEF Known
<1>7. QED
  BY <1>2, <1>3, <1>4, <1>5, <1>6 DEF Known

LEMMA KnownDrop ==
  ASSUME NEW h, NEW k, NEW L, Known(h, L), NEW b \in L, InUse(h) \subseteq Nat,
         InUse(k) = InUse(h) \ {b.ptr - Mas},
         \A x \in InUse(k) : k.seg[x].bytes_used = h.seg[x].bytes_used
  PROVE  Known(k, L \ {b})
<1>1. \A c \in L : c.ptr \in Nat
  BY DEF Known
<1>2. \A c \in L \ {b} : c.ptr - Mas # b.ptr - Mas
  BY <1>1, Widths DEF Known
<1>3. \A c \in L \ {b} : c.ptr - Mas \in InUse(k) /\ k.seg[c.ptr - Mas].bytes_used = c.size
  BY <1>2 DEF Known
<1>4. ASSUME NEW x \in InUse(k) PROVE \E c \in L \ {b} : c.ptr = UsedAddr(x)
  <2>1. PICK c \in L : c.ptr = UsedAddr(x)
    BY DEF Known
  <2>2. c.ptr - Mas = x /\ x # b.ptr - Mas
    BY <2>1, Widths DEF UsedAddr
  <2>3. QED
    BY <2>1, <2>2
<1>5. QED
  BY <1>3, <1>4 DEF Known

LEMMA KnownResize ==
  ASSUME NEW h, NEW k, NEW L, Known(h, L), NEW b \in L, NEW n \in Sizes,
         InUse(k) = InUse(h), k.seg[b.ptr - Mas].bytes_used = n,
         \A x \in InUse(h) : x # b.ptr - Mas => k.seg[x].bytes_used = h.seg[x].bytes_used
  PROVE  Known(k, (L \ {b}) \cup {[b EXCEPT !.size = n]})
<1>1. PICK c : c = [b EXCEPT !.size = n]
  OBVIOUS
<1>2. b \in [ptr : Nat, size : Sizes, al : Aligns] /\ b.ptr \in Nat
  BY DEF Known
<1>3. c \in [ptr : Nat, size : Sizes, al : Aligns] /\ c.ptr = b.ptr /\ c.size = n
  BY <1>1, <1>2
<1>4. \A d \in L \ {b} : d.ptr \in Nat /\ d.ptr # b.ptr /\ d.ptr - Mas # b.ptr - Mas
  BY <1>2, Widths DEF Known
<1>5. \A d \in (L \ {b}) \cup {c} : d.ptr - Mas \in InUse(k) /\ k.seg[d.ptr - Mas].bytes_used = d.size
  BY <1>3, <1>4 DEF Known
<1>6. \A x \in InUse(k) : \E d \in (L \ {b}) \cup {c} : d.ptr = UsedAddr(x)
  BY <1>3 DEF Known
<1>7. \A d, e \in (L \ {b}) \cup {c} : d.ptr = e.ptr => d = e
  BY <1>3, <1>4 DEF Known
<1>8. (L \ {b}) \cup {c} \subseteq [ptr : Nat, size : Sizes, al : Aligns]
  BY <1>3 DEF Known
<1>9. QED
  BY <1>1, <1>5, <1>6, <1>7, <1>8 DEF Known

LEMMA KnownSame ==
  ASSUME NEW h, NEW k, NEW L, Known(h, L), InUse(k) = InUse(h),
         \A x \in InUse(h) : k.seg[x].bytes_used = h.seg[x].bytes_used
  PROVE  Known(k, L)
BY DEF Known

\* One turn of the loop in allocate.
LEMMA TryStep ==
  ASSUME NoGaps, IInv, NEW p \in Threads, NEW sz \in Sizes, NEW al \in Aligns,
         NEW h, HeapInv(h, given), InUse(h) = InUse(heap), Known(h, live),
         TryAllocate(p, h, sz, al), UNCHANGED given,
         \A a \in given : a[1] \in DOMAIN h.seg =>
           a[1] \in DOMAIN heap.seg \/ (Holds(p) /\ a[1] = want[p].got[1])
  PROVE  IInv'
<1>1. given \in SUBSET Arenas /\ sz \in Nat
  BY RequestAssumption DEF IInv
<1>2. CASE HasRoom(h, sz, al)
  <2> DEFINE b == [ptr |-> AllocatedAt(h, sz, al), size |-> sz, al |-> al]
  <2>1. /\ heap' = AllocatedFrom(h, sz, al) /\ live' = live \cup {b}
        /\ want' = [want EXCEPT ![p] = NoRequest]
    BY <1>2 DEF TryAllocate
  <2>2. PICK m \in InUse(heap') :
          /\ HeapInv(heap', given) /\ AllocatedAt(h, sz, al) = UsedAddr(m)
          /\ m \notin InUse(h) /\ InUse(heap') = InUse(h) \cup {m}
          /\ heap'.seg[m].bytes_used = sz
          /\ \A x \in InUse(h) : heap'.seg[x].bytes_used = h.seg[x].bytes_used
          /\ \A a \in given : a[1] \in DOMAIN heap'.seg => a[1] \in DOMAIN h.seg
    BY <1>1, <1>2, <2>1, AllocateStep
  <2>3. Known(heap', live')
    <3>1. m \in Nat /\ UsedAddr(m) \in Nat
      BY <1>1, <2>2, HeaderFacts, Widths DEF InUse, UsedAddr
    <3>2. b \in [ptr : Nat, size : Sizes, al : Aligns] /\ b.ptr = UsedAddr(m) /\ b.size = sz
      BY <2>2, <3>1
    <3> HIDE DEF b
    <3>3. QED
      BY <2>1, <2>2, <3>1, <3>2, KnownAdd
  <2>4. Waiting'
    <3>1. NoRequest \in Requests \cup {NoRequest}
      OBVIOUS
    <3>2. QED
      BY <2>1, <2>2, <3>1, WaitingStep
  <2>5. HeapInv(heap', given') /\ InUse(heap)' = InUse(heap')
    BY <2>2 DEF InUse
  <2>6. given' \subseteq Arenas /\ \A a \in given' : Mas <= a[2]
    BY DEF IInv
  <2>7. QED
    BY <2>3, <2>4, <2>5, <2>6 DEF IInv
<1>3. CASE ~ HasRoom(h, sz, al)
  <2> DEFINE v == [sz |-> sz, al |-> al, got |-> <<>>]
  <2>1. heap' = h /\ live' = live /\ want' = [want EXCEPT ![p] = v]
    BY <1>3 DEF TryAllocate
  <2>2. v \in Requests \cup {NoRequest} /\ v.got = <<>>
    BY DEF Requests
  <2> HIDE DEF v
  <2>3. Waiting'
    BY <2>1, <2>2, WaitingStep
  <2>4. HeapInv(heap', given') /\ Known(heap', live')
    BY <2>1
  <2>5. given' \subseteq Arenas /\ \A a \in given' : Mas <= a[2]
    BY DEF IInv
  <2>6. QED
    BY <2>3, <2>4, <2>5 DEF IInv, InUse
<1>4. QED
  BY <1>2, <1>3

LEMMA InitInv == Init => IInv
<1> SUFFICES ASSUME Init PROVE IInv
  OBVIOUS
<1>1. /\ heap = [seg |-> <<>>, chain |-> <<>>, used |-> {}, free |-> <<>>]
      /\ given = {} /\ live = {} /\ want = [p \in Threads |-> NoRequest]
  BY DEF Init
<1>2. /\ heap.seg = <<>> /\ heap.chain = <<>> /\ heap.used = {} /\ heap.free = <<>>
      /\ Shape(heap) /\ DOMAIN heap.seg = {} /\ InUse(heap) = {}
  BY <1>1 DEF Shape, InUse
<1>3. <<>> \in Seq(Nat) /\ Len(<<>>) = 0 /\ DOMAIN <<>> = {} /\ 1 .. 0 = {}
  OBVIOUS
<1>4. IsList(<<>>) /\ Range(<<>>) = {}
  BY <1>3 DEF IsList, IsInjective, Range
<1>5. Layout(heap, given)
  <2>1. Ends(heap) \in [{} -> Nat] /\ Roots(heap) = {}
    BY <1>2 DEF Ends, Roots
  <2>2. Ordered({}, Ends(heap)) /\ Housed({}, Ends(heap), given) /\ Rooted({}, {}, given)
    BY <2>1 DEF Ordered, Housed, Rooted
  <2>3. Chained({}, Ends(heap), {}, <<>>, given)
    BY <1>3, <1>4 DEF Chained
  <2>4. QED
    BY <1>2, <2>1, <2>2, <2>3 DEF Layout, Tiling
<1>6. Headers(heap) /\ FreeList(heap) /\ Roomy(heap) /\ Listed(heap)
  BY <1>2, <1>4 DEF Headers, FreeList, Roomy, Listed
<1>7. Waiting /\ Known(heap, live)
  BY <1>1, <1>2 DEF Waiting, Holds, Known
<1>8. QED
  BY <1>1, <1>2, <1>5, <1>6, <1>7 DEF IInv, HeapInv

\* The pointer that is freed or resized is that of a header in use.
LEMMA PointerIs ==
  ASSUME IInv, NEW b \in live
  PROVE  /\ b.ptr \in Nat /\ b.ptr - Mas \in InUse(heap) /\ b.ptr = UsedAddr(b.ptr - Mas)
         /\ heap.seg[b.ptr - Mas].bytes_used = b.size
<1>1. /\ b.ptr \in Nat /\ b.ptr - Mas \in InUse(heap)
      /\ heap.seg[b.ptr - Mas].bytes_used = b.size
  BY DEF IInv, Known
<1>2. QED
  BY <1>1, Widths DEF UsedAddr

LEMMA HeapMallocInv ==
  ASSUME IInv, NEW p \in Threads, HeapMalloc(p) PROVE IInv'
<1>1. PICK a \in Arenas \ given :
        /\ want[p] # NoRequest /\ a[2] >= RequestSize(want[p].sz, want[p].al)
        /\ given' = given \cup {a} /\ want' = [want EXCEPT ![p].got = a]
        /\ heap' = heap /\ live' = live
  BY DEF HeapMalloc, Asking
<1>2. /\ HeapInv(heap, given) /\ given \in SUBSET Arenas /\ \A b \in given : Mas <= b[2]
      /\ Known(heap, live)
      /\ want \in [Threads -> Requests \cup {NoRequest}]
      /\ \A q \in Threads : Holds(q) =>
           want[q].got \in given /\ want[q].got[1] \notin DOMAIN heap.seg
      /\ \A q, r \in Threads : Holds(q) /\ Holds(r) /\ q # r => want[q].got # want[r].got
  BY DEF IInv, Waiting
<1>3. want[p] \in Requests
  BY <1>1, <1>2
<1>4. Mas <= a[2] /\ a[2] > 0
  <2>1. want[p].sz \in Nat /\ want[p].al \in Nat \ {0} /\ a[2] \in Nat
    BY <1>1, <1>3, RequestAssumption, ArenaAssumption, ArenaNumbers DEF Requests
  <2>2. PICK n \in Nat : n = Mas + want[p].sz
    BY <2>1, Widths
  <2>3. n <= AlignUp(n, want[p].al) /\ AlignUp(n, want[p].al) \in Nat
    BY <2>1, AlignBounds
  <2>4. a[2] >= AlignUp(n, want[p].al)
    BY <1>1, <2>2 DEF RequestSize
  <2>5. QED
    BY <2>1, <2>2, <2>3, <2>4, Widths
<1>5. /\ a[1] \notin DOMAIN heap.seg
      /\ Tiling(DOMAIN heap.seg, Ends(heap), Roots(heap), heap.chain, given \cup {a})
  <2>1. Tiling(DOMAIN heap.seg, Ends(heap), Roots(heap), heap.chain, given)
    BY <1>2 DEF HeapInv, Layout
  <2>2. QED
    BY <1>1, <1>2, <1>4, <2>1, TileObtain
<1>6. HeapInv(heap', given')
  BY <1>1, <1>2, <1>5 DEF HeapInv, Layout
<1>7. PICK w : w = [want[p] EXCEPT !.got = a]
  OBVIOUS
<1>8. w \in Requests /\ w.got = a
  BY <1>3, <1>7 DEF Requests
<1>9. /\ want' \in [Threads -> Requests \cup {NoRequest}] /\ want'[p] = w
      /\ \A q \in Threads : q # p => want'[q] = want[q]
  BY <1>1, <1>2, <1>7, <1>8
<1>10. \A q \in Threads : Holds(q)' /\ q # p => Holds(q)
  BY <1>9 DEF Holds
<1>11. \A q \in Threads : Holds(q)' =>
         want'[q].got \in given' /\ want'[q].got[1] \notin DOMAIN heap'.seg
  BY <1>1, <1>2, <1>5, <1>8, <1>9, <1>10
<1>12. \A q, r \in Threads : Holds(q)' /\ Holds(r)' /\ q # r => want'[q].got # want'[r].got
  BY <1>1, <1>2, <1>8, <1>9, <1>10
<1>13. Waiting'
  BY <1>9, <1>11, <1>12 DEF Waiting
<1>14. Known(heap', live')
  BY <1>1, <1>2
<1>15. given' \subseteq Arenas /\ \A b \in given' : Mas <= b[2]
  BY <1>1, <1>2, <1>4
<1>16. QED
  BY <1>6, <1>13, <1>14, <1>15 DEF IInv, InUse

\* The heap changes under threads that wait, and keeps out of what they hold.
LEMMA HeapOnlyInv ==
  ASSUME IInv, HeapInv(heap', given), DOMAIN heap'.seg \subseteq DOMAIN heap.seg,
         Known(heap', live'), UNCHANGED <<given, want>>
  PROVE  IInv'
<1>1. Waiting'
  BY DEF IInv, Waiting, Holds
<1>2. QED
  BY <1>1 DEF IInv, InUse

LEMMA FreeInv == ASSUME ArenasFit, IInv, Free PROVE IInv'
<1>1. PICK b \in live : heap' = Freed(heap, b.ptr) /\ live' = live \ {b} /\ UNCHANGED <<given, want>>
  BY DEF Free
<1>2. PICK m \in InUse(heap) : m = b.ptr - Mas
  BY PointerIs
<1>3. HeapInv(heap, given) /\ given \in SUBSET Arenas /\ Known(heap, live)
  BY DEF IInv
<1>4. /\ HeapInv(heap', given) /\ DOMAIN heap'.seg \subseteq DOMAIN heap.seg
      /\ InUse(heap') = InUse(heap) \ {m}
      /\ \A x \in InUse(heap') : heap'.seg[x].bytes_used = heap.seg[x].bytes_used
  <2>1. FreedOf(heap, given, b.ptr - Mas, Freed(heap, b.ptr))
    BY <1>2, <1>3, FreedStep
  <2>2. FreedOf(heap, given, m, heap')
    BY <1>1, <1>2, <2>1
  <2>3. QED
    BY <2>2 DEF FreedOf
<1>5. InUse(heap) \subseteq Nat
  BY <1>3, HeaderFacts DEF InUse
<1>6. Known(heap', live')
  BY <1>1, <1>2, <1>3, <1>4, <1>5, KnownDrop
<1>7. QED
  BY <1>1, <1>4, <1>6, HeapOnlyInv

LEMMA ResizeInv == ASSUME ArenasFit, IInv, Resize PROVE IInv'
<1>1. PICK b \in live, n \in Sizes :
        /\ CanResize(heap, b.ptr, n) /\ heap' = Resized(heap, b.ptr, n)
        /\ live' = (live \ {b}) \cup {[b EXCEPT !.size = n]}
        /\ UNCHANGED <<given, want>>
  BY DEF Resize
<1>2. PICK m \in InUse(heap) : m = b.ptr - Mas
  BY PointerIs
<1>3. /\ HeapInv(heap, given) /\ given \in SUBSET Arenas /\ n \in Nat
      /\ Known(heap, live) /\ m \in DOMAIN heap.seg /\ heap.seg[m].used
  BY RequestAssumption DEF IInv, InUse
<1>4. /\ HeapInv(heap', given) /\ DOMAIN heap'.seg = DOMAIN heap.seg /\ heap'.seg[m].used
      /\ heap'.seg[m].bytes_used = n
      /\ \A x \in DOMAIN heap.seg : x # m => heap'.seg[x] = heap.seg[x]
  BY <1>1, <1>2, <1>3, ResizeStep
<1>5. InUse(heap') = InUse(heap)
  BY <1>3, <1>4 DEF InUse
<1>6. \A x \in InUse(heap) : x # m => heap'.seg[x].bytes_used = heap.seg[x].bytes_used
  BY <1>4 DEF InUse
<1>7. Known(heap', live')
  BY <1>1, <1>2, <1>3, <1>4, <1>5, <1>6, KnownResize
<1>8. QED
  BY <1>1, <1>4, <1>7, HeapOnlyInv

\* What allocate links is what the thread holds.
LEMMA LinkedArena ==
  ASSUME ArenasFit, IInv, NEW p \in Threads, Holds(p),
         NEW h, h = WithArena(heap, want[p].got[1], want[p].got[2])
  PROVE  /\ HeapInv(h, given) /\ InUse(h) = InUse(heap) /\ Known(h, live)
         /\ \A x \in InUse(heap) : h.seg[x] = heap.seg[x]
         /\ \A a \in given : a[1] \in DOMAIN h.seg =>
              a[1] \in DOMAIN heap.seg \/ (Holds(p) /\ a[1] = want[p].got[1])
<1>1. PICK a \in given : a = want[p].got
  BY DEF IInv, Waiting
<1>2. /\ HeapInv(heap, given) /\ given \in SUBSET Arenas /\ Mas <= a[2]
      /\ a[1] \notin DOMAIN heap.seg /\ h = WithArena(heap, a[1], a[2])
  BY <1>1 DEF IInv, Waiting
<1>3. /\ HeapInv(h, given) /\ DOMAIN h.seg = DOMAIN heap.seg \cup {a[1]} /\ ~ h.seg[a[1]].used
      /\ \A x \in DOMAIN heap.seg : h.seg[x] = heap.seg[x]
  BY <1>2, ArenaStep
<1>4. InUse(h) = InUse(heap)
  BY <1>2, <1>3 DEF InUse
<1>5. \A x \in InUse(heap) : h.seg[x] = heap.seg[x]
  BY <1>3 DEF InUse
<1>6. Known(h, live)
  BY <1>4, <1>5, KnownSame DEF IInv
<1>7. QED
  BY <1>1, <1>3, <1>4, <1>5, <1>6

LEMMA StepInv ==
  ASSUME ArenasFit, NoGaps PROVE IInv /\ [Next]_vars => IInv'
<1> SUFFICES ASSUME IInv, [Next]_vars PROVE IInv'
  OBVIOUS
<1>1. ASSUME NEW p \in Threads, Allocate(p) PROVE IInv'
  <2>1. PICK sz \in Sizes, al \in Aligns : TryAllocate(p, heap, sz, al) /\ UNCHANGED given
    BY <1>1 DEF Allocate
  <2>2. HeapInv(heap, given) /\ InUse(heap) = InUse(heap) /\ Known(heap, live)
    BY DEF IInv
  <2>3. QED
    BY <2>1, <2>2, TryStep
<1>2. ASSUME NEW p \in Threads, HeapMalloc(p) PROVE IInv'
  BY <1>2, HeapMallocInv
<1>3. ASSUME NEW p \in Threads, HeapMallocFails(p) PROVE IInv'
  <2>1. want' = [want EXCEPT ![p] = NoRequest] /\ UNCHANGED <<heap, given, live>>
    BY <1>3 DEF HeapMallocFails
  <2>2. NoRequest \in Requests \cup {NoRequest}
    OBVIOUS
  <2>3. Waiting'
    BY <2>1, <2>2, WaitingStep
  <2>4. QED
    BY <2>1, <2>3 DEF IInv, InUse
<1>4. ASSUME NEW p \in Threads, AllocateAgain(p) PROVE IInv'
  <2>1. PICK h : h = WithArena(heap, want[p].got[1], want[p].got[2])
    OBVIOUS
  <2>2. /\ Holds(p) /\ UNCHANGED given
        /\ TryAllocate(p, h, want[p].sz, want[p].al)
    BY <1>4, <2>1 DEF AllocateAgain, Holds
  <2>3. want[p] \in Requests
    BY <2>2 DEF IInv, Waiting, Holds
  <2>4. PICK sz \in Sizes, al \in Aligns : sz = want[p].sz /\ al = want[p].al
    BY <2>3 DEF Requests
  <2>5. /\ HeapInv(h, given) /\ InUse(h) = InUse(heap) /\ Known(h, live)
        /\ \A a \in given : a[1] \in DOMAIN h.seg =>
             a[1] \in DOMAIN heap.seg \/ (Holds(p) /\ a[1] = want[p].got[1])
    BY <2>1, <2>2, LinkedArena
  <2>6. TryAllocate(p, h, sz, al)
    BY <2>2, <2>4
  <2>7. QED
    BY <2>2, <2>5, <2>6, TryStep
<1>5. CASE Free
  BY <1>5, FreeInv
<1>6. CASE Resize
  BY <1>6, ResizeInv
<1>7. CASE UNCHANGED vars
  BY <1>7 DEF vars, IInv, Waiting, Holds, InUse
<1>8. QED
  BY <1>1, <1>2, <1>3, <1>4, <1>5, <1>6, <1>7 DEF Next

-----------------------------------------------------------------------------
(* What the runs check, for every state and every step.                    *)

THEOREM Inductive == ASSUME ArenasFit, NoGaps PROVE Spec => []IInv
<1>1. Init => IInv
  BY InitInv
<1>2. IInv /\ [Next]_vars => IInv'
  BY StepInv
<1>3. QED
  BY <1>1, <1>2, PTL DEF Spec

LEMMA TypeFollows == IInv => TypeOK
<1> SUFFICES ASSUME IInv PROVE TypeOK
  OBVIOUS
<1>1. \A m \in DOMAIN heap.seg : heap.seg[m] \in Segment
  BY DEF IInv, HeapInv, Headers
<1>2. IsInjective(heap.chain) /\ Range(heap.chain) = DOMAIN heap.seg
  BY DEF IInv, HeapInv, Layout, Tiling, Chained, IsList
<1>3. IsInjective(heap.free) /\ Range(heap.free) \subseteq DOMAIN heap.seg
  BY DEF IInv, HeapInv, FreeList, IsList
<1>4. /\ heap.used \subseteq DOMAIN heap.seg /\ given \subseteq Arenas
      /\ live \subseteq [ptr : Nat, size : Sizes, al : Aligns]
  BY DEF IInv, HeapInv, Headers, Known
<1>5. \A p \in Threads : want[p] = NoRequest \/ want[p] \in Requests
  BY DEF IInv, Waiting
<1>6. QED
  BY <1>1, <1>2, <1>3, <1>4, <1>5 DEF TypeOK

\* The chain of the heap, position by position.
LEMMA ChainFacts ==
  ASSUME IInv
  PROVE  /\ heap.chain \in Seq(Nat) /\ DOMAIN heap.chain = 1 .. Len(heap.chain)
         /\ Len(heap.chain) \in Nat
         /\ \A i \in 1 .. Len(heap.chain) :
              /\ heap.chain[i] \in DOMAIN heap.seg
              /\ Ends(heap)[heap.chain[i]] = SpanEnd(heap, heap.chain[i])
              /\ Follows(DOMAIN heap.seg, Ends(heap), Roots(heap), heap.chain, given, i)
         /\ \A x \in DOMAIN heap.seg : \E i \in 1 .. Len(heap.chain) : heap.chain[i] = x
<1>1. Chained(DOMAIN heap.seg, Ends(heap), Roots(heap), heap.chain, given)
  BY DEF IInv, HeapInv, Layout, Tiling
<1>2. QED
  BY <1>1, ListFacts DEF Chained, Ends

\* The headers of each arena cover it without a gap, in the order of the
\* chain, through every split, merge and resize (pred_merge: "Non-root spans
\* must always connect with their predecessor").
LEMMA TiledFollows == IInv => Tiled
<1> SUFFICES ASSUME IInv PROVE Tiled
  OBVIOUS
<1> DEFINE c == heap.chain  D == DOMAIN heap.seg
<1>1. /\ DOMAIN c = 1 .. Len(c) /\ Len(c) \in Nat
      /\ \A i \in 1 .. Len(c) :
           /\ c[i] \in D /\ Ends(heap)[c[i]] = SpanEnd(heap, c[i])
           /\ Follows(D, Ends(heap), Roots(heap), c, given, i)
  BY ChainFacts
<1>2. \A x \in D : x \in Roots(heap) <=> heap.seg[x].root
  BY DEF Roots
<1>3. Connected
  <2> SUFFICES ASSUME NEW i \in 1 .. Len(c), ~ heap.seg[c[i]].root
               PROVE  i > 1 /\ SpanEnd(heap, c[i - 1]) = c[i]
    BY <1>1 DEF Connected
  <2>1. c[i] \in D /\ c[i] \notin Roots(heap)
    BY <1>1, <1>2
  <2>2. i # 1
    BY <1>1, <2>1 DEF Follows
  <2>3. i - 1 \in 1 .. Len(c) /\ (i - 1) + 1 = i /\ i - 1 # Len(c) /\ i > 1
    BY <1>1, <2>2
  <2>4. Follows(D, Ends(heap), Roots(heap), c, given, i - 1)
    BY <1>1, <2>3
  <2>5. c[i] = Ends(heap)[c[i - 1]]
    BY <2>1, <2>3, <2>4 DEF Follows
  <2>6. QED
    BY <1>1, <2>3, <2>5
<1>4. ASSUME NEW i \in 1 .. Len(c), heap.seg[c[i]].root PROVE \E a \in Linked : a[1] = c[i]
  <2>1. Rooted(D, Roots(heap), given) /\ c[i] \in Roots(heap) /\ c[i] \in D
    BY <1>1, <1>2, <1>4 DEF IInv, HeapInv, Layout, Tiling
  <2>2. QED
    BY <2>1 DEF Rooted, Linked
<1>5. ASSUME NEW i \in 1 .. Len(c), i = Len(c) \/ heap.seg[c[i + 1]].root
      PROVE  \E a \in Linked : SpanEnd(heap, c[i]) = a[1] + a[2]
  <2>1. i = Len(c) \/ c[i + 1] \in Roots(heap)
    <3>1. CASE i = Len(c)
      BY <3>1
    <3>2. CASE i # Len(c)
      <4>1. i + 1 \in 1 .. Len(c)
        BY <1>1, <3>2
      <4>2. QED
        BY <1>1, <1>2, <1>5, <3>2, <4>1
    <3>3. QED
      BY <3>1, <3>2
  <2>2. \E a \in given : a[1] \in D /\ Ends(heap)[c[i]] = a[1] + a[2]
    BY <1>1, <2>1 DEF Follows
  <2>3. QED
    BY <1>1, <2>2 DEF Linked
<1>6. QED
  BY <1>1, <1>3, <1>4, <1>5, TypeFollows DEF Tiled

THEOREM TiledHolds == ASSUME ArenasFit, NoGaps PROVE Spec => []Tiled
<1>1. IInv => Tiled
  BY TiledFollows
<1>2. Spec => []IInv
  BY Inductive
<1>3. QED
  BY <1>1, <1>2, PTL

\* When everything has been freed, in whatever order, every arena is one free
\* header again and on the free list: free() found a predecessor for each
\* header it merged.
LEMMA OnePieceFollows == IInv => OnePieceAgain
<1> SUFFICES ASSUME IInv, live = {} PROVE /\ DOMAIN heap.seg = {a[1] : a \in Linked}
                                         /\ \A a \in Linked : /\ SpanEnd(heap, a[1]) = a[1] + a[2]
                                                              /\ a[1] \in Range(heap.free)
  BY DEF OnePieceAgain
<1> DEFINE D == DOMAIN heap.seg  E == Ends(heap)
<1>1. /\ HeapInv(heap, given) /\ given \in SUBSET Arenas /\ \A a \in given : Mas <= a[2]
      /\ Tiling(D, E, Roots(heap), heap.chain, given)
  BY DEF IInv, HeapInv, Layout
<1>2. InUse(heap) = {}
  BY DEF IInv, Known
<1>3. \A x \in D : ~ heap.seg[x].used /\ heap.seg[x].root /\ x \in Roots(heap)
  BY <1>1, <1>2 DEF HeapInv, Headers, InUse, Roots
<1>4. D = {a[1] : a \in Linked}
  BY <1>1, <1>3 DEF Tiling, Rooted, Linked
<1>5. ASSUME NEW a \in Linked PROVE SpanEnd(heap, a[1]) = a[1] + a[2]
  <2>1. PICK r : r = a[1]
    OBVIOUS
  <2>2. a \in given /\ r \in D
    BY <2>1 DEF Linked
  <2>3. PICK i \in 1 .. Len(heap.chain) : heap.chain[i] = r
    BY <2>2, ChainFacts
  <2>4. /\ Follows(D, E, Roots(heap), heap.chain, given, i) /\ E[r] = SpanEnd(heap, r)
        /\ i = Len(heap.chain) \/ heap.chain[i + 1] \in Roots(heap)
    <3>1. i # Len(heap.chain) => i + 1 \in 1 .. Len(heap.chain)
      BY ChainFacts
    <3>2. QED
      BY <1>3, <2>3, <3>1, ChainFacts
  <2>5. PICK b \in given : b[1] \in D /\ E[r] = b[1] + b[2]
    BY <2>3, <2>4 DEF Follows
  <2>6. a[1] \in Nat /\ a[2] \in Nat /\ b[1] \in Nat /\ b[2] \in Nat /\ Mas <= b[2]
    BY <1>1, <2>2, ArenaNumbers
  <2>7. a = b \/ a[1] + a[2] <= b[1] \/ b[1] + b[2] <= a[1]
    BY <1>1, <2>2, ArenaNumbers
  <2>8. r < E[r] /\ (r < b[1] => E[r] <= b[1])
    BY <1>1, <2>2, <2>5 DEF Tiling, Ordered
  <2>9. a = b
    <3>1. CASE a[1] + a[2] <= b[1]
      <4>1. Mas <= a[2] /\ Mas \in Nat /\ 0 < Mas
        BY <1>1, <2>2, Widths
      <4>2. r < b[1]
        BY <2>1, <2>6, <3>1, <4>1
      <4>3. b[1] + b[2] <= b[1]
        BY <2>5, <2>8, <4>2
      <4>4. QED
        BY <2>6, <4>1, <4>3
    <3>2. CASE b[1] + b[2] <= a[1]
      BY <2>1, <2>5, <2>6, <2>8, <3>2
    <3>3. QED
      BY <2>7, <3>1, <3>2
  <2>10. QED
    BY <2>1, <2>4, <2>5, <2>9
<1>6. ASSUME NEW a \in Linked PROVE a[1] \in Range(heap.free)
  <2>1. a[1] \in D
    BY DEF Linked
  <2>2. QED
    BY <1>1, <1>3, <2>1 DEF HeapInv, Listed
<1>7. QED
  BY <1>4, <1>5, <1>6

THEOREM OnePieceAgainHolds == ASSUME ArenasFit, NoGaps PROVE Spec => []OnePieceAgain
<1>1. IInv => OnePieceAgain
  BY OnePieceFollows
<1>2. Spec => []IInv
  BY Inductive
<1>3. QED
  BY <1>1, <1>2, PTL

\* Free space with room for an allocation is always on the free list: the
\* five places that link and unlink headers agree.
THEOREM NothingForgottenHolds == ASSUME ArenasFit, NoGaps PROVE Spec => []NothingForgotten
<1>1. IInv => NothingForgotten
  <2> SUFFICES ASSUME IInv, NEW m \in DOMAIN heap.seg, heap.seg[m].bytes_free > Mas
               PROVE  m \in Range(heap.free)
    BY DEF NothingForgotten
  <2>1. heap.seg[m].bytes_free \in Nat
    BY HeaderFacts DEF IInv
  <2>2. WantsFree(heap.seg[m])
    BY <2>1, Widths DEF WantsFree
  <2>3. QED
    BY <2>2 DEF IInv, HeapInv, Listed
<1>2. Spec => []IInv
  BY Inductive
<1>3. QED
  BY <1>1, <1>2, PTL

-----------------------------------------------------------------------------
(* The heap keeps what an allocator promises.                              *)

\* What the caller of allocate knows of header m.
BlockOf(h, m) == [ptr |-> UsedAddr(m), size |-> h.seg[m].bytes_used]

\* Allocations lie within an arena and never overlap.
LEMMA BlocksApart ==
  ASSUME NEW h, NEW g \in SUBSET Arenas, HeapInv(h, g), NEW m \in InUse(h)
  PROVE  /\ \E a \in g : Promise!Inside(BlockOf(h, m), a)
         /\ \A x \in InUse(h) : x # m =>
              /\ Promise!Apart(BlockOf(h, m), BlockOf(h, x))
              /\ BlockOf(h, m).ptr # BlockOf(h, x).ptr
<1> DEFINE D == DOMAIN h.seg  E == Ends(h)  Stop(x) == x + Mas + h.seg[x].bytes_used
<1>1. Ordered(D, E) /\ Housed(D, E, g) /\ m \in D
  BY DEF HeapInv, Layout, Tiling, InUse
<1>2. ASSUME NEW x \in InUse(h)
      PROVE  /\ x \in D /\ x \in Nat /\ Stop(x) \in Nat /\ E[x] \in Nat /\ Stop(x) <= E[x]
             /\ BlockOf(h, x).ptr = x + Mas
             /\ BlockOf(h, x).ptr + BlockOf(h, x).size = Stop(x)
  <2>1. /\ x \in D /\ x \in Nat /\ h.seg[x].bytes_used \in Nat /\ h.seg[x].bytes_free \in Nat
        /\ E[x] = x + (Mas + h.seg[x].bytes_used + h.seg[x].bytes_free)
    BY HeaderFacts DEF InUse
  <2>2. BlockOf(h, x).ptr = x + Mas /\ BlockOf(h, x).size = h.seg[x].bytes_used
    BY DEF BlockOf, UsedAddr
  <2>3. QED
    BY <2>1, <2>2, Widths
<1> HIDE DEF Stop
<1>3. \E a \in g : Promise!Inside(BlockOf(h, m), a)
  <2>1. PICK a \in g : a[1] <= m /\ E[m] <= a[1] + a[2]
    BY <1>1 DEF Housed
  <2>2. a[1] \in Nat /\ a[2] \in Nat
    BY ArenaNumbers
  <2>3. a[1] <= BlockOf(h, m).ptr /\ BlockOf(h, m).ptr + BlockOf(h, m).size <= a[1] + a[2]
    BY <1>2, <2>1, <2>2, Widths
  <2>4. QED
    BY <2>3 DEF Promise!Inside
<1>4. ASSUME NEW x \in InUse(h), x # m
      PROVE  /\ Promise!Apart(BlockOf(h, m), BlockOf(h, x))
             /\ BlockOf(h, m).ptr # BlockOf(h, x).ptr
  <2>1. /\ x \in Nat /\ m \in Nat /\ x \in D /\ m \in D
        /\ Stop(x) <= E[x] /\ Stop(m) <= E[m] /\ Stop(x) \in Nat /\ Stop(m) \in Nat
        /\ E[x] \in Nat /\ E[m] \in Nat
    BY <1>2
  <2>2. x < m => E[x] <= m
    BY <1>1, <2>1 DEF Ordered
  <2>3. m < x => E[m] <= x
    BY <1>1, <2>1 DEF Ordered
  <2>4. Stop(m) <= x + Mas \/ Stop(x) <= m + Mas
    BY <1>4, <2>1, <2>2, <2>3, Widths
  <2>5. Promise!Apart(BlockOf(h, m), BlockOf(h, x))
    BY <1>2, <2>4 DEF Promise!Apart
  <2>6. m + Mas # x + Mas
    BY <1>4, <2>1, Widths
  <2>7. QED
    BY <1>2, <2>5, <2>6
<1>5. QED
  BY <1>3, <1>4

\* And so are the blocks of the callers.
LEMMA KnownApart ==
  ASSUME NEW h, NEW g \in SUBSET Arenas, HeapInv(h, g), NEW L, Known(h, L), NEW b \in L
  PROVE  /\ \E a \in g : Promise!Inside(b, a)
         /\ \A c \in L : c # b => Promise!Apart(b, c) /\ b.ptr # c.ptr
<1>1. \A c \in L : c.ptr - Mas \in InUse(h) /\ c.ptr \in Nat
                   /\ BlockOf(h, c.ptr - Mas).ptr = c.ptr /\ BlockOf(h, c.ptr - Mas).size = c.size
  BY Widths DEF Known, BlockOf, UsedAddr
<1>2. PICK m \in InUse(h) : m = b.ptr - Mas /\ BlockOf(h, m).ptr = b.ptr /\ BlockOf(h, m).size = b.size
  BY <1>1
<1>3. \E a \in g : Promise!Inside(b, a)
  BY <1>2, BlocksApart DEF Promise!Inside
<1>4. ASSUME NEW c \in L, c # b PROVE Promise!Apart(b, c) /\ b.ptr # c.ptr
  <2>1. PICK x \in InUse(h) : x = c.ptr - Mas /\ BlockOf(h, x).ptr = c.ptr /\ BlockOf(h, x).size = c.size
    BY <1>1
  <2>2. b.ptr # c.ptr
    BY <1>4 DEF Known
  <2>3. x # m
    BY <1>2, <2>1, <2>2
  <2>4. QED
    BY <1>2, <2>1, <2>2, <2>3, BlocksApart DEF Promise!Apart
<1>5. QED
  BY <1>3, <1>4

LEMMA TryRefines ==
  ASSUME NoGaps, IInv, IInv', NEW p \in Threads, NEW sz \in Sizes, NEW al \in Aligns,
         NEW h, HeapInv(h, given), Known(h, live),
         TryAllocate(p, h, sz, al), UNCHANGED given
  PROVE  Promise!Allocate \/ UNCHANGED <<live, given>>
<1>1. given \in SUBSET Arenas /\ sz \in Nat
  BY RequestAssumption DEF IInv
<1>2. CASE HasRoom(h, sz, al)
  <2> DEFINE b == [ptr |-> AllocatedAt(h, sz, al), size |-> sz, al |-> al]
  <2>1. PICK k : k = AllocatedFrom(h, sz, al) /\ heap' = k
    BY <1>2 DEF TryAllocate
  <2>2. live' = live \cup {b}
    BY <1>2 DEF TryAllocate
  <2>3. PICK m \in InUse(k) : UsedAddr(m) % al = 0 /\ m \notin InUse(h) /\ b.ptr = UsedAddr(m) /\ m \in Nat
    BY <1>1, <1>2, <2>1, AllocateStep, HeaderFacts DEF InUse
  <2>4. b.ptr % al = 0 /\ b.size = sz /\ b.al = al
    BY <2>3
  <2> HIDE DEF b
  <2>5. b \notin live
    <3>1. b.ptr - Mas = m
      BY <2>3, Widths DEF UsedAddr
    <3>2. QED
      BY <2>3, <3>1 DEF Known
  <2>6. HeapInv(heap', given) /\ Known(heap', live') /\ b \in live' /\ live' \ {b} = live
    BY <2>2, <2>5 DEF IInv
  <2>7. Promise!CanHold(live, b)
    <3>1. /\ \E a \in given : Promise!Inside(b, a)
          /\ \A c \in live' : c # b => Promise!Apart(b, c) /\ b.ptr # c.ptr
      BY <1>1, <2>6, KnownApart
    <3>2. \A c \in live : c \in live' /\ c # b
      BY <2>2, <2>5
    <3>3. QED
      BY <3>1, <3>2 DEF Promise!CanHold
  <2>8. b \in live' \ live /\ b.size \in Sizes /\ b.al \in Aligns /\ b.ptr % b.al = 0
    BY <2>4, <2>5, <2>6
  <2>9. Promise!Allocate
    BY <2>2, <2>7, <2>8 DEF Promise!Allocate
  <2>10. QED
    BY <2>9
<1>3. CASE ~ HasRoom(h, sz, al)
  BY <1>3 DEF TryAllocate
<1>4. QED
  BY <1>2, <1>3

LEMMA ResizeRefines == ASSUME ArenasFit, IInv, IInv', Resize PROVE Promise!Resize
<1>1. PICK b \in live, n \in Sizes :
        live' = (live \ {b}) \cup {[b EXCEPT !.size = n]} /\ UNCHANGED given
  BY DEF Resize
<1>2. PICK c : c = [b EXCEPT !.size = n]
  OBVIOUS
<1>3. given \in SUBSET Arenas /\ HeapInv(heap', given) /\ Known(heap', live') /\ c \in live'
  BY <1>1, <1>2 DEF IInv
<1>4. c.ptr = b.ptr /\ \A d \in live \ {b} : d.ptr # c.ptr
  <2>1. b \in [ptr : Nat, size : Sizes, al : Aligns]
    BY DEF IInv, Known
  <2>2. c.ptr = b.ptr
    BY <1>2, <2>1
  <2>3. QED
    BY <2>2 DEF IInv, Known
<1>5. Promise!CanHold(live \ {b}, c)
  <2>1. /\ \E a \in given : Promise!Inside(c, a)
        /\ \A d \in live' : d # c => Promise!Apart(c, d) /\ c.ptr # d.ptr
    BY <1>3, KnownApart
  <2>2. \A d \in live \ {b} : d \in live' /\ d # c
    BY <1>1, <1>4
  <2>3. QED
    BY <2>1, <2>2 DEF Promise!CanHold
<1>6. QED
  BY <1>1, <1>2, <1>5 DEF Promise!Resize

LEMMA StepRefines ==
  ASSUME ArenasFit, NoGaps
  PROVE  IInv /\ IInv' /\ [Next]_vars => [Promise!Next]_<<live, given>>
<1> SUFFICES ASSUME IInv, IInv', [Next]_vars PROVE Promise!Next \/ UNCHANGED <<live, given>>
  OBVIOUS
<1>1. ASSUME NEW p \in Threads, Allocate(p) PROVE Promise!Allocate \/ UNCHANGED <<live, given>>
  <2>1. PICK sz \in Sizes, al \in Aligns : TryAllocate(p, heap, sz, al) /\ UNCHANGED given
    BY <1>1 DEF Allocate
  <2>2. HeapInv(heap, given) /\ Known(heap, live)
    BY DEF IInv
  <2>3. QED
    BY <2>1, <2>2, TryRefines
<1>2. ASSUME NEW p \in Threads, HeapMalloc(p) PROVE Promise!Obtain
  BY <1>2 DEF HeapMalloc, Promise!Obtain
<1>3. ASSUME NEW p \in Threads, HeapMallocFails(p) PROVE UNCHANGED <<live, given>>
  BY <1>3 DEF HeapMallocFails
<1>4. ASSUME NEW p \in Threads, AllocateAgain(p) PROVE Promise!Allocate \/ UNCHANGED <<live, given>>
  <2>1. PICK h : h = WithArena(heap, want[p].got[1], want[p].got[2])
    OBVIOUS
  <2>2. /\ Holds(p) /\ UNCHANGED given
        /\ TryAllocate(p, h, want[p].sz, want[p].al)
    BY <1>4, <2>1 DEF AllocateAgain, Holds
  <2>3. want[p] \in Requests
    BY <2>2 DEF IInv, Waiting, Holds
  <2>4. PICK sz \in Sizes, al \in Aligns : sz = want[p].sz /\ al = want[p].al
    BY <2>3 DEF Requests
  <2>5. HeapInv(h, given) /\ Known(h, live)
    BY <2>1, <2>2, LinkedArena
  <2>6. TryAllocate(p, h, sz, al)
    BY <2>2, <2>4
  <2>7. QED
    BY <2>2, <2>5, <2>6, TryRefines
<1>5. ASSUME Free PROVE Promise!Free
  BY <1>5 DEF Free, Promise!Free
<1>6. CASE Resize
  BY <1>6, ResizeRefines DEF Promise!Next
<1>7. CASE UNCHANGED vars
  BY <1>7 DEF vars
<1>8. QED
  BY <1>1, <1>2, <1>3, <1>4, <1>5, <1>6, <1>7 DEF Next, Promise!Next

\* For a program that allocates, frees and resizes from any number of threads
\* every block lies within memory obtained, starts at a multiple of the very
\* alignment its call asked for, has room for the size it was last given, and
\* is clear of all the others.
THEOREM RefinesAllocator == ASSUME ArenasFit, NoGaps PROVE Spec => ImplementsAllocator
<1>1. Init => Promise!Init
  BY DEF Init, Promise!Init
<1>2. IInv /\ IInv' /\ [Next]_vars => [Promise!Next]_<<live, given>>
  BY StepRefines
<1>3. Spec => []IInv
  BY Inductive
<1>4. QED
  BY <1>1, <1>2, <1>3, PTL DEF Spec, ImplementsAllocator, Promise!Spec, Promise!absVars
=============================================================================
