----------------------------- MODULE DataLemmas -----------------------------
(***************************************************************************)
(* Facts about numbers, sequences and bytes that several proofs rest on.   *)
(*                                                                         *)
(* What is defined by recursion over numbers is a function that some step  *)
(* after step makes (StepByStep); what holds of it is shown by induction   *)
(* up to a number (UpTo).  Where t is in data is Has(data, i, t).  Len is  *)
(* hidden behind Size, so that lengths are numbers to the provers.         *)
(***************************************************************************)
EXTENDS ByteStrings, SequenceTheorems, WellFoundedInduction, TLAPS

----------------------------------------------------------------------------
(* Numbers.                                                                *)

\* A set of numbers has a least one.
LEMMA LeastExists ==
  ASSUME NEW S \in SUBSET Nat, S # {}
  PROVE  \E i \in S : \A j \in S : i <= j
<1> DEFINE R == OpToRel(<, Nat)
<1>1. IsWellFoundedOn(R, Nat)
  BY NatLessThanWellFounded
<1> HIDE DEF R
<1>2. PICK i \in S : \A j \in S : ~ (<<j, i>> \in R)
  BY <1>1, WFMin
<1>3. \A j \in S : ~ (j < i)
  BY <1>2 DEF R, OpToRel
<1> QED
  BY <1>3

\* What holds at 0, and at each number if at the one before, holds up to N.
LEMMA UpTo ==
  ASSUME NEW n \in Nat, NEW S, 0 \in S, \A i \in 1 .. n : i - 1 \in S => i \in S
  PROVE  \A i \in 0 .. n : i \in S
<1> SUFFICES ASSUME {i \in 0 .. n : i \notin S} # {} PROVE FALSE
  OBVIOUS
<1>1. PICK i \in {i \in 0 .. n : i \notin S} : \A j \in {j \in 0 .. n : j \notin S} : i <= j
  <2>1. {i \in 0 .. n : i \notin S} \in SUBSET Nat
    OBVIOUS
  <2> QED
    BY <2>1, LeastExists
<1>2. i \in 1 .. n /\ i - 1 \in 0 .. n /\ ~ (i <= i - 1)
  BY <1>1
<1> QED
  BY <1>1, <1>2

\* The steps stay in S.
Within(step, N, S) == \A n \in 1 .. N : \A x \in S : step[n][x] \in S

\* f begins with first and goes on step by step.
Follows(f, N, S, first, step) ==
    f \in [0 .. N -> S] /\ f[0] = first /\ \A n \in 1 .. N : f[n] = step[n][f[n - 1]]

\* What first and then step after step makes, as a function of the steps done.
LEMMA StepByStep ==
  ASSUME NEW N \in Nat, NEW S, NEW first \in S, NEW step, Within(step, N, S)
  PROVE  \E f : Follows(f, N, S, first, step)
<1> DEFINE Solves(f, m) == /\ f \in [0 .. m -> S]
                           /\ f[0] = first /\ \A n \in 1 .. m : f[n] = step[n][f[n - 1]]
           solved == {m \in 0 .. N : \E f : Solves(f, m)}
<1> USE DEF Within
<1>1. 0 \in solved
  <2> DEFINE f == [n \in 0 .. 0 |-> first]
  <2>1. f \in [0 .. 0 -> S] /\ f[0] = first /\ 1 .. 0 = {}
    OBVIOUS
  <2> HIDE DEF f
  <2>2. Solves(f, 0)
    BY <2>1
  <2> QED
    BY <2>2
<1>2. ASSUME NEW m \in 1 .. N, m - 1 \in solved PROVE m \in solved
  <2>1. PICK f : Solves(f, m - 1)
    BY <1>2
  <2> DEFINE next == step[m][f[m - 1]]
             g == [n \in 0 .. m |-> IF n = m THEN next ELSE f[n]]
  <2>2. m - 1 \in 0 .. m - 1 /\ m \in Nat /\ m \in 0 .. N /\ m # 0
    OBVIOUS
  <2>3. next \in S
    BY <2>1, <2>2
  <2> HIDE DEF next
  <2>4. \A n \in 0 .. m : n # m => n \in 0 .. m - 1
    OBVIOUS
  <2>5. g \in [0 .. m -> S]
    BY <2>1, <2>3, <2>4
  <2>6. g[m] = next /\ \A n \in 0 .. m - 1 : g[n] = f[n]
    <3>1. \A n \in 0 .. m - 1 : n \in 0 .. m /\ n # m
      BY <2>2
    <3> QED
      BY <2>2, <3>1
  <2> HIDE DEF g
  <2>7. g[0] = first
    BY <2>1, <2>2, <2>6
  <2>8. ASSUME NEW n \in 1 .. m PROVE g[n] = step[n][g[n - 1]]
    <3>1. CASE n = m
      BY <2>2, <2>6, <3>1 DEF next
    <3>2. CASE n # m
      <4>1. n \in 0 .. m - 1 /\ n \in 1 .. m - 1 /\ n - 1 \in 0 .. m - 1
        BY <2>2, <3>2
      <4> QED
        BY <2>1, <2>6, <4>1
    <3> QED
      BY <3>1, <3>2
  <2>9. Solves(g, m)
    BY <2>5, <2>7, <2>8
  <2> HIDE DEF Solves
  <2> QED
    BY <2>2, <2>9
<1> HIDE DEF solved
<1>3. N \in solved
  <2>1. \A n \in 0 .. N : n \in solved
    BY <1>1, <1>2, UpTo
  <2> QED
    BY <2>1
<1> QED
  BY <1>3 DEF solved, Follows

----------------------------------------------------------------------------
(* Sequences.                                                              *)

\* The elements of a sequence.
LEMMA ElementsOf ==
  ASSUME NEW S, NEW s \in Seq(S)
  PROVE  \A k \in DOMAIN s : s[k] \in S
OBVIOUS

\* A sequence of what is all in T.
LEMMA AlsoSeqOf ==
  ASSUME NEW S, NEW T, NEW s \in Seq(S), \A k \in 1 .. Len(s) : s[k] \in T
  PROVE  s \in Seq(T)
OBVIOUS

\* The first m elements.
LEMMA FirstOf ==
  ASSUME NEW S, NEW s \in Seq(S), NEW m \in 0 .. Len(s)
  PROVE  /\ SubSeq(s, 1, m) \in Seq(S) /\ Len(SubSeq(s, 1, m)) = m
         /\ \A k \in 1 .. m : SubSeq(s, 1, m)[k] = s[k]
OBVIOUS

\* One more element of a sequence.
LEMMA NextOf ==
  ASSUME NEW S, NEW s \in Seq(S), NEW n \in 1 .. Len(s)
  PROVE  /\ SubSeq(s, 1, n) = SubSeq(s, 1, n - 1) \o <<s[n]>>
         /\ Len(SubSeq(s, 1, n - 1)) = n - 1
<1> DEFINE a == SubSeq(s, 1, n)
           b == SubSeq(s, 1, n - 1) \o <<s[n]>>
<1>1. Len(s) \in Nat /\ n - 1 \in 0 .. Len(s) /\ n \in 0 .. Len(s) /\ s[n] \in S
  OBVIOUS
<1>2. a \in Seq(S) /\ Len(a) = n /\ \A k \in 1 .. n : a[k] = s[k]
  BY <1>1, FirstOf
<1>3. /\ SubSeq(s, 1, n - 1) \in Seq(S) /\ Len(SubSeq(s, 1, n - 1)) = n - 1
      /\ \A k \in 1 .. n - 1 : SubSeq(s, 1, n - 1)[k] = s[k]
  BY <1>1, FirstOf
<1>4. <<s[n]>> \in Seq(S) /\ Len(<<s[n]>>) = 1 /\ <<s[n]>>[1] = s[n]
  BY <1>1
<1>5. /\ b \in Seq(S) /\ Len(b) = n
      /\ \A k \in 1 .. n : b[k] = IF k <= n - 1 THEN SubSeq(s, 1, n - 1)[k] ELSE <<s[n]>>[k - (n - 1)]
  <2>1. (n - 1) + 1 = n
    BY <1>1
  <2> QED
    BY <1>3, <1>4, <2>1, ConcatProperties
<1> HIDE DEF a, b
<1>6. \A k \in 1 .. n : a[k] = b[k]
  <2> SUFFICES ASSUME NEW k \in 1 .. n PROVE a[k] = b[k]
    OBVIOUS
  <2>1. CASE k <= n - 1
    BY <1>2, <1>3, <1>5, <2>1
  <2>2. CASE ~ (k <= n - 1)
    <3>1. k = n /\ k - (n - 1) = 1
      BY <2>2
    <3> QED
      BY <1>2, <1>4, <1>5, <2>2, <3>1
  <2> QED
    BY <2>1, <2>2
<1>7. a = b
  BY <1>2, <1>5, <1>6, SeqEqual
<1> QED
  BY <1>3, <1>7 DEF a, b

\* All of a sequence.
LEMMA WholeSubSeq ==
  ASSUME NEW S, NEW s \in Seq(S)
  PROVE  SubSeq(s, 1, Len(s)) = s
<1>1. Len(s) \in 0 .. Len(s) /\ Len(s) \in Nat
  OBVIOUS
<1>2. /\ SubSeq(s, 1, Len(s)) \in Seq(S) /\ Len(SubSeq(s, 1, Len(s))) = Len(s)
      /\ \A k \in 1 .. Len(s) : SubSeq(s, 1, Len(s))[k] = s[k]
  BY <1>1, FirstOf
<1> QED
  BY <1>2

----------------------------------------------------------------------------
(* Bytes.                                                                  *)

\* Bytes, and how many.
Data == Seq(Byte)

Size(data) == Len(data)

\* The bytes there are.
LEMMA Elements ==
  ASSUME NEW s \in Data
  PROVE  /\ Size(s) \in Nat /\ DOMAIN s = 1 .. Size(s)
         /\ \A i \in 1 .. Size(s) : s[i] \in Byte
BY DEF Data, Size

\* Two parts make a whole.
LEMMA Joins ==
  ASSUME NEW s \in Data, NEW t \in Data
  PROVE  /\ s \o t \in Data /\ Size(s \o t) = Size(s) + Size(t)
         /\ \A i \in 1 .. Size(s) : (s \o t)[i] = s[i]
         /\ \A i \in 1 .. Size(t) : (s \o t)[Size(s) + i] = t[i]
BY DEF Data, Size

\* One byte.
LEMMA OneByte ==
  ASSUME NEW b \in Byte
  PROVE  <<b>> \in Data /\ Size(<<b>>) = 1 /\ <<b>>[1] = b
BY DEF Data, Size

\* Two bytes.
LEMMA TwoBytes ==
  ASSUME NEW b \in Byte, NEW c \in Byte
  PROVE  <<b, c>> \in Data /\ Size(<<b, c>>) = 2 /\ <<b, c>>[1] = b /\ <<b, c>>[2] = c
BY DEF Data, Size

\* What a slice is, whatever is in it.
LEMMA SliceType ==
  ASSUME NEW data \in Data, NEW i \in Nat, NEW j \in Nat, i <= j, j <= Size(data)
  PROVE  /\ Slice(data, i, j) \in Data /\ Size(Slice(data, i, j)) = j - i
         /\ \A k \in 1 .. j - i : Slice(data, i, j)[k] = data[i + k]
<1>1. Len(data) \in Nat /\ i + 1 \in 1 .. Len(data) + 1 /\ j \in i .. Len(data)
  BY Elements DEF Size
<1>2. /\ SubSeq(data, i + 1, j) \in Seq(Byte)
      /\ Len(SubSeq(data, i + 1, j)) = IF i + 1 <= j THEN j - (i + 1) + 1 ELSE 0
      /\ \A k \in 1 .. j - (i + 1) + 1 : SubSeq(data, i + 1, j)[k] = data[(i + 1) + k - 1]
  BY <1>1, SubSeqProperties DEF Data
<1>3. j - (i + 1) + 1 = j - i /\ (~ (i + 1 <= j) => j - i = 0)
  BY <1>1
<1>4. \A k \in 1 .. j - i : (i + 1) + k - 1 = i + k
  BY <1>1
<1> QED
  BY <1>2, <1>3, <1>4 DEF Slice, Data, Size

\* What a slice that holds t is.
LEMMA SliceIs ==
  ASSUME NEW data \in Data, NEW t \in Data, NEW i \in Nat, NEW j \in Nat,
         j = i + Size(t), j <= Size(data), \A k \in 1 .. Size(t) : data[i + k] = t[k]
  PROVE  Slice(data, i, j) = t
<1>1. Size(t) \in Nat /\ i <= j /\ j - i = Size(t)
  BY Elements
<1>2. /\ Slice(data, i, j) \in Data /\ Size(Slice(data, i, j)) = j - i
      /\ \A k \in 1 .. j - i : Slice(data, i, j)[k] = data[i + k]
  BY <1>1, SliceType
<1>3. \A k \in 1 .. Size(Slice(data, i, j)) : Slice(data, i, j)[k] = t[k]
  BY <1>1, <1>2
<1> QED
  BY <1>1, <1>2, <1>3, SeqEqual DEF Data, Size

\* t is in data, from offset i on.
Has(data, i, t) == i + Size(t) <= Size(data) /\ \A k \in 1 .. Size(t) : data[i + k] = t[k]

\* The parts of a whole are in it.
LEMMA HasParts ==
  ASSUME NEW s \in Data, NEW t \in Data
  PROVE  Has(s \o t, 0, s) /\ Has(s \o t, Size(s), t)
<1>1. /\ Size(s) \in Nat /\ Size(t) \in Nat /\ Size(s \o t) = Size(s) + Size(t)
      /\ \A i \in 1 .. Size(s) : (s \o t)[i] = s[i]
      /\ \A i \in 1 .. Size(t) : (s \o t)[Size(s) + i] = t[i]
  BY Elements, Joins
<1>2. 0 + Size(s) <= Size(s \o t) /\ Size(s) + Size(t) <= Size(s \o t)
  BY <1>1
<1>3. \A i \in 1 .. Size(s) : 0 + i = i
  BY <1>1
<1> QED
  BY <1>1, <1>2, <1>3 DEF Has

\* What is in a part is in the whole, at the sum of the offsets.
LEMMA HasWithin ==
  ASSUME NEW data \in Data, NEW t \in Data, NEW u \in Data, NEW i \in Nat, NEW j \in Nat,
         Has(data, i, t), Has(t, j, u)
  PROVE  Has(data, i + j, u)
<1>1. Size(data) \in Nat /\ Size(t) \in Nat /\ Size(u) \in Nat
  BY Elements
<1>2. i + Size(t) <= Size(data) /\ j + Size(u) <= Size(t)
  BY DEF Has
<1>3. (i + j) + Size(u) <= Size(data)
  BY <1>1, <1>2
<1>4. ASSUME NEW k \in 1 .. Size(u) PROVE data[(i + j) + k] = u[k]
  <2>1. j + k \in 1 .. Size(t) /\ i + (j + k) = (i + j) + k
    BY <1>1, <1>2
  <2> QED
    BY <2>1 DEF Has
<1> QED
  BY <1>3, <1>4 DEF Has

\* Two parts of known lengths.
LEMMA TwoParts ==
  ASSUME NEW s \in Data, NEW t \in Data, NEW m, NEW n, Size(s) = m, Size(t) = n
  PROVE  /\ s \o t \in Data /\ Size(s \o t) = m + n
         /\ Has(s \o t, 0, s) /\ Has(s \o t, m, t)
BY Joins, HasParts

\* What is in a part is in the whole.
LEMMA HasFirst ==
  ASSUME NEW s \in Data, NEW t \in Data, NEW u \in Data, NEW i \in Nat, Has(s, i, u)
  PROVE  Has(s \o t, i, u)
<1>1. Has(s \o t, 0, s) /\ s \o t \in Data /\ 0 + i = i
  BY HasParts, Joins
<1> QED
  BY <1>1, HasWithin

\* All of it is in it.
LEMMA HasAll ==
  ASSUME NEW data \in Data
  PROVE  Has(data, 0, data)
<1>1. Size(data) \in Nat /\ 0 + Size(data) = Size(data)
  BY Elements
<1>2. \A k \in 1 .. Size(data) : 0 + k = k
  BY <1>1
<1> QED
  BY <1>1, <1>2 DEF Has

\* A byte at an offset.
LEMMA HasByte ==
  ASSUME NEW data \in Data, NEW b \in Byte, NEW i \in Nat, Has(data, i, <<b>>)
  PROVE  At(data, i) = b /\ i + 1 <= Size(data)
<1>1. <<b>>[1] = b /\ Size(<<b>>) = 1 /\ 1 \in 1 .. Size(<<b>>)
  BY OneByte
<1> QED
  BY <1>1 DEF Has, At

\* Two bytes at an offset.
LEMMA HasTwo ==
  ASSUME NEW data \in Data, NEW b \in Byte, NEW c \in Byte, NEW i \in Nat,
         Has(data, i, <<b, c>>)
  PROVE  At(data, i) = b /\ At(data, i + 1) = c /\ i + 2 <= Size(data)
<1>1. <<b, c>>[1] = b /\ <<b, c>>[2] = c /\ Size(<<b, c>>) = 2 /\ {1, 2} \subseteq 1 .. Size(<<b, c>>)
  BY TwoBytes
<1>2. (i + 1) + 1 = i + 2
  OBVIOUS
<1> QED
  BY <1>1, <1>2 DEF Has, At

\* The slice where t is, is t.
LEMMA HasSlice ==
  ASSUME NEW data \in Data, NEW t \in Data, NEW i \in Nat, NEW j, j = i + Size(t),
         Has(data, i, t)
  PROVE  Slice(data, i, j) = t /\ j \in Nat /\ j <= Size(data)
<1>1. j \in Nat /\ j <= Size(data)
  BY Elements DEF Has
<1>2. \A k \in 1 .. Size(t) : data[i + k] = t[k]
  BY DEF Has
<1> QED
  BY <1>1, <1>2, SliceIs

\* What is in the first m bytes is where it was.
LEMMA PrefixHas ==
  ASSUME NEW B \in Data, NEW m \in 0 .. Size(B)
  PROVE  /\ SubSeq(B, 1, m) \in Data /\ Size(SubSeq(B, 1, m)) = m
         /\ \A i \in Nat : i < m => At(SubSeq(B, 1, m), i) = At(B, i)
         /\ \A i \in Nat : \A t \in Data :
               Has(B, i, t) /\ i + Size(t) <= m => Has(SubSeq(B, 1, m), i, t)
<1> DEFINE data == SubSeq(B, 1, m)
<1>1. m \in Nat /\ Size(B) \in Nat
  BY Elements
<1>2. data \in Data /\ Size(data) = m /\ \A k \in 1 .. m : data[k] = B[k]
  BY FirstOf DEF Data, Size
<1> HIDE DEF data
<1>3. ASSUME NEW i \in Nat, i < m PROVE At(data, i) = At(B, i)
  <2>1. i + 1 \in 1 .. m
    BY <1>1, <1>3
  <2> QED
    BY <1>2, <2>1 DEF At
<1>4. ASSUME NEW i \in Nat, NEW t \in Data, Has(B, i, t), i + Size(t) <= m
      PROVE  Has(data, i, t)
  <2>1. ASSUME NEW k \in 1 .. Size(t) PROVE data[i + k] = t[k]
    <3>1. i + k \in 1 .. m
      <4>1. Size(t) \in Nat
        BY Elements
      <4> QED
        BY <1>1, <1>4, <4>1
    <3>2. B[i + k] = t[k]
      BY <1>4 DEF Has
    <3> QED
      BY <1>2, <3>1, <3>2
  <2> QED
    BY <1>2, <1>4, <2>1 DEF Has
<1> QED
  BY <1>2, <1>3, <1>4 DEF data

\* The beginning of a beginning is one.
LEMMA FirstOfFirst ==
  ASSUME NEW B \in Data, NEW m \in 0 .. Size(B), NEW n \in 0 .. m
  PROVE  SubSeq(SubSeq(B, 1, m), 1, n) = SubSeq(B, 1, n)
<1> DEFINE a == SubSeq(B, 1, m)
           x == SubSeq(a, 1, n)
           y == SubSeq(B, 1, n)
<1>1. Size(B) \in Nat /\ m \in Nat /\ n \in Nat /\ n \in 0 .. Size(B) /\ n <= m
  <2>1. Size(B) \in Nat
    BY Elements
  <2> QED
    BY <2>1
<1>2. a \in Seq(Byte) /\ Len(a) = m /\ \A k \in 1 .. m : a[k] = B[k]
  BY <1>1, FirstOf DEF Data, Size
<1>3. y \in Seq(Byte) /\ Len(y) = n /\ \A k \in 1 .. n : y[k] = B[k]
  BY <1>1, FirstOf DEF Data, Size
<1> HIDE DEF a, y
<1>4. n \in 0 .. Len(a)
  BY <1>2
<1>5. x \in Seq(Byte) /\ Len(x) = n /\ \A k \in 1 .. n : x[k] = a[k]
  BY <1>2, <1>4, FirstOf
<1> HIDE DEF x
<1>6. \A k \in 1 .. n : x[k] = y[k]
  BY <1>1, <1>2, <1>3, <1>5
<1>7. x = y
  BY <1>3, <1>5, <1>6
<1> QED
  BY <1>7 DEF x, a, y

\* All of it is a beginning of it.
LEMMA AllIsFirst ==
  ASSUME NEW B \in Data
  PROVE  B = SubSeq(B, 1, Size(B)) /\ Size(B) \in 0 .. Size(B)
<1>1. Size(B) \in Nat
  BY Elements
<1>2. Size(B) \in 0 .. Size(B)
  BY <1>1
<1>3. /\ SubSeq(B, 1, Size(B)) \in Seq(Byte) /\ Len(SubSeq(B, 1, Size(B))) = Len(B)
      /\ \A k \in 1 .. Len(B) : SubSeq(B, 1, Size(B))[k] = B[k]
  BY <1>2, FirstOf DEF Data, Size
<1>4. B = SubSeq(B, 1, Size(B))
  BY <1>3 DEF Data
<1> QED
  BY <1>2, <1>4
=============================================================================
