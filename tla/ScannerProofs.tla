--------------------------- MODULE ScannerProofs ---------------------------
(***************************************************************************)
(* The scanner, for any peripherals and any capacity of the list: it       *)
(* implements Discovery step by step, it listens for the window, and of    *)
(* the packets that were heard it makes the list of the peripherals that   *)
(* offered the HID service, each once.                                     *)
(*                                                                         *)
(* That rests on the parser, which is proved for every packet: where each  *)
(* structure ends is known from how the packet was made (PacketLaid), and  *)
(* the walk comes to each of these offsets and stops at the last.          *)
(***************************************************************************)
EXTENDS Scanner, DataLemmas

----------------------------------------------------------------------------
(* How a packet is laid out.                                               *)

\* What is known of a packet that can be sent.
LEMMA SendableIs ==
  ASSUME NEW packet \in Sendable
  PROVE  /\ packet.structures \in Seq(AdStructure) /\ Len(packet.structures) \in Nat
         /\ DOMAIN packet.structures = 1 .. Len(packet.structures)
         /\ packet.tail \in Data
         /\ packet.tail = <<>> \/ IsBroken(packet.tail, 0)
         /\ \A k \in 1 .. Len(packet.structures) :
               /\ packet.structures[k] \in AdStructure
               /\ Len(Payload(packet.structures[k])) < 255
<1>1. packet \in [structures : Seq(AdStructure), tail : Seq(Byte)]
  BY DEF Sendable
<1>2. packet.structures \in Seq(AdStructure) /\ packet.tail \in Data
  BY <1>1 DEF Data
<1>3. /\ \A k \in DOMAIN packet.structures : Len(Payload(packet.structures[k])) < 255
      /\ packet.tail = <<>> \/ IsBroken(packet.tail, 0)
  BY DEF Sendable
<1> DEFINE S == packet.structures
<1> HIDE DEF S
<1>4. S \in Seq(AdStructure)
  BY <1>2 DEF S
<1>5. Len(S) \in Nat /\ DOMAIN S = 1 .. Len(S) /\ \A k \in 1 .. Len(S) : S[k] \in AdStructure
  BY <1>4
<1> QED
  BY <1>2, <1>3, <1>5 DEF S

\* The three kinds of structures.
LEMMA Kinds ==
  ASSUME NEW s \in AdStructure
  PROVE  /\ s.type \in Byte
         /\ s.kind = "services" => s.type \in {2, 3} /\ s.uuids \in Seq(Word)
         /\ s.kind = "name" => s.type \in {8, 9} /\ s.chars \in Seq(0 .. 127)
         /\ s.kind = "other" => s.type \notin {2, 3, 8, 9} /\ s.bytes \in Data
         /\ s.kind \in {"services", "name", "other"}
<1>1. CASE s \in [kind : {"services"}, type : {2, 3}, uuids : Seq(Word)]
  BY <1>1 DEF Byte
<1>2. CASE s \in [kind : {"name"}, type : {8, 9}, chars : Seq(0 .. 127)]
  BY <1>2 DEF Byte
<1>3. CASE s \in [kind : {"other"}, type : Byte \ {2, 3, 8, 9}, bytes : Seq(Byte)]
  BY <1>3 DEF Data
<1> QED
  BY <1>1, <1>2, <1>3 DEF AdStructure

\* A UUID is two bytes, and the bytes give it back.
LEMMA UuidIsTwoBytes ==
  ASSUME NEW u \in Word
  PROVE  /\ UuidBytes(u)[1] \in Byte /\ UuidBytes(u)[2] \in Byte
         /\ UuidBytes(u)[1] + 256 * UuidBytes(u)[2] = u
<1>1. UuidBytes(u)[1] = u % 256 /\ UuidBytes(u)[2] = u \div 256
  BY DEF UuidBytes
<1>2. u \in Nat /\ u < 65536
  BY DEF Word
<1>3. (u % 256) \in 0 .. 255 /\ (u \div 256) \in 0 .. 255 /\ (u % 256) + 256 * (u \div 256) = u
  BY <1>2
<1> QED
  BY <1>1, <1>3 DEF Byte

\* The places of the bytes of the UUIDs.
LEMMA Places ==
  ASSUME NEW n \in Nat
  PROVE  /\ \A j \in 1 .. 2 * n : (j + 1) \div 2 \in 1 .. n
         /\ \A k \in 1 .. n :
               /\ 2 * k - 1 \in 1 .. 2 * n /\ 2 * k \in 1 .. 2 * n
               /\ ((2 * k - 1) + 1) \div 2 = k /\ (2 * k + 1) \div 2 = k
               /\ (2 * k - 1) % 2 = 1 /\ (2 * k) % 2 = 0
         /\ (2 * n) \div 2 = n
OBVIOUS

\* The payload of a list of services.
LEMMA ServicesPayload ==
  ASSUME NEW s \in AdStructure, s.kind = "services"
  PROVE  /\ Payload(s) \in Data
         /\ Uuids(Payload(s)) = Range(s.uuids)
<1> DEFINE n == Len(s.uuids)
           u == s.uuids
           p == Payload(s)
<1>1. u \in Seq(Word)
  BY Kinds
<1> HIDE DEF u
<1>2. Len(u) \in Nat /\ DOMAIN u = 1 .. Len(u) /\ \A k \in 1 .. Len(u) : u[k] \in Word
  BY <1>1
<1>3. n = Len(u)
  BY DEF u
<1> HIDE DEF n
<1>4. p = [j \in 1 .. 2 * n |-> UuidBytes(u[(j + 1) \div 2])[IF j % 2 = 1 THEN 1 ELSE 2]]
  BY <1>3 DEF Payload, u
<1> HIDE DEF p
<1>5. \A j \in 1 .. 2 * n : p[j] = UuidBytes(u[(j + 1) \div 2])[IF j % 2 = 1 THEN 1 ELSE 2]
  BY <1>4
<1>6. n \in Nat /\ 2 * n \in Nat
  BY <1>2, <1>3
<1>7. ASSUME NEW j \in 1 .. 2 * n PROVE p[j] \in Byte
  <2>1. (j + 1) \div 2 \in 1 .. n
    BY <1>6, Places
  <2>2. u[(j + 1) \div 2] \in Word
    BY <1>2, <1>3, <2>1
  <2>3. /\ UuidBytes(u[(j + 1) \div 2])[1] \in Byte
        /\ UuidBytes(u[(j + 1) \div 2])[2] \in Byte
    BY <2>2, UuidIsTwoBytes
  <2>4. p[j] = UuidBytes(u[(j + 1) \div 2])[IF j % 2 = 1 THEN 1 ELSE 2]
    BY <1>5
  <2> QED
    BY <2>3, <2>4, Zenon
<1>8. p \in Seq(Byte) /\ Len(p) = 2 * n
  <2>1. p \in [1 .. 2 * n -> Byte]
    BY <1>4, <1>7
  <2> QED
    BY <1>6, <2>1
<1>9. ASSUME NEW k \in 1 .. n PROVE p[2 * k - 1] + 256 * p[2 * k] = u[k]
  <2>1. /\ 2 * k - 1 \in 1 .. 2 * n /\ 2 * k \in 1 .. 2 * n
        /\ ((2 * k - 1) + 1) \div 2 = k /\ (2 * k + 1) \div 2 = k
        /\ (2 * k - 1) % 2 = 1 /\ (2 * k) % 2 = 0
    BY <1>6, Places
  <2>2. p[2 * k - 1] = UuidBytes(u[k])[1]
    BY <1>5, <2>1, Zenon
  <2>3. p[2 * k] = UuidBytes(u[k])[2]
    BY <1>5, <2>1, Zenon
  <2>4. u[k] \in Word
    BY <1>2, <1>3
  <2> QED
    BY <2>2, <2>3, <2>4, UuidIsTwoBytes
<1>10. Uuids(p) = {u[k] : k \in 1 .. n}
  <2>1. Len(p) \div 2 = n
    BY <1>6, <1>8, Places
  <2>2. Uuids(p) = {p[2 * k - 1] + 256 * p[2 * k] : k \in 1 .. n}
    BY <2>1 DEF Uuids
  <2> QED
    BY <1>9, <2>2
<1>11. Range(u) = {u[k] : k \in 1 .. n}
  BY <1>2, <1>3 DEF Range
<1> QED
  BY <1>8, <1>10, <1>11 DEF Data, p, u

\* A structure on the air: its length, its type, its payload.
LEMMA EncodedIs ==
  ASSUME NEW s \in AdStructure, Len(Payload(s)) < 255
  PROVE  /\ Payload(s) \in Data /\ Size(Payload(s)) \in Nat
         /\ Size(Payload(s)) + 1 \in Byte /\ s.type \in Byte
         /\ Encoded(s) \in Data /\ Size(Encoded(s)) = Size(Payload(s)) + 2
         /\ Has(Encoded(s), 0, <<Size(Payload(s)) + 1, s.type>>)
         /\ Has(Encoded(s), 2, Payload(s))
<1> DEFINE p == Payload(s)
<1>1. p \in Data
  <2>1. CASE s.kind = "services"
    BY <2>1, ServicesPayload
  <2>2. CASE s.kind = "name"
    <3>1. s.chars \in Seq(0 .. 127)
      BY <2>2, Kinds
    <3>2. p = s.chars
      BY <2>2 DEF Payload
    <3> HIDE DEF p
    <3>3. p \in Seq(0 .. 127)
      BY <3>1, <3>2
    <3> QED
      BY <3>3, AlsoSeqOf DEF Data, Byte
  <2>3. CASE s.kind = "other"
    <3>1. s.bytes \in Data
      BY <2>3, Kinds
    <3>2. p = s.bytes
      BY <2>3 DEF Payload
    <3> QED
      BY <3>1, <3>2
  <2> QED
    BY <2>1, <2>2, <2>3, Kinds
<1> HIDE DEF p
<1>2. Size(p) \in Nat /\ Size(p) < 255
  BY <1>1, Elements DEF p, Size
<1>3. Size(p) + 1 \in Byte /\ s.type \in Byte
  <2>1. Size(p) + 1 \in 0 .. 255
    BY ONLY <1>2
  <2> QED
    BY <2>1, Kinds DEF Byte
<1> DEFINE h == <<Size(p) + 1, s.type>>
<1>4. h \in Data /\ Size(h) = 2
  BY <1>3, TwoBytes
<1>5. Encoded(s) = h \o p
  BY DEF Encoded, p, Size
<1> HIDE DEF h
<1>6. /\ h \o p \in Data /\ Size(h \o p) = 2 + Size(p)
      /\ Has(h \o p, 0, h) /\ Has(h \o p, 2, p)
  BY <1>1, <1>4, TwoParts
<1>7. 2 + Size(p) = Size(p) + 2
  BY <1>2
<1> QED
  BY <1>1, <1>2, <1>3, <1>5, <1>6, <1>7 DEF h, p

\* y[n] is what a packet holds up to its n-th structure.
PacketRun(packet, y) ==
    /\ y \in [0 .. Len(packet.structures) -> Data]
    /\ y[0] = <<>>
    /\ \A n \in 1 .. Len(packet.structures) : y[n] = y[n - 1] \o Encoded(packet.structures[n])

\* Nothing is bytes too.
LEMMA NoBytes ==
  <<>> \in Data /\ Size(<<>>) = 0
BY DEF Data, Size

\* The bytes of a packet are made structure by structure.
LEMMA PacketRuns ==
  ASSUME NEW packet \in Sendable
  PROVE  \E y : /\ PacketRun(packet, y)
                /\ Bytes(packet) = y[Len(packet.structures)] \o packet.tail
<1> DEFINE N == Len(packet.structures)
           enc(n) == Encoded(packet.structures[n])
           Solves(y) == y = [n \in 0 .. N |-> IF n = 0 THEN <<>>
                                               ELSE y[n - 1] \o Encoded(packet.structures[n])]
           bytes == CHOOSE y : Solves(y)
           step == [n \in 1 .. N |-> [x \in Data |-> x \o enc(n)]]
<1>1. N \in Nat /\ <<>> \in Data
  BY SendableIs, NoBytes
<1>2. ASSUME NEW n \in 1 .. N, NEW x \in Data
      PROVE  step[n][x] = x \o enc(n) /\ step[n][x] \in Data
  <2>1. enc(n) \in Data
    BY SendableIs, EncodedIs
  <2> HIDE DEF enc
  <2>2. x \o enc(n) \in Data
    BY <2>1, Joins
  <2> QED
    BY <2>2
<1>3. Bytes(packet) = bytes[N] \o packet.tail
  BY DEF Bytes
<1>4. \A y : Solves(y) <=> y = [n \in 0 .. N |-> IF n = 0 THEN <<>> ELSE y[n - 1] \o enc(n)]
  OBVIOUS
<1> HIDE DEF N, step, enc
<1>5. PICK y : /\ y \in [0 .. N -> Data] /\ y[0] = <<>>
               /\ \A n \in 1 .. N : y[n] = step[n][y[n - 1]]
  <2>1. Within(step, N, Data)
    BY <1>2 DEF Within
  <2>2. \E y : Follows(y, N, Data, <<>>, step)
    BY <1>1, <2>1, StepByStep
  <2> QED
    BY <2>2 DEF Follows
<1>6. \A n \in 1 .. N : n - 1 \in 0 .. N /\ y[n] = y[n - 1] \o enc(n)
  <2>1. \A n \in 1 .. N : n - 1 \in 0 .. N
    BY <1>1
  <2> QED
    BY <1>2, <1>5, <2>1
<1>7. Solves(y)
  <2>1. y = [n \in 0 .. N |-> y[n]]
    BY <1>5
  <2>2. \A n \in 0 .. N : y[n] = IF n = 0 THEN <<>> ELSE y[n - 1] \o enc(n)
    <3>1. \A n \in 0 .. N : n = 0 \/ n \in 1 .. N
      BY <1>1
    <3> QED
      BY <1>5, <1>6, <3>1
  <2>3. y = [n \in 0 .. N |-> IF n = 0 THEN <<>> ELSE y[n - 1] \o enc(n)]
    BY <2>1, <2>2
  <2> HIDE DEF Solves
  <2> QED
    BY <1>4, <2>3
<1> HIDE DEF Solves
<1>8. Solves(bytes)
  BY <1>7
<1> HIDE DEF bytes
<1>9. bytes[0] = <<>> /\ \A n \in 1 .. N : bytes[n] = bytes[n - 1] \o enc(n)
  <2>1. bytes = [n \in 0 .. N |-> IF n = 0 THEN <<>> ELSE bytes[n - 1] \o enc(n)]
    BY <1>4, <1>8
  <2>2. \A n \in 1 .. N : n \in 0 .. N /\ n # 0
    BY <1>1
  <2>3. 0 \in 0 .. N
    BY <1>1
  <2> QED
    BY <2>1, <2>2, <2>3
<1>10. \A n \in 0 .. N : bytes[n] = y[n]
  <2> DEFINE S == {n \in 0 .. N : bytes[n] = y[n]}
  <2>1. 0 \in S
    BY <1>1, <1>5, <1>9
  <2>2. ASSUME NEW n \in 1 .. N, n - 1 \in S PROVE n \in S
    <3>1. n \in 0 .. N
      BY <1>1
    <3> QED
      BY <1>6, <1>9, <2>2, <3>1
  <2> HIDE DEF S
  <2>3. \A n \in 0 .. N : n \in S
    BY <1>1, <2>1, <2>2, UpTo
  <2> QED
    BY <2>3 DEF S
<1>11. bytes[N] = y[N]
  BY <1>1, <1>10
<1>12. PacketRun(packet, y)
  BY <1>5, <1>6 DEF PacketRun, N, enc
<1> QED
  BY <1>3, <1>11, <1>12 DEF N

\* Every structure is where the ones before it end.
LEMMA RunHas ==
  ASSUME NEW packet \in Sendable, NEW y, PacketRun(packet, y)
  PROVE  \A j \in 0 .. Len(packet.structures) :
            /\ y[j] \in Data /\ Size(y[j]) \in Nat /\ Size(y[j]) >= j
            /\ \A i \in 1 .. j :
                  /\ Has(y[j], Size(y[i - 1]), Encoded(packet.structures[i]))
                  /\ Size(y[i]) = Size(y[i - 1]) + Size(Encoded(packet.structures[i]))
<1> DEFINE N == Len(packet.structures)
           enc(i) == Encoded(packet.structures[i])
           Good(j) == /\ y[j] \in Data /\ Size(y[j]) \in Nat /\ Size(y[j]) >= j
                      /\ \A i \in 1 .. j : /\ Has(y[j], Size(y[i - 1]), enc(i))
                                           /\ Size(y[i]) = Size(y[i - 1]) + Size(enc(i))
           S == {j \in 0 .. N : Good(j)}
<1>1. N \in Nat
  BY SendableIs
<1>2. ASSUME NEW i \in 1 .. N PROVE enc(i) \in Data /\ Size(enc(i)) \in Nat /\ Size(enc(i)) >= 1
  <2>1. /\ enc(i) \in Data /\ Size(enc(i)) = Size(Payload(packet.structures[i])) + 2
        /\ Size(Payload(packet.structures[i])) \in Nat
    BY SendableIs, EncodedIs
  <2> QED
    BY <2>1
<1>3. /\ y \in [0 .. N -> Data] /\ y[0] = <<>>
      /\ \A n \in 1 .. N : y[n] = y[n - 1] \o enc(n)
  BY DEF PacketRun
<1> HIDE DEF N, enc
<1>4. 0 \in S
  <2>1. y[0] \in Data /\ Size(y[0]) = 0
    BY <1>3, NoBytes
  <2>2. 0 \in 0 .. N /\ 1 .. 0 = {}
    BY <1>1
  <2> QED
    BY <2>1, <2>2
<1>5. ASSUME NEW j \in 1 .. N, j - 1 \in S PROVE j \in S
  <2>1. j \in 0 .. N /\ j \in Nat
    BY <1>1
  <2>2. Good(j - 1)
    BY <1>5
  <2> DEFINE old == y[j - 1]
             new == y[j]
  <2>3. /\ old \in Data /\ Size(old) \in Nat /\ Size(old) >= j - 1
        /\ \A i \in 1 .. j - 1 : /\ Has(old, Size(y[i - 1]), enc(i))
                                 /\ Size(y[i]) = Size(y[i - 1]) + Size(enc(i))
    BY <2>2
  <2>4. enc(j) \in Data /\ Size(enc(j)) \in Nat /\ Size(enc(j)) >= 1
    BY <1>2
  <2>5. new = old \o enc(j)
    BY <1>3
  <2>6. /\ new \in Data /\ Size(new) = Size(old) + Size(enc(j))
        /\ Has(new, 0, old) /\ Has(new, Size(old), enc(j))
    <3>1. /\ old \o enc(j) \in Data /\ Size(old \o enc(j)) = Size(old) + Size(enc(j))
          /\ Has(old \o enc(j), 0, old) /\ Has(old \o enc(j), Size(old), enc(j))
      BY <2>3, <2>4, Joins, HasParts
    <3> QED
      BY ONLY <2>5, <3>1, Zenon
  <2>7. Size(new) \in Nat /\ Size(new) >= j
    BY <2>1, <2>3, <2>4, <2>6
  <2>8. ASSUME NEW i \in 1 .. j
        PROVE  /\ Has(new, Size(y[i - 1]), enc(i))
               /\ Size(y[i]) = Size(y[i - 1]) + Size(enc(i))
    <3>1. CASE i = j
      BY <2>6, <3>1
    <3>2. CASE i # j
      <4>1. i \in 1 .. j - 1 /\ i \in 1 .. N
        <5>1. i \in Int /\ 1 <= i /\ i <= j /\ j \in Nat /\ j <= N /\ N \in Nat
          BY <1>1
        <5> QED
          BY ONLY <3>2, <5>1
      <4>2. Has(old, Size(y[i - 1]), enc(i)) /\ Size(y[i]) = Size(y[i - 1]) + Size(enc(i))
        BY <2>3, <4>1
      <4>3. enc(i) \in Data
        BY <1>2, <4>1
      <4>4. y[i - 1] \in Data
        <5>1. i - 1 \in 0 .. N
          BY <1>1, <4>1
        <5> QED
          BY <1>3, <5>1
      <4>5. Size(y[i - 1]) \in Nat /\ 0 + Size(y[i - 1]) = Size(y[i - 1])
        BY <4>4, Elements
      <4>6. Has(new, 0 + Size(y[i - 1]), enc(i))
        BY <2>3, <2>6, <4>2, <4>3, <4>5, HasWithin
      <4> QED
        BY <4>2, <4>5, <4>6
    <3> QED
      BY <3>1, <3>2
  <2>9. Good(j)
    BY <2>6, <2>7, <2>8
  <2> HIDE DEF Good
  <2> QED
    BY <2>1, <2>9
<1> HIDE DEF S
<1>6. \A j \in 0 .. N : j \in S
  BY <1>1, <1>4, <1>5, UpTo
<1> QED
  BY <1>6 DEF S, N, enc

\* z[n] is where the n-th structure of a packet ends, and the walk finds it so.
PacketLaid(packet, z) ==
    LET N    == Len(packet.structures)
        data == Bytes(packet)
    IN  /\ z \in [0 .. N -> Nat] /\ z[0] = 0
        /\ \A n \in 1 .. N :
              /\ z[n - 1] < Size(data) /\ ~ IsBroken(data, z[n - 1])
              /\ NextOffset(data, z[n - 1]) = z[n]
              /\ StructureAt(data, z[n - 1])
                   = [type |-> packet.structures[n].type, payload |-> Payload(packet.structures[n])]
        /\ N <= Size(data)
        /\ z[N] >= Size(data) \/ IsBroken(data, z[N])

\* What the walk finds at a structure.
LEMMA AtStructure ==
  ASSUME NEW data \in Data, NEW s \in AdStructure, Len(Payload(s)) < 255,
         NEW i \in Nat, Has(data, i, Encoded(s))
  PROVE  /\ i < Size(data) /\ ~ IsBroken(data, i)
         /\ NextOffset(data, i) = i + Size(Encoded(s))
         /\ StructureAt(data, i) = [type |-> s.type, payload |-> Payload(s)]
<1> DEFINE p == Payload(s)
           h == <<Size(p) + 1, s.type>>
<1>1. /\ p \in Data /\ Size(p) \in Nat /\ Size(p) + 1 \in Byte /\ s.type \in Byte
      /\ Encoded(s) \in Data /\ Size(Encoded(s)) = Size(p) + 2
      /\ Has(Encoded(s), 0, h) /\ Has(Encoded(s), 2, p)
  BY EncodedIs
<1> HIDE DEF p
<1>2. h \in Data
  BY <1>1, TwoBytes
<1>3. Has(data, i + 0, h) /\ Has(data, i + 2, p)
  <2> HIDE DEF h
  <2> QED
    BY <1>1, <1>2, HasWithin
<1>4. Has(data, i, h)
  BY <1>3
<1>5. At(data, i) = Size(p) + 1 /\ At(data, i + 1) = s.type
  BY <1>1, <1>4, HasTwo
<1>6. Size(data) \in Nat /\ i + (Size(p) + 2) <= Size(data) /\ Len(data) = Size(data)
  BY <1>1, Elements DEF Has, Size
<1>7. i < Size(data) /\ ~ IsBroken(data, i)
  BY <1>1, <1>5, <1>6 DEF IsBroken
<1>8. NextOffset(data, i) = i + (Size(p) + 2) /\ i + (Size(p) + 2) = (i + 2) + Size(p)
  BY <1>1, <1>5 DEF NextOffset
<1>9. Slice(data, i + 2, NextOffset(data, i)) = p
  <2>1. i + 2 \in Nat
    OBVIOUS
  <2> QED
    BY <1>1, <1>3, <1>8, <2>1, HasSlice
<1> QED
  BY <1>1, <1>5, <1>7, <1>8, <1>9, Zenon DEF StructureAt, p

LEMMA PacketIsLaid ==
  ASSUME NEW packet \in Sendable
  PROVE  Bytes(packet) \in Data /\ \E z : PacketLaid(packet, z)
<1> DEFINE N == Len(packet.structures)
           S == packet.structures
           data == Bytes(packet)
           tail == packet.tail
<1>1. PICK y : PacketRun(packet, y) /\ data = y[N] \o tail
  BY PacketRuns
<1>2. /\ N \in Nat /\ tail \in Data /\ (tail = <<>> \/ IsBroken(tail, 0))
      /\ \A n \in 1 .. N : S[n] \in AdStructure /\ Len(Payload(S[n])) < 255
  BY SendableIs
<1>3. \A j \in 0 .. N : /\ y[j] \in Data /\ Size(y[j]) \in Nat /\ Size(y[j]) >= j
                        /\ \A i \in 1 .. j : /\ Has(y[j], Size(y[i - 1]), Encoded(S[i]))
                                             /\ Size(y[i]) = Size(y[i - 1]) + Size(Encoded(S[i]))
  BY <1>1, RunHas
<1>4. y[0] = <<>>
  BY <1>1 DEF PacketRun
<1> DEFINE z == [n \in 0 .. N |-> Size(y[n])]
<1> HIDE DEF N, S, data, tail
<1>5. N \in 0 .. N /\ 0 \in 0 .. N
  BY <1>2
<1>6. /\ data \in Data /\ Size(data) = Size(y[N]) + Size(tail)
      /\ Has(data, 0, y[N]) /\ Has(data, Size(y[N]), tail)
  BY <1>1, <1>2, <1>3, <1>5, Joins, HasParts
<1>7. Size(tail) \in Nat /\ Size(data) \in Nat /\ Size(y[N]) \in Nat /\ Size(y[N]) >= N
  BY <1>2, <1>3, <1>5, <1>6, Elements
<1>8. \A n \in 0 .. N : z[n] = Size(y[n])
  OBVIOUS
<1>9. z \in [0 .. N -> Nat]
  BY <1>3
<1> HIDE DEF z
<1>10. z[0] = 0
  BY <1>4, <1>5, <1>8, NoBytes
<1>11. ASSUME NEW n \in 1 .. N
       PROVE  /\ z[n - 1] < Size(data) /\ ~ IsBroken(data, z[n - 1])
              /\ NextOffset(data, z[n - 1]) = z[n]
              /\ StructureAt(data, z[n - 1]) = [type |-> S[n].type, payload |-> Payload(S[n])]
  <2>1. n \in 0 .. N /\ n - 1 \in 0 .. N
    BY <1>2
  <2>2. z[n - 1] = Size(y[n - 1]) /\ z[n - 1] \in Nat /\ z[n] = Size(y[n])
    BY <1>3, <1>8, <2>1
  <2>3. S[n] \in AdStructure /\ Len(Payload(S[n])) < 255
    BY <1>2
  <2>4. Encoded(S[n]) \in Data
    BY <2>3, EncodedIs
  <2>5. y[N] \in Data /\ Has(y[N], z[n - 1], Encoded(S[n])) /\ z[n] = z[n - 1] + Size(Encoded(S[n]))
    BY <1>3, <1>5, <2>2
  <2>6. Has(data, 0 + z[n - 1], Encoded(S[n])) /\ 0 + z[n - 1] = z[n - 1]
    BY <1>6, <2>2, <2>4, <2>5, HasWithin
  <2> QED
    BY <1>6, <2>2, <2>3, <2>5, <2>6, AtStructure
<1>12. N <= Size(data)
  BY <1>2, <1>6, <1>7
<1>13. z[N] >= Size(data) \/ IsBroken(data, z[N])
  <2>1. z[N] = Size(y[N])
    BY <1>5, <1>8
  <2>2. CASE tail = <<>>
    <3>1. Size(tail) = 0
      BY <2>2, NoBytes
    <3> QED
      BY <1>6, <1>7, <2>1, <3>1
  <2>3. CASE tail # <<>> /\ IsBroken(tail, 0)
    <3>1. Size(tail) >= 1
      BY <1>2, <2>3 DEF Data, Size
    <3>2. At(tail, 0) \in Nat /\ At(data, z[N]) = At(tail, 0)
      <4>1. 1 \in 1 .. Size(tail) /\ 0 + 1 = 1
        BY <1>7, <3>1
      <4>2. tail[1] \in Byte /\ data[z[N] + 1] = tail[1]
        BY <1>2, <1>6, <2>1, <4>1, Elements DEF Has
      <4> QED
        BY <4>1, <4>2 DEF At, Byte
    <3>3. At(tail, 0) = 0 \/ At(tail, 0) >= Size(tail)
      BY <2>3, <3>2 DEF IsBroken, Size
    <3>4. At(data, z[N]) = 0 \/ z[N] + At(data, z[N]) >= Size(data)
      BY <1>6, <1>7, <2>1, <3>2, <3>3
    <3> QED
      BY <3>4 DEF IsBroken, Size
  <2> QED
    BY <1>2, <2>2, <2>3
<1>14. PacketLaid(packet, z)
  BY <1>9, <1>10, <1>11, <1>12, <1>13 DEF PacketLaid, N, S, data
<1> QED
  BY <1>6, <1>14 DEF data

----------------------------------------------------------------------------
(* What the parser reads.                                                  *)

\* What the walk should see of a packet.
Sent(packet) ==
    [k \in 1 .. Len(packet.structures) |->
        [type |-> packet.structures[k].type, payload |-> Payload(packet.structures[k])]]

\* The walk goes through the structures as they were sent, and stops behind them.
LEMMA StructuresAreSent ==
  ASSUME NEW packet \in Sendable
  PROVE  Structures(Bytes(packet)) = Sent(packet)
<1> DEFINE N == Len(packet.structures)
           data == Bytes(packet)
           M == Len(data)
           sent == Sent(packet)
           Solves(f) == f = [n \in 0 .. M |-> IF n = 0 THEN AtStart ELSE Walks(f[n - 1], data)]
           loop == CHOOSE f : Solves(f)
<1>1. data \in Data
  BY PacketIsLaid
<1>2. PICK z : PacketLaid(packet, z)
  BY PacketIsLaid
<1>3. M = Size(data) /\ M \in Nat /\ N \in Nat
  BY <1>1, SendableIs, Elements DEF Size
<1>4. /\ z[0] = 0 /\ N <= M
      /\ z[N] >= Len(data) \/ IsBroken(data, z[N])
  BY <1>2, <1>3 DEF PacketLaid
<1> DEFINE T == {[type |-> packet.structures[k].type, payload |-> Payload(packet.structures[k])] :
                   k \in 1 .. N}
<1>5. sent \in Seq(T) /\ Len(sent) = N
  <2>1. sent \in [1 .. N -> T]
    BY DEF Sent
  <2> QED
    BY <1>3, <2>1
<1>6. ASSUME NEW n \in 1 .. N
      PROVE  /\ z[n - 1] \in Nat /\ z[n - 1] < M /\ ~ IsBroken(data, z[n - 1])
             /\ NextOffset(data, z[n - 1]) = z[n]
             /\ StructureAt(data, z[n - 1]) = sent[n]
  <2>1. n - 1 \in 0 .. N
    BY <1>3
  <2>2. sent[n] = [type |-> packet.structures[n].type, payload |-> Payload(packet.structures[n])]
    BY DEF Sent
  <2> HIDE DEF sent
  <2> QED
    BY <1>2, <1>3, <2>1, <2>2 DEF PacketLaid
<1>7. Structures(data) = loop[M].seen
  BY DEF Structures
<1>8. \A f : Solves(f) <=> f = [n \in 0 .. M |-> IF n = 0 THEN AtStart ELSE Walks(f[n - 1], data)]
  OBVIOUS
<1> DEFINE state(n) == [offset |-> z[n], seen |-> SubSeq(sent, 1, n)]
           g == [n \in 0 .. M |-> IF n <= N THEN state(n) ELSE state(N)]
<1>9. state(0) = AtStart
  BY <1>4, <1>5, SubSeqEmpty DEF AtStart
<1>10. ASSUME NEW n \in 1 .. N PROVE Walks(state(n - 1), data) = state(n)
  <2>1. ~ (z[n - 1] >= Len(data) \/ IsBroken(data, z[n - 1]))
    BY <1>3, <1>6
  <2> DEFINE l == state(n - 1)
  <2>2. l.offset = z[n - 1] /\ l.seen = SubSeq(sent, 1, n - 1)
    OBVIOUS
  <2>3. SubSeq(sent, 1, n) = Append(SubSeq(sent, 1, n - 1), sent[n])
    <3> HIDE DEF sent, T
    <3>1. SubSeq(sent, 1, n) = SubSeq(sent, 1, n - 1) \o <<sent[n]>>
      BY <1>5, NextOf
    <3>2. SubSeq(sent, 1, n - 1) \in Seq(T) /\ sent[n] \in T
      <4>1. n - 1 \in 0 .. Len(sent) /\ n \in 1 .. Len(sent)
        BY <1>3, <1>5
      <4> QED
        BY <1>5, <4>1, FirstOf, ElementsOf
    <3> QED
      BY <3>1, <3>2, AppendIsConcat
  <2> HIDE DEF l
  <2>4. Walks(l, data) = [offset |-> NextOffset(data, z[n - 1]),
                          seen |-> Append(l.seen, StructureAt(data, z[n - 1]))]
    BY <2>1, <2>2, Zenon DEF Walks
  <2> QED
    BY <1>6, <2>2, <2>3, <2>4, Zenon DEF l
<1>11. Walks(state(N), data) = state(N)
  <2> DEFINE l == state(N)
  <2>1. l.offset = z[N]
    OBVIOUS
  <2> HIDE DEF l
  <2>2. l.offset >= Len(data) \/ IsBroken(data, l.offset)
    BY <1>4, <2>1, Zenon
  <2>3. Walks(l, data) = l
    BY <2>2, Zenon DEF Walks
  <2> QED
    BY <2>3 DEF l
<1> HIDE DEF M, N, data, sent, state, T
<1>12. g[0] = state(0) /\ g[M] = state(N) /\ \A n \in 1 .. M : n - 1 \in 0 .. M /\ n \in 0 .. M
  BY <1>3, <1>4
<1>13. ASSUME NEW n \in 1 .. M PROVE g[n] = Walks(g[n - 1], data)
  <2>1. n \in 0 .. M /\ n - 1 \in 0 .. M
    BY <1>12
  <2>2. CASE n <= N
    <3>1. n \in 1 .. N /\ n - 1 <= N
      BY <1>3, <2>2
    <3>2. g[n] = state(n) /\ g[n - 1] = state(n - 1)
      BY <2>1, <2>2, <3>1
    <3> QED
      BY <1>10, <3>1, <3>2
  <2>3. CASE ~ (n <= N)
    <3>1. g[n] = state(N)
      BY <2>1, <2>3
    <3>2. g[n - 1] = state(N)
      <4>1. n - 1 = N \/ ~ (n - 1 <= N)
        BY <1>3, <2>3
      <4> QED
        BY <2>1, <4>1
    <3> QED
      BY <1>11, <3>1, <3>2
  <2> QED
    BY <2>2, <2>3
<1>14. Solves(g)
  <2>1. g = [n \in 0 .. M |-> g[n]]
    OBVIOUS
  <2>2. \A n \in 0 .. M : g[n] = IF n = 0 THEN AtStart ELSE Walks(g[n - 1], data)
    <3>1. \A n \in 0 .. M : n = 0 \/ n \in 1 .. M
      BY <1>3
    <3> HIDE DEF g
    <3> QED
      BY <1>9, <1>12, <1>13, <3>1
  <2> HIDE DEF g
  <2>3. g = [n \in 0 .. M |-> IF n = 0 THEN AtStart ELSE Walks(g[n - 1], data)]
    BY <2>1, <2>2
  <2> HIDE DEF Solves
  <2> QED
    BY <1>8, <2>3
<1> HIDE DEF g, Solves
<1>15. Solves(loop)
  BY <1>14
<1> HIDE DEF loop
<1>16. loop[0] = AtStart /\ \A n \in 1 .. M : loop[n] = Walks(loop[n - 1], data)
  <2>1. loop = [n \in 0 .. M |-> IF n = 0 THEN AtStart ELSE Walks(loop[n - 1], data)]
    BY <1>8, <1>15
  <2>2. 0 \in 0 .. M /\ \A n \in 1 .. M : n \in 0 .. M /\ n # 0
    BY <1>3
  <2> QED
    BY <2>1, <2>2
<1>17. loop[M] = g[M]
  <2> DEFINE S == {n \in 0 .. M : loop[n] = g[n]}
  <2>1. 0 \in S
    BY <1>3, <1>9, <1>12, <1>16
  <2>2. ASSUME NEW n \in 1 .. M, n - 1 \in S PROVE n \in S
    BY <1>12, <1>13, <1>16, <2>2
  <2> HIDE DEF S
  <2>3. M \in 0 .. M /\ \A n \in 0 .. M : n \in S
    BY <1>3, <2>1, <2>2, UpTo
  <2> QED
    BY <2>3 DEF S
<1>18. loop[M].seen = SubSeq(sent, 1, N)
  <2>1. loop[M] = state(N)
    BY <1>12, <1>17, Zenon
  <2>2. state(N).seen = SubSeq(sent, 1, N)
    BY DEF state
  <2> QED
    BY <2>1, <2>2, Zenon
<1> QED
  BY <1>5, <1>7, <1>18, WholeSubSeq DEF data, sent, N

\* ASCII takes a byte for each character.
LEMMA AsciiIsShort ==
  ASSUME NEW chars \in Seq(0 .. 127)
  PROVE  Utf8Len(chars) = Len(chars)
<1> DEFINE N == Len(chars)
           Solves(f) == f = [k \in 0 .. N |-> IF k = 0 THEN 0 ELSE f[k - 1] + CharLen(chars[k])]
           upTo == CHOOSE f : Solves(f)
           g == [k \in 0 .. N |-> k]
<1>1. N \in Nat /\ \A k \in 1 .. N : CharLen(chars[k]) = 1
  <2>1. N \in Nat /\ DOMAIN chars = 1 .. N /\ \A k \in DOMAIN chars : chars[k] \in 0 .. 127
    <3>1. N \in Nat /\ DOMAIN chars = 1 .. N
      OBVIOUS
    <3>2. \A k \in DOMAIN chars : chars[k] \in 0 .. 127
      BY ElementsOf, Zenon
    <3> QED
      BY <3>1, <3>2
  <2>2. ASSUME NEW b \in 0 .. 127 PROVE CharLen(b) = 1
    BY DEF CharLen
  <2> HIDE DEF N
  <2> QED
    BY <2>1, <2>2
<1>2. Utf8Len(chars) = upTo[N]
  BY DEF Utf8Len
<1>3. \A f : Solves(f) <=> f = [k \in 0 .. N |-> IF k = 0 THEN 0 ELSE f[k - 1] + CharLen(chars[k])]
  OBVIOUS
<1> HIDE DEF N
<1>4. Solves(g)
  <2>1. \A k \in 0 .. N : k = IF k = 0 THEN 0 ELSE g[k - 1] + CharLen(chars[k])
    <3> SUFFICES ASSUME NEW k \in 0 .. N, k # 0 PROVE k = g[k - 1] + CharLen(chars[k])
      OBVIOUS
    <3>1. k \in 1 .. N /\ k - 1 \in 0 .. N
      BY <1>1
    <3>2. g[k - 1] = k - 1 /\ CharLen(chars[k]) = 1
      BY <1>1, <3>1
    <3> HIDE DEF g
    <3> QED
      BY <1>1, <3>1, <3>2
  <2>2. g = [k \in 0 .. N |-> IF k = 0 THEN 0 ELSE g[k - 1] + CharLen(chars[k])]
    BY <2>1
  <2> HIDE DEF g, Solves
  <2> QED
    BY <1>3, <2>2
<1> HIDE DEF Solves
<1>5. Solves(upTo)
  BY <1>4
<1> HIDE DEF upTo, g
<1>6. upTo[0] = 0 /\ \A k \in 1 .. N : upTo[k] = upTo[k - 1] + CharLen(chars[k])
  <2>1. upTo = [k \in 0 .. N |-> IF k = 0 THEN 0 ELSE upTo[k - 1] + CharLen(chars[k])]
    BY <1>3, <1>5
  <2>2. 0 \in 0 .. N /\ \A k \in 1 .. N : k \in 0 .. N /\ k # 0
    BY <1>1
  <2> QED
    BY <2>1, <2>2
<1> DEFINE S == {k \in 0 .. N : upTo[k] = k}
<1>7. 0 \in S
  BY <1>1, <1>6
<1>8. ASSUME NEW k \in 1 .. N, k - 1 \in S PROVE k \in S
  BY <1>1, <1>6, <1>8
<1> HIDE DEF S
<1>9. N \in 0 .. N /\ \A k \in 0 .. N : k \in S
  <2>1. \A k \in 0 .. N : k \in S
    BY <1>1, <1>7, <1>8, UpTo
  <2> QED
    BY <1>1, <2>1
<1> QED
  BY <1>2, <1>9 DEF S, N

\* A name in ASCII is cut off at the capacity.
LEMMA NameIsCut ==
  ASSUME NEW chars \in Seq(0 .. 127)
  PROVE  PushAll(chars) = SubSeq(chars, 1, IF Len(chars) < NAME_CAP THEN Len(chars) ELSE NAME_CAP)
<1> DEFINE N == Len(chars)
           c == IF N < NAME_CAP THEN N ELSE NAME_CAP
           fits == {k \in 0 .. N : Utf8Len(SubSeq(chars, 1, k)) <= NAME_CAP}
           last == CHOOSE k \in fits : \A j \in fits : j <= k
<1>1. N \in Nat /\ NAME_CAP \in Nat
  BY NameCapAssumption
<1>2. \A k \in 0 .. N : Utf8Len(SubSeq(chars, 1, k)) = k
  <2> SUFFICES ASSUME NEW k \in 0 .. N PROVE Utf8Len(SubSeq(chars, 1, k)) = k
    OBVIOUS
  <2>1. SubSeq(chars, 1, k) \in Seq(0 .. 127) /\ Len(SubSeq(chars, 1, k)) = k
    BY FirstOf
  <2> QED
    BY <2>1, AsciiIsShort
<1>3. PushAll(chars) = SubSeq(chars, 1, last)
  BY DEF PushAll
<1> HIDE DEF N
<1>4. fits = {k \in 0 .. N : k <= NAME_CAP}
  BY <1>2
<1> HIDE DEF fits
<1>5. c \in fits /\ \A j \in fits : j <= c
  BY <1>1, <1>4
<1>6. last \in fits /\ \A j \in fits : j <= last
  BY <1>5
<1> HIDE DEF last, c
<1>7. last = c
  <2>1. last \in Int /\ c \in Int /\ last <= c /\ c <= last
    BY <1>4, <1>5, <1>6
  <2> QED
    BY ONLY <2>1
<1> QED
  BY <1>3, <1>7 DEF c, N

\* Whatever services, names and other structures a peripheral puts into its
\* packets, and whatever it fills them up with, the parser finds the HID
\* service just if it was sent, and the first name (adv_parser.rs:4-52).
THEOREM EveryPacketIsRead ==
  ASSUME NEW packet \in Sendable
  PROVE  /\ contains_hid_service_uuid(Bytes(packet)) <=> OffersHid(packet)
         /\ extract_device_name(Bytes(packet)) = NameIn(packet)
<1> DEFINE N == Len(packet.structures)
           S == packet.structures
           data == Bytes(packet)
           sent == Sent(packet)
<1>1. Structures(data) = sent
  BY StructuresAreSent
<1>2. N \in Nat /\ DOMAIN S = 1 .. N /\ \A k \in 1 .. N : S[k] \in AdStructure
  BY SendableIs
<1>3. /\ DOMAIN sent = 1 .. N
      /\ \A k \in 1 .. N : sent[k].type = S[k].type /\ sent[k].payload = Payload(S[k])
  BY DEF Sent
<1> HIDE DEF sent, data, N
<1>4. contains_hid_service_uuid(data) <=> OffersHid(packet)
  <2>1. contains_hid_service_uuid(data)
          <=> \E k \in 1 .. N : S[k].type \in {2, 3} /\ HID_SERVICE \in Uuids(Payload(S[k]))
    BY <1>1, <1>3 DEF contains_hid_service_uuid
  <2>2. ASSUME NEW k \in 1 .. N
        PROVE  (S[k].type \in {2, 3} /\ HID_SERVICE \in Uuids(Payload(S[k])))
                 <=> (S[k].kind = "services" /\ HID_SERVICE \in Range(S[k].uuids))
    <3>1. S[k] \in AdStructure
      BY <1>2
    <3>2. S[k].type \in {2, 3} <=> S[k].kind = "services"
      BY <3>1, Kinds
    <3>3. S[k].kind = "services" => Uuids(Payload(S[k])) = Range(S[k].uuids)
      BY <3>1, ServicesPayload
    <3> QED
      BY <3>2, <3>3
  <2>3. OffersHid(packet)
          <=> \E k \in 1 .. N : S[k].kind = "services" /\ HID_SERVICE \in Range(S[k].uuids)
    BY <1>2 DEF OffersHid
  <2> HIDE DEF S
  <2> QED
    BY <2>1, <2>2, <2>3
<1>5. extract_device_name(data) = NameIn(packet)
  <2> DEFINE seen == {k \in 1 .. N : sent[k].type \in {8, 9}}
             names == {k \in 1 .. N : S[k].kind = "name"}
             first == CHOOSE k \in names : \A j \in names : k <= j
  <2>1. seen = names
    <3>1. ASSUME NEW k \in 1 .. N PROVE sent[k].type \in {8, 9} <=> S[k].kind = "name"
      <4>1. S[k] \in AdStructure /\ sent[k].type = S[k].type
        BY <1>2, <1>3
      <4> QED
        BY <4>1, Kinds
    <3> QED
      BY <3>1
  <2>2. extract_device_name(data) = IF seen = {} THEN Unknown
           ELSE PushAll(sent[CHOOSE k \in seen : \A j \in seen : k <= j].payload)
    BY <1>1, <1>3 DEF extract_device_name
  <2>3. NameIn(packet) = IF names = {} THEN Unknown
                         ELSE SubSeq(S[first].chars, 1, IF Len(S[first].chars) < NAME_CAP
                                                          THEN Len(S[first].chars) ELSE NAME_CAP)
    BY <1>2 DEF NameIn
  <2>4. ASSUME names # {}
        PROVE  /\ sent[first].payload = S[first].chars /\ S[first].chars \in Seq(0 .. 127)
    <3>1. names \in SUBSET Nat
      BY <1>2
    <3>2. \E k \in names : \A j \in names : k <= j
      <4> HIDE DEF names
      <4> QED
        BY <2>4, <3>1, LeastExists
    <3>3. first \in names
      <4> HIDE DEF names
      <4> QED
        BY <3>2
    <3> HIDE DEF first
    <3>4. first \in 1 .. N /\ S[first].kind = "name" /\ S[first] \in AdStructure
      BY <1>2, <3>3
    <3>5. S[first].chars \in Seq(0 .. 127) /\ Payload(S[first]) = S[first].chars
      BY <3>4, Kinds DEF Payload
    <3> QED
      BY <1>3, <3>4, <3>5
  <2> HIDE DEF seen, names
  <2>5. CASE names = {}
    BY <2>1, <2>2, <2>3, <2>5
  <2>6. CASE names # {}
    <3>1. PushAll(sent[first].payload)
            = SubSeq(S[first].chars, 1, IF Len(S[first].chars) < NAME_CAP
                                          THEN Len(S[first].chars) ELSE NAME_CAP)
      BY <2>4, <2>6, NameIsCut
    <3>2. extract_device_name(data) = PushAll(sent[first].payload)
      BY <2>1, <2>2, <2>6
    <3> HIDE DEF first
    <3> QED
      BY <2>3, <2>6, <3>1, <3>2
  <2> QED
    BY <2>5, <2>6
<1> QED
  BY <1>4, <1>5 DEF data

\* So it is with the packets of the peripherals in reach.
LEMMA PacketsAreRead ==
  ParserReads
<1>1. Packets \subseteq Sendable
  BY ProfilesAssumption DEF Packets
<1> QED
  BY <1>1, EveryPacketIsRead DEF ParserReads

----------------------------------------------------------------------------
(* The scan.                                                               *)

\* What the callback makes of a packet, and the devices the list can hold.
IsHid(packet) == contains_hid_service_uuid(Bytes(packet))

NameOf(packet) == extract_device_name(Bytes(packet))

Device == [address : Address, name : {NameOf(packet) : packet \in Packets}]

----------------------------------------------------------------------------
(* The invariant.                                                          *)

EachOnce(devices) ==
    \A j, k \in DOMAIN devices : j # k => devices[j].address # devices[k].address

\* The list as the scan fills it: it has room, and holds the peripherals of
\* which a packet with the HID service was heard.
FillsFromHeard ==
    phase = "scanning" =>
        /\ Len(found) < BLE_MAX_DISCOVERED
        /\ Addresses(found) = {h[1] : h \in {h \in heard : IsHid(air[h[1]][h[2]])}}

\* The name of a device comes from the packet that had the service.
NamedFromPacket ==
    \A k \in DOMAIN found :
        \E packet \in {air[found[k].address].adv, air[found[k].address].rsp} :
            IsHid(packet) /\ found[k].name = NameOf(packet)

ScanTyped ==
    /\ air \in [Address -> Profiles]
    /\ phase \in {"idle", "scanning", "telling"}
    /\ clock \in Int
    /\ found \in Seq(Device) /\ Len(found) <= BLE_MAX_DISCOVERED
    /\ last_scan \in Seq(Device) /\ Len(last_scan) <= BLE_MAX_DISCOVERED
    /\ heard \subseteq Address \X {"adv", "rsp"}

ScanInv ==
    /\ ScanTyped
    /\ EachOnce(found) /\ EachOnce(last_scan)
    /\ FillsFromHeard /\ NamedFromPacket
    /\ phase = "idle" => found = <<>> /\ heard = {}

LEMMA PacketsAreSent ==
  ASSUME ScanTyped, NEW p \in Address, NEW which \in {"adv", "rsp"}
  PROVE  /\ air[p][which] \in Packets
         /\ air[p][which] \in {air[p].adv, air[p].rsp}
BY DEF ScanTyped, Packets

\* The empty list.
LEMMA NoDevices ==
  /\ <<>> \in Seq(Device) /\ Len(<<>>) = 0 /\ DOMAIN <<>> = {}
  /\ EachOnce(<<>>) /\ Addresses(<<>>) = {}
<1>1. <<>> \in Seq(Device) /\ Len(<<>>) = 0 /\ DOMAIN <<>> = {}
  OBVIOUS
<1> QED
  BY <1>1 DEF EachOnce, Addresses

\* What the callback does to the list.
LEMMA Notices ==
  ASSUME NEW devices \in Seq(Device), EachOnce(devices), Len(devices) < BLE_MAX_DISCOVERED,
         NEW p \in Address, NEW packet \in Packets
  PROVE  LET after == Noticed(devices, p, Bytes(packet)) IN
         /\ after \in Seq(Device) /\ Len(after) <= BLE_MAX_DISCOVERED
         /\ EachOnce(after)
         /\ Addresses(after) = IF IsHid(packet) THEN Addresses(devices) \cup {p}
                                                ELSE Addresses(devices)
         /\ \A k \in DOMAIN after :
               \/ k \in DOMAIN devices /\ after[k] = devices[k]
               \/ IsHid(packet) /\ after[k] = [address |-> p, name |-> NameOf(packet)]
<1> DEFINE d == [address |-> p, name |-> NameOf(packet)]
           n == Len(devices)
           longer == Append(devices, d)
           after == Noticed(devices, p, Bytes(packet))
<1>1. d \in Device /\ d.address = p
  BY DEF Device
<1>2. n \in Nat /\ DOMAIN devices = 1 .. n /\ \A k \in 1 .. n : devices[k] \in Device
  OBVIOUS
<1>3. after = IF IsHid(packet) /\ p \notin Addresses(devices) THEN longer ELSE devices
  BY DEF Noticed, IsHid, NameOf
<1>4. CASE ~ (IsHid(packet) /\ p \notin Addresses(devices))
  <2>1. after = devices
    BY <1>3, <1>4
  <2>2. IsHid(packet) => Addresses(devices) = Addresses(devices) \cup {p}
    BY <1>4
  <2>3. devices \in Seq(Device) /\ Len(devices) <= BLE_MAX_DISCOVERED
    BY <1>2, ScannerAssumption
  <2> QED
    BY <2>1, <2>2, <2>3
<1>5. CASE IsHid(packet) /\ p \notin Addresses(devices)
  <2>1. after = longer
    BY <1>3, <1>5
  <2> HIDE DEF d, after
  <2>2. /\ longer \in Seq(Device) /\ Len(longer) = n + 1 /\ DOMAIN longer = 1 .. n + 1
        /\ longer[n + 1] = d /\ \A k \in 1 .. n : longer[k] = devices[k]
    BY <1>1
  <2> HIDE DEF longer, n
  <2>3. /\ \A k \in 1 .. n + 1 : k \in 1 .. n \/ k = n + 1
        /\ \A k \in 1 .. n : k \in 1 .. n + 1 /\ k # n + 1
        /\ n + 1 \in 1 .. n + 1
    BY <1>2
  <2>4. \A k \in 1 .. n : devices[k].address # p
    BY <1>2, <1>5 DEF Addresses
  <2>5. EachOnce(longer)
    BY <1>1, <1>2, <2>2, <2>3, <2>4 DEF EachOnce
  <2>6. Addresses(longer) = Addresses(devices) \cup {p}
    <3>1. ASSUME NEW a \in Addresses(longer) PROVE a \in Addresses(devices) \cup {p}
      BY <1>1, <1>2, <2>2, <2>3, <3>1 DEF Addresses
    <3>2. ASSUME NEW a \in Addresses(devices) PROVE a \in Addresses(longer)
      <4>1. PICK k \in 1 .. n : a = devices[k].address
        BY <1>2 DEF Addresses
      <4>2. k \in DOMAIN longer /\ longer[k] = devices[k]
        BY <2>2, <2>3
      <4> QED
        BY <4>1, <4>2 DEF Addresses
    <3>3. p \in Addresses(longer)
      BY <1>1, <2>2, <2>3 DEF Addresses
    <3> QED
      BY <3>1, <3>2, <3>3
  <2>7. Len(longer) <= BLE_MAX_DISCOVERED
    BY <1>2, <2>2, ScannerAssumption DEF n
  <2>8. \A k \in DOMAIN longer :
           \/ k \in DOMAIN devices /\ longer[k] = devices[k]
           \/ IsHid(packet) /\ longer[k] = d
    BY <1>2, <1>5, <2>2, <2>3
  <2> QED
    BY <1>5, <2>1, <2>2, <2>5, <2>6, <2>7, <2>8 DEF d, after
<1> QED
  BY <1>4, <1>5

LEMMA ScanInitially == Init => ScanInv
<1> SUFFICES ASSUME Init PROVE ScanInv
  OBVIOUS
<1>1. ScanTyped
  BY NoDevices, ScannerAssumption DEF Init, ScanTyped
<1> QED
  BY <1>1, NoDevices DEF Init, ScanInv, FillsFromHeard, NamedFromPacket

\* A step that leaves the lists alone, and one that ends the scan.
LEMMA ListsKept ==
  ASSUME ScanInv, UNCHANGED <<air, found, last_scan, heard>>, clock' \in Int,
         phase' = phase \/ (phase # "idle" /\ phase' = "telling")
  PROVE  ScanInv'
<1>1. ScanTyped'
  BY DEF ScanInv, ScanTyped
<1>2. EachOnce(found)' /\ EachOnce(last_scan)' /\ NamedFromPacket'
  BY DEF ScanInv, EachOnce, NamedFromPacket
<1>3. FillsFromHeard'
  BY DEF ScanInv, FillsFromHeard, Addresses
<1> QED
  BY <1>1, <1>2, <1>3 DEF ScanInv, ScanTyped

\* The callback, in the window.
LEMMA CallbackKeeps ==
  ASSUME ScanInv, NEW p \in Address, NEW which \in {"adv", "rsp"}, phase = "scanning",
         found' = Noticed(found, p, Bytes(air[p][which])),
         heard' = heard \cup {<<p, which>>},
         UNCHANGED <<air, clock, last_scan>>,
         IF is_full(found') THEN phase' = "telling" ELSE phase' = phase
  PROVE  ScanInv'
<1> DEFINE packet == air[p][which]
           Hid(h) == IsHid(air[h[1]][h[2]])
<1>1. /\ ScanTyped /\ EachOnce(found) /\ EachOnce(last_scan) /\ NamedFromPacket
      /\ Len(found) < BLE_MAX_DISCOVERED
      /\ Addresses(found) = {h[1] : h \in {h \in heard : Hid(h)}}
  BY DEF ScanInv, FillsFromHeard
<1>2. packet \in Packets /\ packet \in {air[p].adv, air[p].rsp}
  BY <1>1, PacketsAreSent
<1>3. found \in Seq(Device) /\ air \in [Address -> Profiles]
      /\ heard \subseteq Address \X {"adv", "rsp"}
  BY <1>1 DEF ScanTyped
<1>4. found' = Noticed(found, p, Bytes(packet))
  OBVIOUS
<1> HIDE DEF packet
<1>5. /\ found' \in Seq(Device) /\ Len(found') <= BLE_MAX_DISCOVERED
      /\ EachOnce(found')
      /\ Addresses(found') = IF IsHid(packet) THEN Addresses(found) \cup {p} ELSE Addresses(found)
      /\ \A k \in DOMAIN found' :
            \/ k \in DOMAIN found /\ found'[k] = found[k]
            \/ IsHid(packet) /\ found'[k] = [address |-> p, name |-> NameOf(packet)]
  BY <1>1, <1>2, <1>3, <1>4, Notices
<1>6. ScanTyped'
  BY <1>1, <1>5 DEF ScanTyped, is_full
<1>7. FillsFromHeard'
  <2>1. {h[1] : h \in {h \in heard' : Hid(h)}}
          = {h[1] : h \in {h \in heard : Hid(h)}} \cup (IF Hid(<<p, which>>) THEN {p} ELSE {})
    <3>1. {h \in heard' : Hid(h)}
            = {h \in heard : Hid(h)} \cup (IF Hid(<<p, which>>) THEN {<<p, which>>} ELSE {})
      OBVIOUS
    <3>2. <<p, which>>[1] = p
      OBVIOUS
    <3> HIDE DEF Hid
    <3> QED
      BY <3>1, <3>2
  <2>2. Hid(<<p, which>>) <=> IsHid(packet)
    BY DEF packet
  <2>3. Addresses(found') = {h[1] : h \in {h \in heard' : Hid(h)}}
    BY <1>1, <1>5, <2>1, <2>2
  <2>4. Len(found') \in Int /\ (phase' = "scanning" => Len(found') # BLE_MAX_DISCOVERED)
    BY <1>5 DEF is_full
  <2>5. phase' = "scanning" => Len(found') < BLE_MAX_DISCOVERED
    BY <1>5, <2>4, ScannerAssumption
  <2> QED
    BY <2>3, <2>5 DEF FillsFromHeard
<1>8. NamedFromPacket'
  <2> SUFFICES ASSUME NEW k \in DOMAIN found'
               PROVE  \E q \in {air[found'[k].address].adv, air[found'[k].address].rsp} :
                         IsHid(q) /\ found'[k].name = NameOf(q)
    BY DEF NamedFromPacket
  <2>1. CASE k \in DOMAIN found /\ found'[k] = found[k]
    BY <1>1, <2>1 DEF NamedFromPacket
  <2>2. CASE IsHid(packet) /\ found'[k] = [address |-> p, name |-> NameOf(packet)]
    <3>1. found'[k].address = p /\ found'[k].name = NameOf(packet)
      BY <2>2
    <3> QED
      BY <1>2, <2>2, <3>1
  <2> QED
    BY <1>5, <2>1, <2>2
<1>9. EachOnce(last_scan)' /\ phase' # "idle"
  BY <1>1 DEF EachOnce, is_full
<1> QED
  BY <1>5, <1>6, <1>7, <1>8, <1>9 DEF ScanInv

LEMMA ScanStep ==
  ASSUME ScanInv, [Next]_vars
  PROVE  ScanInv'
<1>1. ScanTyped /\ clock \in Int
  BY DEF ScanInv, ScanTyped
<1>2. CASE Starts
  <2>1. phase = "idle" /\ phase' = "scanning" /\ UNCHANGED <<air, clock, found, last_scan, heard>>
    BY <1>2 DEF Starts
  <2>2. found = <<>> /\ heard = {}
    BY <2>1 DEF ScanInv
  <2>3. ScanTyped'
    BY <1>1, <2>1 DEF ScanTyped
  <2>4. FillsFromHeard' /\ NamedFromPacket'
    BY <2>1, <2>2, NoDevices, ScannerAssumption DEF FillsFromHeard, NamedFromPacket
  <2> QED
    BY <2>1, <2>3, <2>4 DEF ScanInv, EachOnce
<1>3. ASSUME NEW p \in Address, NEW which \in {"adv", "rsp"}, Hears(p, which) PROVE ScanInv'
  <2>1. phase = "scanning" /\ UNCHANGED <<air, clock, last_scan>>
    BY <1>3 DEF Hears, Listening
  <2>2. CASE clock > BLE_SCAN_DURATION_SECS
    BY <1>1, <1>3, <2>1, <2>2, ListsKept DEF Hears, Proceeds
  <2>3. CASE ~ (clock > BLE_SCAN_DURATION_SECS)
    BY <1>3, <2>1, <2>3, CallbackKeeps DEF Hears, Proceeds
  <2> QED
    BY <2>2, <2>3
<1>4. CASE RadioFails
  <2>1. phase' = "telling" /\ found' = <<>> /\ UNCHANGED <<air, clock, last_scan, heard>>
    BY <1>4 DEF RadioFails
  <2>2. ScanTyped'
    BY <1>1, <2>1, NoDevices, ScannerAssumption DEF ScanTyped
  <2> QED
    BY <2>1, <2>2, NoDevices DEF ScanInv, EachOnce, FillsFromHeard, NamedFromPacket
<1>5. CASE HardTimeout
  BY <1>1, <1>5, ListsKept DEF HardTimeout, Proceeds, Listening
<1>6. CASE Sends
  <2>1. CASE phase = "telling" /\ Len(todo) = 1
    <3>1. phase' = "idle" /\ last_scan' = found /\ clock' = 0 /\ found' = <<>> /\ heard' = {}
          /\ air' = air
      BY <1>6, <2>1 DEF Sends, Returns
    <3>2. ScanTyped'
      BY <1>1, <3>1, NoDevices, ScannerAssumption DEF ScanTyped
    <3> QED
      BY <3>1, <3>2, NoDevices DEF ScanInv, EachOnce, FillsFromHeard, NamedFromPacket
  <2>2. CASE ~ (phase = "telling" /\ Len(todo) = 1)
    BY <1>1, <1>6, <2>2, ListsKept DEF Sends
  <2> QED
    BY <2>1, <2>2
<1>7. CASE UiReceives
  BY <1>1, <1>7, ListsKept DEF UiReceives
<1>8. CASE TimePasses
  BY <1>1, <1>8, ListsKept DEF TimePasses
<1>9. CASE UNCHANGED vars
  BY <1>1, <1>9, ListsKept DEF vars
<1> QED
  BY <1>2, <1>3, <1>4, <1>5, <1>6, <1>7, <1>8, <1>9 DEF Next

\* However packets, deadlines and errors follow one another, the list is made
\* of packets of the scan's own window, within its capacity.
THEOREM ScansInductive == Spec => []ScanInv
<1>1. ScanInv /\ [Next]_vars => ScanInv'
  BY ScanStep
<1> QED
  BY ScanInitially, <1>1, PTL DEF Spec

----------------------------------------------------------------------------
(* The properties.                                                         *)

\* A scan stops early only when the list is full or the radio fails.
THEOREM WindowIsKept == Spec => ListensForTheWindow
<1> DEFINE Stops == \/ Len(found') = BLE_MAX_DISCOVERED
                    \/ todo' = <<[kind |-> "Error"]>>
                    \/ clock >= BLE_SCAN_DURATION_SECS
<1>1. ASSUME ScanInv, Next, Listening, phase' = "telling"
      PROVE  Stops
  <2>1. clock \in Int /\ phase = "scanning" /\ todo = <<>>
    BY <1>1 DEF ScanInv, ScanTyped, Listening
  <2>2. ASSUME NEW p \in Address, NEW which \in {"adv", "rsp"}, Hears(p, which) PROVE Stops
    BY <1>1, <2>1, <2>2, ScannerAssumption DEF Hears, is_full
  <2>3. CASE RadioFails
    BY <2>3 DEF RadioFails
  <2>4. CASE HardTimeout
    BY <2>1, <2>4, ScannerAssumption DEF HardTimeout
  <2> QED
    BY <1>1, <2>1, <2>2, <2>3, <2>4 DEF Next, Starts, Sends, UiReceives, TimePasses
<1>2. ScanInv /\ [Next]_vars => [Listening /\ phase' = "telling" => Stops]_vars
  BY <1>1
<1>3. ScanInv /\ [Next]_vars => ScanInv'
  BY ScanStep
<1> QED
  BY ScanInitially, <1>2, <1>3, PTL DEF Spec, ListensForTheWindow

\* Of the packets of the window the scan makes exactly the peripherals that
\* offered the HID service, each once, and under the name that came with it
\* (scanner.rs:3-5).
THEOREM FoundIsWhatWasHeard == Spec => []FoundIsHeard
<1>1. ASSUME ScanInv PROVE FoundIsHeard
  <2>1. /\ ScanTyped /\ EachOnce(found) /\ FillsFromHeard /\ NamedFromPacket
        /\ heard \subseteq Address \X {"adv", "rsp"} /\ found \in Seq(Device)
    BY <1>1 DEF ScanInv, ScanTyped
  <2>2. ASSUME NEW h \in heard
        PROVE  IsHid(air[h[1]][h[2]]) <=> OffersHid(air[h[1]][h[2]])
    <3>1. h[1] \in Address /\ h[2] \in {"adv", "rsp"}
      BY <2>1
    <3>2. air[h[1]][h[2]] \in Packets
      BY <2>1, <3>1, PacketsAreSent
    <3> QED
      BY <3>2, PacketsAreRead DEF ParserReads, IsHid
  <2>3. phase = "scanning" =>
          Addresses(found) = {h[1] : h \in {h \in heard : OffersHid(air[h[1]][h[2]])}}
    <3>1. {h \in heard : IsHid(air[h[1]][h[2]])} = {h \in heard : OffersHid(air[h[1]][h[2]])}
      BY <2>2
    <3> QED
      BY <2>1, <3>1 DEF FillsFromHeard
  <2>4. ASSUME NEW d \in Range(found)
        PROVE  \E packet \in {air[d.address].adv, air[d.address].rsp} :
                  OffersHid(packet) /\ d.name = NameIn(packet)
    <3>1. PICK k \in DOMAIN found : d = found[k]
      BY DEF Range
    <3>2. PICK packet \in {air[d.address].adv, air[d.address].rsp} :
             IsHid(packet) /\ d.name = NameOf(packet)
      BY <2>1, <3>1 DEF NamedFromPacket
    <3>3. d.address \in Address
      <4>1. found[k] \in Device
        BY <2>1
      <4> QED
        BY <3>1, <4>1 DEF Device
    <3>4. packet \in Packets
      BY <2>1, <3>2, <3>3 DEF ScanTyped, Packets
    <3> QED
      BY <3>2, <3>4, PacketsAreRead DEF ParserReads, IsHid, NameOf
  <2> QED
    BY <2>1, <2>3, <2>4 DEF FoundIsHeard, EachOnce
<1>2. ScanInv /\ [Next]_vars => ScanInv'
  BY ScanStep
<1> QED
  BY ScanInitially, <1>1, <1>2, PTL DEF Spec

----------------------------------------------------------------------------
(* Refinement.                                                             *)

\* The addresses of a list, as the connection manager keeps it.
Listed(devices) == [k \in DOMAIN devices |-> devices[k].address]

LEMMA ListedIsList ==
  ASSUME NEW devices \in Seq(Device), Len(devices) <= BLE_MAX_DISCOVERED, EachOnce(devices)
  PROVE  /\ Listed(devices) \in D!Lists
         /\ Append([k \in DOMAIN devices |-> DeviceFound(devices[k])], [kind |-> "ScanComplete"])
              = Append(D!Found(Listed(devices)), [kind |-> "ScanComplete"])
<1> DEFINE n == Len(devices)
<1>1. n \in 0 .. BLE_MAX_DISCOVERED /\ DOMAIN devices = 1 .. n
  BY ScannerAssumption
<1>2. ASSUME NEW k \in 1 .. n PROVE devices[k].address \in Address
  <2>1. devices[k] \in Device
    BY <1>1
  <2> QED
    BY <2>1 DEF Device
<1>3. Listed(devices) \in [1 .. n -> Address]
  BY <1>1, <1>2 DEF Listed
<1> HIDE DEF n
<1>4. Listed(devices) \in UNION {[1 .. m -> Address] : m \in 0 .. BLE_MAX_DISCOVERED}
  BY <1>1, <1>3
<1>5. \A i, j \in DOMAIN Listed(devices) :
         i # j => Listed(devices)[i] # Listed(devices)[j]
  BY DEF Listed, EachOnce
<1>6. Listed(devices) \in D!Lists
  BY <1>4, <1>5 DEF D!Lists
<1>7. [k \in DOMAIN devices |-> DeviceFound(devices[k])] = D!Found(Listed(devices))
  BY DEF DeviceFound, D!Found, Listed
<1> QED
  BY <1>6, <1>7

\* Every step of the scanner is one of Discovery, or says nothing to the
\* connection manager: it is told of a start, then after any time of distinct
\* devices and the end, or of a failure.
THEOREM ImplementsDiscovery == Spec => D!Init /\ [][D!Next]_(D!vars)
<1>1. ASSUME Init PROVE D!Init
  <2>1. Listed(<<>>) = <<>>
    BY DEF Listed
  <2> QED
    BY <1>1, <2>1 DEF Init, D!Init, List, Listed
<1>2. ASSUME ScanInv, [Next]_vars PROVE [D!Next]_(D!vars)
  <2> DEFINE Told == UNCHANGED <<phase, todo>> /\ Listed(List') = Listed(List)
  <2>1. Told => UNCHANGED D!vars
    BY DEF D!vars, Listed
  <2>2. ASSUME NEW devices, phase = "scanning", todo = <<>>, Proceeds(devices),
               found' = devices, devices \in Seq(Device), Len(devices) <= BLE_MAX_DISCOVERED,
               EachOnce(devices)
        PROVE  D!Next
    <3>1. Listed(List') = Listed(devices)
      BY <2>2 DEF Proceeds, List
    <3>2. Listed(devices) \in D!Lists
          /\ todo' = Append(D!Found(Listed(devices)), [kind |-> "ScanComplete"])
      BY <2>2, ListedIsList DEF Proceeds
    <3>3. D!Ends
      BY <2>2, <3>1, <3>2 DEF D!Ends, Proceeds, Listed
    <3> QED
      BY <3>3 DEF D!Next
  <2>3. CASE Starts
    BY <2>3 DEF Starts, List, D!Starts, D!Next
  <2>4. ASSUME NEW p \in Address, NEW which \in {"adv", "rsp"}, Hears(p, which)
        PROVE  [D!Next]_(D!vars)
    <3>1. phase = "scanning" /\ todo = <<>> /\ last_scan' = last_scan
      BY <2>4 DEF Hears, Listening
    <3>2. ScanInv'
      BY <1>2, ScanStep
    <3>3. found' \in Seq(Device) /\ Len(found') <= BLE_MAX_DISCOVERED /\ EachOnce(found')
      BY <3>2 DEF ScanInv, ScanTyped, EachOnce
    <3>4. CASE Proceeds(found')
      BY <2>2, <3>1, <3>3, <3>4
    <3>5. CASE UNCHANGED <<phase, todo>>
      BY <2>1, <3>1, <3>5 DEF List
    <3> QED
      BY <2>4, <3>4, <3>5 DEF Hears
  <2>5. CASE RadioFails
    <3>1. /\ phase = "scanning" /\ todo = <<>> /\ phase' = "telling" /\ found' = <<>>
          /\ todo' = <<[kind |-> "Error"]>>
      BY <2>5 DEF RadioFails, Listening
    <3>2. Listed(List') = <<>>
      BY <3>1 DEF List, Listed
    <3> QED
      BY <3>1, <3>2 DEF D!Next, D!Ends, Listed
  <2>6. CASE HardTimeout
    <3>1. phase = "scanning" /\ todo = <<>> /\ Proceeds(found) /\ found' = found
      BY <2>6 DEF HardTimeout, Listening
    <3>2. found \in Seq(Device) /\ Len(found) <= BLE_MAX_DISCOVERED /\ EachOnce(found)
      BY <1>2 DEF ScanInv, ScanTyped
    <3> QED
      BY <2>2, <3>1, <3>2
  <2>7. CASE Sends
    <3>1. /\ todo # <<>> /\ todo' = Tail(todo)
          /\ phase' = IF phase = "telling" /\ Len(todo) = 1 THEN "idle" ELSE phase
      BY <2>7 DEF Sends, Returns
    <3>2. Listed(List') = Listed(List)
      BY <2>7 DEF Sends, Returns, List
    <3> QED
      BY <3>1, <3>2 DEF D!Next, D!Tells, Listed
  <2>8. CASE UiReceives \/ TimePasses \/ UNCHANGED vars
    BY <2>1, <2>8 DEF UiReceives, TimePasses, vars, List
  <2> QED
    BY <1>2, <2>3, <2>4, <2>5, <2>6, <2>7, <2>8 DEF Next
<1>3. ScanInv /\ [Next]_vars => ScanInv'
  BY ScanStep
<1> QED
  BY ScanInitially, <1>1, <1>2, <1>3, PTL DEF Spec
=============================================================================
