------------------------ MODULE PacketsSectionsProofs ------------------------
(***************************************************************************)
(* Where dns_query cuts the server's packet, and the time to live it takes *)
(* from it, for any well-formed packet: of however many records, and       *)
(* however long their names are and compressed.                            *)
(***************************************************************************)
EXTENDS PacketsProofs

-----------------------------------------------------------------------------
(***************************************************************************)
(* Where the parts of a packet lie, and how reading moves past them.       *)
(***************************************************************************)
\* part is what packet p holds behind its first at octets.
Placed(p, at, part) ==
    /\ at + Len(part) <= Len(p)
    /\ \A i \in 1 .. Len(part) : p[at + i] = part[i]

\* It is read there.
LEMMA PlacedReads ==
    ASSUME NEW S, NEW p \in Seq(S), NEW part \in Seq(S), NEW at \in Nat, Placed(p, at, part),
           NEW i \in 1 .. Len(part)
    PROVE  /\ U8(p, at + i - 1) = part[i]
           /\ i < Len(part) => U16(p, at + i - 1) = 256 * part[i] + part[i + 1]
<1>1. ASSUME NEW k \in 1 .. Len(part) PROVE U8(p, at + k - 1) = part[k]
  <2>1. /\ at + k - 1 < Len(p) /\ at + k - 1 \in Nat
        /\ (at + k - 1) + 1 = at + k /\ p[at + k] = part[k]
    BY DEF Placed
  <2> QED
    BY <2>1 DEF U8
<1>2. ASSUME i < Len(part) PROVE U16(p, at + i - 1) = 256 * part[i] + part[i + 1]
  <2>1. i + 1 \in 1 .. Len(part) /\ (at + i - 1) + 1 = at + (i + 1) - 1
    BY <1>2
  <2>2. U8(p, at + i - 1) = part[i] /\ U8(p, (at + i - 1) + 1) = part[i + 1]
    BY <1>1, <2>1
  <2> QED
    BY <2>2 DEF U16
<1> QED
  BY <1>1, <1>2

\* A part of a part is where it is in the part.
LEMMA PlacedInside ==
    ASSUME NEW S, NEW p \in Seq(S), NEW part \in Seq(S), NEW sub \in Seq(S),
           NEW at \in Nat, NEW k \in Nat, Placed(p, at, part), Placed(part, k, sub)
    PROVE  Placed(p, at + k, sub)
<1>1. ASSUME NEW i \in 1 .. Len(sub) PROVE p[(at + k) + i] = sub[i]
  <2>1. k + i \in 1 .. Len(part) /\ (at + k) + i = at + (k + i)
    BY DEF Placed
  <2> QED
    BY <2>1 DEF Placed
<1>2. Len(sub) \in Nat /\ Len(part) \in Nat /\ Len(p) \in Nat
  OBVIOUS
<1> QED
  BY <1>1, <1>2 DEF Placed

\* Two sequences lie one behind the other when they are put together.
LEMMA PlacedConcat ==
    ASSUME NEW S, NEW s \in Seq(S), NEW t \in Seq(S)
    PROVE  /\ s \o t \in Seq(S) /\ Len(s \o t) = Len(s) + Len(t)
           /\ Len(s) \in Nat /\ Len(t) \in Nat
           /\ Placed(s \o t, 0, s) /\ Placed(s \o t, Len(s), t)
<1> DEFINE u == s \o t
<1>1. Len(s) \in Nat /\ Len(t) \in Nat
  BY LenProperties
<1>2. /\ u \in Seq(S) /\ Len(u) = Len(s) + Len(t)
      /\ \A i \in 1 .. Len(s) + Len(t) : u[i] = IF i <= Len(s) THEN s[i] ELSE t[i - Len(s)]
  BY ConcatProperties
<1> HIDE DEF u
<1>3. Placed(u, 0, s)
  BY <1>1, <1>2 DEF Placed
<1>4. ASSUME NEW i \in 1 .. Len(t) PROVE u[Len(s) + i] = t[i]
  <2>1. /\ Len(s) + i \in 1 .. Len(s) + Len(t) /\ ~(Len(s) + i <= Len(s))
        /\ (Len(s) + i) - Len(s) = i
    BY <1>1
  <2> QED
    BY <1>2, <2>1
<1>5. Placed(u, Len(s), t)
  BY <1>1, <1>2, <1>4 DEF Placed
<1> QED
  BY <1>1, <1>2, <1>3, <1>5 DEF u

\* From each place of a name the next follows from its octet there.
LEMMA NextPlace ==
    ASSUME NEW L \in Nat, NEW places \in SUBSET (1 .. L), NEW k \in places,
           NEW n \in Nat,
           \/ n = 0 /\ k = L
           \/ n >= 192 /\ k = L - 1
           \/ n \in 1 .. 63 /\ k + n + 1 \in places
    PROVE  /\ n = 0 => k = L
           /\ n >= 192 => k = L - 1
           /\ 0 < n /\ n < 192 => k + n + 1 \in places
           /\ n # 0 => k < L
<1>1. k \in 1 .. L /\ k \in Nat
  OBVIOUS
<1>2. CASE n = 0 /\ k = L
  BY <1>2
<1>3. CASE n >= 192 /\ k = L - 1
  BY <1>3
<1>4. CASE n \in 1 .. 63 /\ k + n + 1 \in places
  <2>1. k + n + 1 \in 1 .. L /\ 0 < n /\ n < 192
    BY <1>4
  <2> QED
    BY <1>1, <1>4, <2>1
<1> QED
  BY <1>2, <1>3, <1>4

\* dns_parse_qname goes on behind the name, be it compressed or not.
LEMMA NamePassed ==
    ASSUME NEW S, Readable(S), NEW p \in Seq(S), NEW at \in Nat,
           NEW name \in Seq(S), WireName(name), Placed(p, at, name)
    PROVE  ParseQname(p, at).next = at + Len(name)
<1>1. PICK places \in SUBSET DOMAIN name :
          /\ 1 \in places
          /\ \A k \in places : \/ name[k] = 0 /\ k = Len(name)
                               \/ name[k] >= 192 /\ k = Len(name) - 1
                               \/ name[k] \in 1 .. 63 /\ k + name[k] + 1 \in places
  BY DEF WireName, NameInPacket
<1>2. PICK parse : /\ ParsesNames(S, p, parse)
                   /\ \A i \in Nat :
                         ParseQname(p, i) =
                             [parse[Len(p)][i] EXCEPT !.name = SubSeq(@, 1, Len(@) - 1)]
  BY NamesUnroll
<1>3. Len(name) \in Nat /\ Len(p) \in Nat /\ DOMAIN name = 1 .. Len(name)
  OBVIOUS
<1> DEFINE Past(left) == \A k \in places :
               Len(name) - k <= left => parse[left][at + k - 1].next = at + Len(name)
           T == {left \in 0 .. Len(p) : Past(left)}
<1>4. ASSUME NEW left \in 0 .. Len(p), left # 0 => Past(left - 1), NEW k \in places,
             Len(name) - k <= left
      PROVE  parse[left][at + k - 1].next = at + Len(name)
  <2> DEFINE j == at + k - 1
             n == U8(p, j)
             rest == parse[left - 1]
  <2>1. k \in 1 .. Len(name) /\ k \in Nat /\ j \in Nat
    BY <1>3
  <2>2. n = name[k] /\ n \in Nat
    <3>1. n = name[k] /\ name[k] \in S
      BY <2>1, PlacedReads DEF n
    <3> QED
      BY <3>1 DEF Readable
  <2>3. parse[left][j] = LabelsLeft(p, rest, left, j)
    BY <1>2, <2>1 DEF ParsesNames
  <2> HIDE DEF n
  <2>4. /\ n = 0 => k = Len(name)
        /\ n >= 192 => k = Len(name) - 1
        /\ 0 < n /\ n < 192 => k + n + 1 \in places
        /\ n # 0 => k < Len(name)
    <3>1. \/ n = 0 /\ k = Len(name)
          \/ n >= 192 /\ k = Len(name) - 1
          \/ n \in 1 .. 63 /\ k + n + 1 \in places
      BY <1>1, <2>2, Zenon
    <3>2. places \in SUBSET (1 .. Len(name)) /\ n \in Nat /\ Len(name) \in Nat
      BY <1>3, <2>2
    <3> QED
      BY <3>1, <3>2, NextPlace
  <2>5. CASE n = 0
    <3>1. k = Len(name)
      BY <2>4, <2>5
    <3>2. parse[left][j].next = j + 1
      BY <2>3, <2>5 DEF LabelsLeft, n
    <3> QED
      BY <2>1, <3>1, <3>2
  <2>6. CASE n # 0
    <3>1. left # 0 /\ left - 1 \in 0 .. Len(p) /\ left \in Nat
      BY <1>3, <1>4, <2>1, <2>4, <2>6
    <3>2. CASE n >= 192
      <4>1. k = Len(name) - 1
        BY <2>2, <2>4, <3>2
      <4>2. parse[left][j].next = j + 2
        BY <2>3, <2>6, <3>1, <3>2 DEF LabelsLeft, n
      <4> QED
        BY <1>3, <2>1, <4>1, <4>2
    <3>3. CASE ~(n >= 192)
      <4> DEFINE r == rest[j + n + 1]
      <4>1. k + n + 1 \in places
        BY <2>2, <2>6, <2>4, <3>3
      <4>2. parse[left][j] = [r EXCEPT !.name = Octets(p, j + 1, j + n + 1) \o <<Dot>> \o @]
        BY <2>3, <2>6, <3>1, <3>3 DEF LabelsLeft, n
      <4>3. r \in Parsed(S)
        <5>1. j + n + 1 \in Nat
          BY <2>1, <2>2
        <5>2. rest \in [Nat -> Parsed(S)]
          BY <1>2, <3>1 DEF ParsesNames
        <5> QED
          BY <5>1, <5>2
      <4>4. j + n + 1 = at + (k + n + 1) - 1 /\ Len(name) - (k + n + 1) <= left - 1
        BY <1>3, <1>4, <2>1, <2>2, <3>1
      <4>5. r.next = at + Len(name)
        BY <1>4, <3>1, <4>1, <4>4
      <4> HIDE DEF r
      <4>6. parse[left][j].next = r.next
        BY <4>2, <4>3 DEF Parsed
      <4> QED
        BY <4>5, <4>6
    <3> QED
      BY <3>2, <3>3
  <2> QED
    BY <2>5, <2>6
<1>5. 0 \in T
  <2>1. 0 \in 0 .. Len(p)
    BY <1>3
  <2> QED
    BY <1>4, <2>1
<1>6. ASSUME NEW n \in 1 .. Len(p), n - 1 \in T PROVE n \in T
  <2>1. n \in 0 .. Len(p)
    BY <1>3
  <2> QED
    BY <1>4, <1>6, <2>1
<1> HIDE DEF T
<1>7. 0 .. Len(p) \subseteq T
  BY <1>3, <1>5, <1>6, UpTo
<1>8. Past(Len(p))
  BY <1>3, <1>7 DEF T
<1>9. parse[Len(p)][at].next = at + Len(name)
  <2>1. 1 \in places /\ at + 1 - 1 = at /\ Len(name) - 1 <= Len(p)
    BY <1>1, <1>3 DEF Placed
  <2>2. parse[Len(p)][at + 1 - 1].next = at + Len(name)
    BY <1>8, <2>1
  <2> QED
    BY <2>1, <2>2
<1>10. parse[Len(p)][at] \in Parsed(S)
  <2>1. Len(p) \in 0 .. Len(p)
    BY <1>3
  <2>2. parse[Len(p)] \in [Nat -> Parsed(S)]
    BY <1>2, <2>1 DEF ParsesNames
  <2> QED
    BY <2>2
<1> QED
  BY <1>2, <1>9, <1>10 DEF Parsed

\* What lies in the front of a packet stays there, whatever is put behind it.
LEMMA PlacedFront ==
    ASSUME NEW S, NEW s \in Seq(S), NEW t \in Seq(S), NEW part \in Seq(S), NEW k \in Nat,
           Placed(s, k, part)
    PROVE  Placed(s \o t, k, part)
<1>1. s \o t \in Seq(S) /\ Placed(s \o t, 0, s) /\ 0 + k = k
  BY PlacedConcat
<1> QED
  BY <1>1, PlacedInside

\* What is cut out of a packet lies where it was cut out.
LEMMA PlacedSubSeq ==
    ASSUME NEW S, NEW s \in Seq(S), NEW m \in 1 .. Len(s) + 1, NEW n \in m - 1 .. Len(s)
    PROVE  /\ SubSeq(s, m, n) \in Seq(S) /\ Len(SubSeq(s, m, n)) = n - m + 1
           /\ Placed(s, m - 1, SubSeq(s, m, n))
<1>1. Len(s) \in Nat /\ m \in Int /\ n \in Int /\ m <= n + 1 /\ n <= Len(s) /\ 1 <= m
  BY LenProperties
<1>2. \A i \in m .. n : s[i] \in S
  <2>1. \A i \in m .. n : i \in 1 .. Len(s)
    BY <1>1
  <2> QED
    BY <2>1, ElementOfSeq
<1> DEFINE t == SubSeq(s, m, n)
<1>3. /\ t \in Seq(S) /\ Len(t) = IF m <= n THEN n - m + 1 ELSE 0
      /\ \A i \in 1 .. n - m + 1 : t[i] = s[m + i - 1]
  BY <1>1, <1>2, SubSeqProperties
<1> HIDE DEF t
<1>4. Len(t) = n - m + 1
  BY <1>1, <1>3
<1>5. \A i \in 1 .. Len(t) : (m - 1) + i = m + i - 1
  BY <1>1, <1>4
<1>6. Placed(s, m - 1, t)
  BY <1>1, <1>3, <1>4, <1>5 DEF Placed
<1> QED
  BY <1>3, <1>4, <1>6 DEF t

\* A sequence of some is a sequence of more.
LEMMA Widened ==
    ASSUME NEW S, NEW T, S \subseteq T, NEW s \in Seq(S)
    PROVE  s \in Seq(T)
<1>1. Len(s) \in Nat /\ s \in [1 .. Len(s) -> S]
  BY LenProperties
<1>2. s \in [1 .. Len(s) -> T]
  BY <1>1
<1> QED
  BY <1>1, <1>2

-----------------------------------------------------------------------------
(***************************************************************************)
(* Numbers and records, as they are written and read.                      *)
(***************************************************************************)
\* htons writes what ntohs reads.
LEMMA Put16Number ==
    ASSUME NEW n \in Nat
    PROVE  /\ Put16(n) \in Seq(Nat) /\ Len(Put16(n)) = 2
           /\ 256 * Put16(n)[1] + Put16(n)[2] = n
<1> DEFINE high == n \div 256
           low == n % 256
<1>1. high \in Nat /\ low \in Nat /\ 256 * high + low = n
  OBVIOUS
<1>2. Put16(n) = <<high, low>>
  BY DEF Put16
<1> HIDE DEF high, low
<1>3. Put16(n) \in Seq(Nat) /\ Len(Put16(n)) = 2 /\ Put16(n)[1] = high /\ Put16(n)[2] = low
  BY <1>1, <1>2
<1> QED
  BY <1>1, <1>3

\* ntohs reads two octets.
LEMMA PairRead ==
    ASSUME NEW p \in Seq(Nat), NEW at \in Nat, NEW part \in Seq(Nat), Len(part) = 2,
           Placed(p, at, part)
    PROVE  U16(p, at) = 256 * part[1] + part[2]
<1>1. 1 \in 1 .. Len(part) /\ 1 < Len(part)
  OBVIOUS
<1>2. U16(p, at + 1 - 1) = 256 * part[1] + part[1 + 1]
  BY ONLY <1>1, PlacedReads, p \in Seq(Nat), part \in Seq(Nat), at \in Nat, Placed(p, at, part)
<1>3. at + 1 - 1 = at /\ 1 + 1 = 2
  OBVIOUS
<1> HIDE DEF U16
<1> QED
  BY <1>2, <1>3

\* htons and ntohs, in a packet.
LEMMA Put16Read ==
    ASSUME NEW n \in Nat, NEW p \in Seq(Nat), NEW at \in Nat, Placed(p, at, Put16(n))
    PROVE  U16(p, at) = n
BY Put16Number, PairRead

\* htonl writes what ntohl reads, if a time to live may be so long.
HighHalf(n) == n \div 65536
LowHalf(n) == n % 65536

LEMMA Halves ==
    ASSUME NEW n \in Nat
    PROVE  HighHalf(n) \in Nat /\ LowHalf(n) \in Nat /\ 65536 * HighHalf(n) + LowHalf(n) = n
BY SMT DEF HighHalf, LowHalf

\* htonl writes one half behind the other.
LEMMA Put32Number ==
    ASSUME NEW n \in Nat
    PROVE  /\ Put32(n) \in Seq(Nat) /\ Len(Put32(n)) = 4
           /\ Placed(Put32(n), 0, Put16(HighHalf(n))) /\ Placed(Put32(n), 2, Put16(LowHalf(n)))
<1> DEFINE s == Put16(HighHalf(n))
           t == Put16(LowHalf(n))
<1>1. Put32(n) = s \o t
  BY SMT DEF Put32, HighHalf, LowHalf
<1>2. s \in Seq(Nat) /\ Len(s) = 2 /\ t \in Seq(Nat) /\ Len(t) = 2
  <2>1. HighHalf(n) \in Nat /\ LowHalf(n) \in Nat
    BY Halves, SMT
  <2> QED
    BY <2>1, Put16Number, SMT
<1> HIDE DEF s, t
<1>3. /\ s \o t \in Seq(Nat) /\ Len(s \o t) = 4
      /\ Placed(s \o t, 0, s) /\ Placed(s \o t, 2, t)
  <2>1. /\ s \o t \in Seq(Nat) /\ Len(s \o t) = Len(s) + Len(t)
        /\ Placed(s \o t, 0, s) /\ Placed(s \o t, Len(s), t)
    BY <1>2, PlacedConcat, Zenon
  <2> QED
    BY <1>2, <2>1
<1>4. /\ Put32(n) \in Seq(Nat) /\ Len(Put32(n)) = 4
      /\ Placed(Put32(n), 0, s) /\ Placed(Put32(n), 2, t)
  BY <1>1, <1>3, Zenon
<1> QED
  BY <1>4, Zenon DEF s, t

\* htonl and ntohl, in a packet.
LEMMA Put32Read ==
    ASSUME NEW n \in Nat, n <= MaxTtl,
           NEW p \in Seq(Nat), NEW at \in Nat, Placed(p, at, Put32(n))
    PROVE  U32(p, at) = n
<1> DEFINE high == HighHalf(n)
           low == LowHalf(n)
<1>1. high \in Nat /\ low \in Nat
  BY Halves, SMT
<1>2. 65536 * high + low = n
  BY Halves, SMT
<1>3. /\ Put32(n) \in Seq(Nat) /\ Placed(Put32(n), 0, Put16(high))
      /\ Placed(Put32(n), 2, Put16(low))
  BY Put32Number, SMT
<1> HIDE DEF high, low
<1>4. Placed(p, at + 0, Put16(high)) /\ Placed(p, at + 2, Put16(low))
  <2>1. Put16(high) \in Seq(Nat) /\ Put16(low) \in Seq(Nat)
    BY <1>1, Put16Number, Zenon
  <2> DEFINE s == Put16(high)
             t == Put16(low)
             u == Put32(n)
  <2>2. u \in Seq(Nat) /\ s \in Seq(Nat) /\ t \in Seq(Nat)
        /\ Placed(u, 0, s) /\ Placed(u, 2, t) /\ Placed(p, at, u)
    BY <1>3, <2>1, Zenon
  <2> HIDE DEF s, t, u
  <2>3. Placed(p, at + 0, s) /\ Placed(p, at + 2, t)
    BY <2>1, <2>2, PlacedInside
  <2> QED
    BY <2>3, Zenon DEF s, t
<1>5. U16(p, at) = high /\ U16(p, at + 2) = low
  <2>1. at + 0 = at /\ at + 2 \in Nat
    OBVIOUS
  <2> QED
    BY <1>1, <1>4, <2>1, Put16Read, SMT
<1>6. ~(high >= 32768)
  BY <1>1, <1>2, SMT DEF MaxTtl
<1> QED
  BY <1>1, <1>5, <1>6, <1>2, SMT DEF U32

\* Where the parts of record b lie: name a, type t, time to live u and data d.
Laid(b, a, t, u, d) ==
    /\ b \in Seq(Nat) /\ Len(a) \in Nat /\ Len(b) = Len(a) + 10 + Len(d)
    /\ Placed(b, 0, a) /\ Placed(b, Len(a), t) /\ Placed(b, Len(a) + 4, u)
    /\ Placed(b, Len(a) + 10, d)

\* Six parts of which four have the lengths of those of a record.
LEMMA RecordOfParts ==
    ASSUME NEW a \in Seq(Nat), NEW t \in Seq(Nat), NEW c \in Seq(Nat), NEW u \in Seq(Nat),
           NEW l \in Seq(Nat), NEW d \in Seq(Nat),
           Len(t) = 2, Len(c) = 2, Len(u) = 4, Len(l) = 2
    PROVE  Laid(a \o t \o c \o u \o l \o d, a, t, u, d)
<1> DEFINE b1 == a \o t
           b2 == b1 \o c
           b3 == b2 \o u
           b4 == b3 \o l
           b5 == b4 \o d
<1>1. /\ b1 \in Seq(Nat) /\ Len(b1) = Len(a) + Len(t) /\ Len(a) \in Nat /\ Len(d) \in Nat
      /\ Placed(b1, 0, a) /\ Placed(b1, Len(a), t)
  BY PlacedConcat, Zenon
<1>2. b5 = a \o t \o c \o u \o l \o d
  OBVIOUS
<1> HIDE DEF b1
<1>3. /\ b2 \in Seq(Nat) /\ Len(b2) = Len(b1) + Len(c)
  BY <1>1, PlacedConcat, Zenon
<1>4. Placed(b2, 0, a) /\ Placed(b2, Len(a), t)
  <2>1. 0 \in Nat
    OBVIOUS
  <2> QED
    BY <1>1, <2>1, PlacedFront, Zenon
<1> HIDE DEF b2
<1>5. /\ b3 \in Seq(Nat) /\ Len(b3) = Len(b2) + Len(u) /\ Placed(b3, Len(b2), u)
  BY <1>3, PlacedConcat, Zenon
<1>6. Placed(b3, 0, a) /\ Placed(b3, Len(a), t)
  <2>1. 0 \in Nat
    OBVIOUS
  <2> QED
    BY <1>1, <1>3, <1>4, <2>1, PlacedFront, Zenon
<1> HIDE DEF b3
<1>7. /\ b4 \in Seq(Nat) /\ Len(b4) = Len(b3) + Len(l)
  BY <1>5, PlacedConcat, Zenon
<1>8. Len(b2) \in Nat /\ Len(b2) = Len(a) + 4
  BY <1>1, <1>3
<1>9. Placed(b4, 0, a) /\ Placed(b4, Len(a), t) /\ Placed(b4, Len(b2), u)
  <2>1. 0 \in Nat
    OBVIOUS
  <2> QED
    BY <1>1, <1>5, <1>6, <1>8, <2>1, PlacedFront, Zenon
<1> HIDE DEF b4
<1>10. /\ b5 \in Seq(Nat) /\ Len(b5) = Len(b4) + Len(d) /\ Placed(b5, Len(b4), d)
  BY <1>7, PlacedConcat, Zenon
<1>11. Placed(b5, 0, a) /\ Placed(b5, Len(a), t) /\ Placed(b5, Len(b2), u)
  <2>1. 0 \in Nat
    OBVIOUS
  <2> QED
    BY <1>1, <1>7, <1>8, <1>9, <2>1, PlacedFront, Zenon
<1> HIDE DEF b5
<1>12. Len(b4) = Len(a) + 10 /\ Len(b5) = Len(a) + 10 + Len(d)
  BY <1>1, <1>3, <1>5, <1>7, <1>10
<1> QED
  <2>1. Laid(b5, a, t, u, d)
    BY <1>1, <1>8, <1>10, <1>11, <1>12 DEF Laid
  <2> QED
    BY <1>2, <2>1, Zenon

\* The records that the server may give.
GivenRecord == [name : Seq(Octet), type : Word, ttl : 0 .. MaxTtl, data : Seq(Octet)]

LEMMA GivenTypes ==
    ASSUME NEW r \in GivenRecord
    PROVE  /\ r.name \in Seq(Octet) /\ r.data \in Seq(Octet)
           /\ r.type \in Word /\ r.type \in Nat /\ r.ttl \in Nat /\ r.ttl <= MaxTtl
<1>1. MaxTtl \in Nat
  BY SMT DEF MaxTtl
<1> HIDE DEF Octet
<1>2. /\ r.name \in Seq(Octet) /\ r.data \in Seq(Octet)
      /\ r.type \in Word /\ r.ttl \in 0 .. MaxTtl
  BY SMT DEF GivenRecord
<1>3. r.type \in Nat
  BY <1>2 DEF Word
<1> QED
  BY <1>1, <1>2, <1>3, SMT

\* Such a record is written part by part.
LEMMA RecordParts ==
    ASSUME NEW r \in GivenRecord, NEW b, b = RecordBuf(r)
    PROVE  /\ r.name \in Seq(Nat) /\ r.data \in Seq(Nat) /\ Len(r.data) \in Nat
           /\ r.type \in Nat /\ r.ttl \in Nat /\ r.ttl <= MaxTtl
           /\ Laid(b, r.name, Put16(r.type), Put32(r.ttl), r.data)
<1>1. r.name \in Seq(Octet) /\ r.data \in Seq(Octet)
  BY GivenTypes, Zenon
<1>2. r.name \in Seq(Nat) /\ r.data \in Seq(Nat)
  BY <1>1, OctetsAreNumbers, Widened, Zenon
<1>3. r.type \in Nat /\ r.ttl \in Nat /\ r.ttl <= MaxTtl
  BY GivenTypes, Zenon
<1>4. Len(r.data) \in Nat
  BY <1>2, LenProperties, Zenon
<1> DEFINE t == Put16(r.type)
           c == Put16(1)
           u == Put32(r.ttl)
           l == Put16(Len(r.data))
           a == r.name
           d == r.data
<1>5. /\ t \in Seq(Nat) /\ Len(t) = 2 /\ c \in Seq(Nat) /\ Len(c) = 2
      /\ l \in Seq(Nat) /\ Len(l) = 2
  <2>1. 1 \in Nat
    OBVIOUS
  <2> QED
    BY <1>3, <1>4, <2>1, Put16Number, Zenon
<1>6. u \in Seq(Nat) /\ Len(u) = 4
  BY <1>3, Put32Number, Zenon
<1>7. b = r.name \o t \o c \o u \o l \o r.data
  BY Zenon DEF RecordBuf
<1> HIDE DEF t, c, u, l, a, d
<1>8. Laid(b, a, t, u, d)
  <2>1. a \in Seq(Nat) /\ d \in Seq(Nat)
    BY <1>2, Zenon DEF a, d
  <2>2. Laid(a \o t \o c \o u \o l \o d, a, t, u, d)
    BY <1>5, <1>6, <2>1, RecordOfParts, Zenon
  <2> QED
    BY <1>7, <2>2, Zenon DEF a, d
<1> QED
  BY <1>2, <1>3, <1>4, <1>8, Zenon DEF t, u, a, d

\* dns_query reads what was written, from behind the name.
LEMMA RecordRead ==
    ASSUME NEW p \in Seq(Nat), NEW at \in Nat, NEW r \in GivenRecord, WireRecord(r),
           Placed(p, at, RecordBuf(r)), NEW fixed, fixed = ParseQname(p, at).next
    PROVE  /\ fixed = at + Len(r.name) /\ fixed \in Nat
           /\ U16(p, fixed) = r.type /\ U32(p, fixed + 4) = r.ttl
           /\ Placed(p, fixed + 10, r.data) /\ WireData(r.type, r.data)
           /\ fixed + 10 + Len(r.data) = at + Len(RecordBuf(r))
<1> DEFINE b == RecordBuf(r)
           a == r.name
           t == Put16(r.type)
           u == Put32(r.ttl)
           d == r.data
<1>1. /\ a \in Seq(Nat) /\ d \in Seq(Nat) /\ Len(d) \in Nat
      /\ r.type \in Nat /\ r.ttl \in Nat /\ r.ttl <= MaxTtl
      /\ Laid(b, a, t, u, d)
  BY RecordParts, Zenon
<1>2. t \in Seq(Nat) /\ u \in Seq(Nat)
  BY <1>1, Put16Number, Put32Number, Zenon
<1>3. Placed(p, at, b) /\ WireName(a) /\ WireData(r.type, d)
  BY Zenon DEF WireRecord
<1> HIDE DEF b, a, t, u, d
<1>4. b \in Seq(Nat) /\ Len(a) \in Nat /\ Len(b) = Len(a) + 10 + Len(d)
  BY <1>1, Zenon DEF Laid
<1>5. /\ Placed(b, 0, a) /\ Placed(b, Len(a), t) /\ Placed(b, Len(a) + 4, u)
      /\ Placed(b, Len(a) + 10, d)
  BY <1>1, Zenon DEF Laid
<1>6. 0 \in Nat /\ Len(a) + 4 \in Nat /\ Len(a) + 10 \in Nat
  BY <1>4
<1>7. /\ Placed(p, at + 0, a) /\ Placed(p, at + Len(a), t)
      /\ Placed(p, at + (Len(a) + 4), u) /\ Placed(p, at + (Len(a) + 10), d)
  BY <1>1, <1>2, <1>3, <1>4, <1>5, <1>6, PlacedInside, Zenon
<1>8. /\ at + 0 = at /\ at + Len(a) \in Nat
      /\ at + (Len(a) + 4) = (at + Len(a)) + 4 /\ (at + Len(a)) + 4 \in Nat
      /\ at + (Len(a) + 10) = (at + Len(a)) + 10
      /\ (at + Len(a)) + 10 + Len(d) = at + Len(b)
  BY <1>1, <1>4
<1>9. fixed = at + Len(a)
  <2>1. Placed(p, at, a)
    BY <1>7, <1>8
  <2> QED
    BY <1>1, <1>3, <2>1, NamePassed, OctetsAreNumbers, Zenon
<1>10. U16(p, fixed) = r.type
  <2>1. Placed(p, fixed, Put16(r.type)) /\ fixed \in Nat
    BY <1>7, <1>8, <1>9, Zenon DEF t
  <2> QED
    BY <1>1, <2>1, Put16Read, Zenon
<1>11. U32(p, fixed + 4) = r.ttl
  <2>1. Placed(p, fixed + 4, u) /\ fixed + 4 \in Nat
    BY <1>7, <1>8, <1>9
  <2>2. Placed(p, fixed + 4, Put32(r.ttl)) /\ fixed + 4 \in Nat
    BY <2>1, Zenon DEF u
  <2> QED
    BY <1>1, <2>2, Put32Read, Zenon
<1>12. Placed(p, fixed + 10, d)
  BY <1>7, <1>8, <1>9
<1>13. fixed \in Nat /\ fixed + 10 + Len(d) = at + Len(b)
  BY <1>8, <1>9
<1> QED
  BY <1>3, <1>9, <1>10, <1>11, <1>12, <1>13, Zenon DEF a, b, d

\* The types of the records in the answers that dns_query knows.
Known == {A, AAAA, CNAME, MX}

\* Reading moves past the data of a record, though rdlength is not looked at.
LEMMA DataPassed ==
    ASSUME NEW p \in Seq(Nat), NEW at \in Nat, NEW d \in Seq(Nat), Placed(p, at, d),
           NEW type, WireData(type, d)
    PROVE  /\ type \in Known => SkipData(p, type, at) = at + Len(d)
           /\ type = SOA => SkipSoa(p, at) = at + Len(d)
<1> DEFINE n == Len(d)
<1>1. n \in Nat
  BY LenProperties, Zenon
<1>2. CASE type = A
  <2>1. Len(d) = 4
    BY <1>2, Zenon DEF WireData
  <2>2. SkipData(p, type, at) = at + Len(d)
    BY <1>2, <2>1 DEF SkipData, A, AAAA, CNAME, MX
  <2> QED
    BY <1>2, <2>2 DEF A, AAAA, SOA
<1>3. CASE type = AAAA
  <2>1. Len(d) = 16
    BY <1>3, Zenon DEF WireData
  <2>2. SkipData(p, type, at) = at + Len(d)
    BY <1>3, <2>1 DEF SkipData, A, AAAA, CNAME, MX
  <2> QED
    BY <1>3, <2>2 DEF A, AAAA, SOA
<1>4. CASE type = CNAME
  <2>1. WireName(d)
    BY <1>4, Zenon DEF WireData
  <2>2. ParseQname(p, at).next = at + Len(d)
    BY <2>1, NamePassed, OctetsAreNumbers, Zenon
  <2> QED
    BY <1>4, <2>2 DEF SkipData, A, AAAA, CNAME, MX, SOA
<1>5. CASE type = MX
  <2> DEFINE name == SubSeq(d, 3, n)
  <2>1. n > 2 /\ WireName(name)
    BY <1>5, Zenon DEF WireData
  <2>2. 3 \in 1 .. n + 1 /\ n \in 3 - 1 .. n /\ 3 - 1 = 2
    BY <1>1, <2>1
  <2>3. name \in Seq(Nat) /\ Len(name) = n - 3 + 1 /\ Placed(d, 3 - 1, name)
    BY <2>2, PlacedSubSeq
  <2> HIDE DEF name
  <2>4. Placed(p, at + 2, name)
    <3>1. Placed(d, 2, name) /\ 2 \in Nat
      BY <2>2, <2>3
    <3> QED
      BY <2>3, <3>1, PlacedInside
  <2>5. ParseQname(p, at + 2).next = at + 2 + Len(name)
    <3>1. at + 2 \in Nat
      OBVIOUS
    <3> QED
      BY <2>1, <2>3, <2>4, <3>1, NamePassed, OctetsAreNumbers, Zenon
  <2>6. at + 2 + Len(name) = at + n
    BY <1>1, <2>3
  <2> HIDE DEF n
  <2>7. SkipData(p, type, at) = at + n
    BY <1>5, <2>5, <2>6 DEF SkipData, A, AAAA, CNAME, MX
  <2> QED
    BY <1>5, <2>7 DEF n, MX, SOA
<1>6. CASE type = SOA
  <2>1. PICK k \in 1 .. Len(d) - 21 : /\ WireName(SubSeq(d, 1, k))
                                      /\ WireName(SubSeq(d, k + 1, Len(d) - 20))
    BY <1>6, Zenon DEF WireData
  <2> DEFINE x == SubSeq(d, 1, k)
             y == SubSeq(d, k + 1, n - 20)
  <2>2. /\ 1 \in 1 .. n + 1 /\ k \in 1 - 1 .. n /\ 1 - 1 = 0 /\ k - 1 + 1 = k
        /\ k + 1 \in 1 .. n + 1 /\ n - 20 \in (k + 1) - 1 .. n /\ (k + 1) - 1 = k
        /\ k \in Nat /\ k - 1 + 1 = k
    BY <1>1
  <2>3. x \in Seq(Nat) /\ Len(x) = k - 1 + 1 /\ Placed(d, 1 - 1, x)
    BY <2>2, PlacedSubSeq
  <2>4. y \in Seq(Nat) /\ Len(y) = n - 20 - (k + 1) + 1 /\ Placed(d, (k + 1) - 1, y)
    BY <2>2, PlacedSubSeq
  <2>5. WireName(x) /\ WireName(y)
    BY <2>1, Zenon DEF n
  <2> HIDE DEF x, y
  <2>6. Placed(p, at + 0, x) /\ Placed(p, at + k, y)
    <3>1. Placed(d, 0, x) /\ Placed(d, k, y) /\ 0 \in Nat
      BY <2>2, <2>3, <2>4
    <3> QED
      BY <2>2, <2>3, <2>4, <3>1, PlacedInside, Zenon
  <2>7. at + 0 = at /\ at + k \in Nat
    BY <2>2
  <2>8. ParseQname(p, at).next = at + k
    <3>1. Placed(p, at, x) /\ Len(x) = k
      BY <2>2, <2>3, <2>6, <2>7
    <3>2. ParseQname(p, at).next = at + Len(x)
      BY <2>3, <2>5, <3>1, NamePassed, OctetsAreNumbers, Zenon
    <3> QED
      BY <3>1, <3>2
  <2>9. ParseQname(p, at + k).next = (at + k) + Len(y)
    BY <2>4, <2>5, <2>6, <2>7, NamePassed, OctetsAreNumbers, Zenon
  <2>10. (at + k) + Len(y) + 20 = at + n
    BY <1>1, <2>2, <2>4
  <2> HIDE DEF n
  <2>11. SkipSoa(p, at) = at + n
    BY <2>8, <2>9, <2>10 DEF SkipSoa
  <2> QED
    BY <1>6, <2>11 DEF n, Known, A, AAAA, CNAME, MX, SOA
<1>7. CASE type \notin Known /\ type # SOA
  BY <1>7
<1> QED
  BY <1>2, <1>3, <1>4, <1>5, <1>6, <1>7 DEF Known

-----------------------------------------------------------------------------
(***************************************************************************)
(* Sections: parts one behind the other.                                   *)
(***************************************************************************)
\* whole is the parts one behind the other, and part i ends behind ends[i].
Joined(parts, whole, ends) ==
    /\ ends \in [0 .. Len(parts) -> Nat]
    /\ ends[0] = 0 /\ ends[Len(parts)] = Len(whole)
    /\ \A i \in 1 .. Len(parts) : /\ ends[i] = ends[i - 1] + Len(parts[i])
                                  /\ Placed(whole, ends[i - 1], parts[i])

\* Parts that are put together one by one are joined.
LEMMA JoinedUp ==
    ASSUME NEW S, NEW parts, NEW whole, Len(parts) \in Nat, Len(parts) # 0,
           \A i \in 1 .. Len(parts) : parts[i] \in Seq(S) /\ Len(parts[i]) \in Nat,
           whole[1] = parts[1],
           \A i \in 2 .. Len(parts) : whole[i] = whole[i - 1] \o parts[i]
    PROVE  /\ whole[Len(parts)] \in Seq(S)
           /\ \E ends : Joined(parts, whole[Len(parts)], ends)
<1> DEFINE N == Len(parts)
           ends == [i \in 0 .. N |-> IF i = 0 THEN 0 ELSE Len(whole[i])]
<1>1. N \in Nat /\ N >= 1 /\ 1 \in 1 .. N
  OBVIOUS
<1>2. ASSUME NEW i \in 1 .. N, i # 1
      PROVE  i - 1 \in 1 .. N /\ i - 1 # 0 /\ whole[i] = whole[i - 1] \o parts[i]
  <2>1. i - 1 \in 1 .. N /\ i - 1 # 0 /\ i \in 2 .. N
    BY <1>1, <1>2
  <2> QED
    BY <2>1
<1> HIDE DEF N
<1>3. \A i \in 1 .. N : whole[i] \in Seq(S)
  <2> DEFINE T == {i \in 0 .. N : i # 0 => whole[i] \in Seq(S)}
  <2>1. 0 \in T
    BY <1>1
  <2>2. ASSUME NEW i \in 1 .. N, i - 1 \in T PROVE i \in T
    <3>1. i \in 0 .. N
      BY <1>1
    <3>2. parts[i] \in Seq(S)
      BY DEF N
    <3>3. CASE i = 1
      BY <3>1, <3>2, <3>3
    <3>4. CASE i # 1
      <4>1. whole[i - 1] \in Seq(S) /\ whole[i] = whole[i - 1] \o parts[i]
        BY <1>2, <2>2, <3>4
      <4>2. whole[i] \in Seq(S)
        BY <3>2, <4>1, ConcatProperties, Zenon
      <4> QED
        BY <3>1, <4>2
    <3> QED
      BY <3>3, <3>4
  <2> HIDE DEF T
  <2>3. 0 .. N \subseteq T
    BY <1>1, <2>1, <2>2, UpTo
  <2> QED
    BY <1>1, <2>3 DEF T
<1>4. \A i \in 1 .. N : Len(whole[i]) \in Nat
  BY <1>3, LenProperties, Zenon
<1>5. /\ ends \in [0 .. N -> Nat] /\ ends[0] = 0
      /\ \A i \in 1 .. N : ends[i] = Len(whole[i])
  <2>1. \A i \in 1 .. N : i \in 0 .. N /\ i # 0
    BY <1>1
  <2>2. \A i \in 0 .. N : i # 0 => i \in 1 .. N
    BY <1>1
  <2> QED
    BY <1>1, <1>4, <2>1, <2>2
<1> HIDE DEF ends
<1>6. ASSUME NEW i \in 1 .. N
      PROVE  /\ ends[i] = ends[i - 1] + Len(parts[i])
             /\ Placed(whole[i], ends[i - 1], parts[i])
  <2>1. parts[i] \in Seq(S) /\ Len(parts[i]) \in Nat
    BY DEF N
  <2>2. CASE i = 1
    <3>1. ends[i] = Len(parts[i]) /\ ends[i - 1] = 0 /\ whole[i] = parts[i]
      BY <1>5, <2>2
    <3>2. Placed(parts[i], 0, parts[i])
      BY <2>1 DEF Placed
    <3> QED
      BY <2>1, <3>1, <3>2
  <2>3. CASE i # 1
    <3> DEFINE a == whole[i - 1]
               b == parts[i]
    <3>1. i - 1 \in 1 .. N /\ whole[i] = a \o b
      BY <1>2, <2>3
    <3>2. a \in Seq(S) /\ ends[i - 1] = Len(a) /\ ends[i] = Len(whole[i]) /\ b \in Seq(S)
      BY <1>3, <1>5, <2>1, <3>1
    <3> HIDE DEF a, b
    <3>3. Len(a \o b) = Len(a) + Len(b) /\ Placed(a \o b, Len(a), b)
      BY <3>2, PlacedConcat, Zenon
    <3> QED
      BY <3>1, <3>2, <3>3 DEF b
  <2> QED
    BY <2>2, <2>3
<1>7. \A i \in 1 .. N : \A j \in 1 .. i : Placed(whole[i], ends[j - 1], parts[j])
  <2> DEFINE Good(i) == \A j \in 1 .. i : Placed(whole[i], ends[j - 1], parts[j])
             T == {i \in 0 .. N : i # 0 => Good(i)}
  <2>1. 0 \in T
    BY <1>1
  <2>2. ASSUME NEW i \in 1 .. N, i - 1 \in T PROVE i \in T
    <3>1. i \in 0 .. N
      BY <1>1
    <3>2. ASSUME NEW j \in 1 .. i PROVE Placed(whole[i], ends[j - 1], parts[j])
      <4>1. CASE j = i
        BY <1>6, <4>1
      <4>2. CASE j # i
        <5>1. i # 1 /\ j \in 1 .. i - 1 /\ j \in 1 .. N /\ j - 1 \in 0 .. N
          BY <1>1, <4>2
        <5> DEFINE a == whole[i - 1]
                   b == parts[i]
                   k == ends[j - 1]
        <5>2. i - 1 \in 1 .. N /\ i - 1 # 0 /\ whole[i] = a \o b
          BY <1>2, <5>1
        <5>3. Placed(a, k, parts[j])
          BY <2>2, <5>1, <5>2
        <5>4. a \in Seq(S) /\ k \in Nat
          BY <1>3, <1>5, <5>1, <5>2
        <5>5. b \in Seq(S) /\ parts[j] \in Seq(S)
          BY <5>1 DEF N
        <5> HIDE DEF a, b, k
        <5>6. Placed(a \o b, k, parts[j])
          BY <5>3, <5>4, <5>5, PlacedFront, Zenon
        <5> QED
          BY <5>2, <5>6 DEF k
      <4> QED
        BY <4>1, <4>2
    <3> QED
      BY <3>1, <3>2
  <2> HIDE DEF T
  <2>3. 0 .. N \subseteq T
    BY <1>1, <2>1, <2>2, UpTo
  <2> QED
    BY <1>1, <2>3 DEF T
<1>8. N \in 1 .. N
  BY <1>1
<1>9. Joined(parts, whole[N], ends)
  BY <1>5, <1>6, <1>7, <1>8 DEF Joined, N
<1> QED
  BY <1>3, <1>8, <1>9, Zenon DEF N

\* FlattenSeq joins them.
LEMMA Flattened ==
    ASSUME NEW S, NEW parts \in Seq(Seq(S))
    PROVE  FlattenSeq(parts) \in Seq(S) /\ \E ends : Joined(parts, FlattenSeq(parts), ends)
<1> DEFINE N == Len(parts)
<1>1. N \in Nat /\ \A i \in 1 .. N : parts[i] \in Seq(S) /\ Len(parts[i]) \in Nat
  <2>1. N \in Nat
    OBVIOUS
  <2>2. \A i \in 1 .. N : parts[i] \in Seq(S)
    BY ElementOfSeq
  <2> QED
    BY <2>1, <2>2, LenProperties
<1>2. CASE N = 0
  <2>1. FlattenSeq(parts) = parts /\ parts = <<>>
    BY <1>2 DEF FlattenSeq
  <2>2. Joined(<<>>, <<>>, [i \in 0 .. 0 |-> 0])
    BY DEF Joined
  <2>3. <<>> \in Seq(S)
    OBVIOUS
  <2> QED
    BY <2>1, <2>2, <2>3, Zenon
<1>3. CASE N # 0
  <2> DEFINE
        flatten[i \in 1 .. N] == IF i = 1 THEN parts[i] ELSE flatten[i - 1] \o parts[i]
        Rec(g) == [i \in 1 .. N |-> IF i = 1 THEN parts[i] ELSE g[i - 1] \o parts[i]]
        step == [f \in (1 .. N) \X Seq(S) |-> f[2] \o parts[f[1]]]
  <2>1. FlattenSeq(parts) = flatten[N]
    BY <1>3 DEF FlattenSeq
  <2>2. step \in [(1 .. N) \X Seq(S) -> Seq(S)]
    <3>1. ASSUME NEW f \in (1 .. N) \X Seq(S) PROVE f[2] \o parts[f[1]] \in Seq(S)
      <4>1. f[2] \in Seq(S) /\ f[1] \in 1 .. N
        OBVIOUS
      <4>2. parts[f[1]] \in Seq(S)
        BY <1>1, <4>1
      <4> QED
        BY <4>1, <4>2, ConcatProperties, Zenon
    <3> QED
      BY <3>1, Zenon
  <2>3. PICK f \in [0 .. N -> Seq(S)] : Unrolls(f, <<>>, step, N)
    <3>1. <<>> \in Seq(S)
      OBVIOUS
    <3> HIDE DEF step, N
    <3> QED
      BY <1>1, <2>2, <3>1, Recursion
  <2> DEFINE g == [i \in 1 .. N |-> f[i]]
  <2>4. g = Rec(g)
    <3>1. ASSUME NEW i \in 1 .. N
          PROVE  f[i] = IF i = 1 THEN parts[i] ELSE g[i - 1] \o parts[i]
      <4>1. i - 1 \in 0 .. N /\ i \in 1 .. N
        BY <1>1
      <4>2. f[i - 1] \in Seq(S)
        BY <4>1
      <4>3. f[i] = step[<<i, f[i - 1]>>]
        BY <2>3 DEF Unrolls
      <4>4. f[i] = f[i - 1] \o parts[i]
        <5>1. <<i, f[i - 1]>> \in (1 .. N) \X Seq(S)
          BY <4>1, <4>2
        <5> QED
          BY <4>3, <5>1
      <4>5. CASE i = 1
        <5>1. f[i - 1] = <<>>
          BY <2>3, <4>5 DEF Unrolls
        <5>2. <<>> \o parts[i] = parts[i]
          BY <1>1, ConcatEmptySeq
        <5> QED
          BY <4>4, <4>5, <5>1, <5>2
      <4>6. CASE i # 1
        <5>1. g[i - 1] = f[i - 1]
          BY <1>1, <4>6
        <5> QED
          BY <4>4, <4>6, <5>1
      <4> QED
        BY <4>5, <4>6
    <3> QED
      BY <3>1
  <2>5. flatten = Rec(flatten)
    <3>1. flatten = CHOOSE h : h = Rec(h)
      OBVIOUS
    <3> HIDE DEF flatten, Rec
    <3> QED
      BY <2>4, <3>1
  <2> HIDE DEF flatten, g
  <2>6. flatten[1] = parts[1] /\ \A i \in 2 .. N : flatten[i] = flatten[i - 1] \o parts[i]
    <3> HIDE DEF N
    <3>1. \A i \in 1 .. N : flatten[i] = IF i = 1 THEN parts[i] ELSE flatten[i - 1] \o parts[i]
      BY <2>5, Zenon
    <3>2. 1 \in 1 .. N /\ \A i \in 2 .. N : i \in 1 .. N /\ i # 1
      BY <1>1, <1>3
    <3> QED
      BY <3>1, <3>2, Zenon
  <2>7. flatten[N] \in Seq(S) /\ \E ends : Joined(parts, flatten[N], ends)
    BY <1>1, <1>3, <2>6, JoinedUp
  <2> QED
    BY <2>1, <2>7, Zenon
<1> QED
  BY <1>2, <1>3

-----------------------------------------------------------------------------
(***************************************************************************)
(* The loops over the records of an answer.                                *)
(***************************************************************************)
\* How far a loop has come.
Progress == [offset : Nat, ttl : Nat, ok : BOOLEAN]

\* Any octets make a time to live.
LEMMA TtlRead ==
    ASSUME NEW p \in Seq(Nat), NEW k \in Nat, NEW ttl \in Nat
    PROVE  MinTtl(ttl, p, k) \in Nat
<1>1. U16(p, k) \in Nat /\ U16(p, k + 2) \in Nat
  <2>1. k + 2 \in Nat
    OBVIOUS
  <2> QED
    BY <2>1, OctetsOfPacket, OctetsAreNumbers, Zenon
<1>2. MaxTtl \in Nat
  BY SMT DEF MaxTtl
<1>3. U32(p, k) \in Nat
  BY <1>1, <1>2, SMT DEF U32
<1> QED
  BY <1>3, Zenon DEF MinTtl

\* Wherever reading begins, it goes on somewhere.
LEMMA NextPlaces ==
    ASSUME NEW p \in Seq(Nat), NEW k \in Nat
    PROVE  /\ ParseQname(p, k).next \in Nat
           /\ \A type \in Known : SkipData(p, type, k) \in Nat
           /\ SkipSoa(p, k) \in Nat
<1>1. \A i \in Nat : ParseQname(p, i).next \in Nat
  <2>1. \A i \in Nat : ParseQname(p, i) \in Parsed(Nat)
    BY ParsedName, OctetsAreNumbers, Zenon
  <2> QED
    BY <2>1 DEF Parsed
<1>2. k + 2 \in Nat /\ k + 4 \in Nat /\ k + 16 \in Nat
  OBVIOUS
<1>3. \A type \in Known : SkipData(p, type, k) \in Nat
  BY <1>1, <1>2 DEF SkipData, Known
<1>4. SkipSoa(p, k) \in Nat
  BY <1>1 DEF SkipSoa
<1> QED
  BY <1>1, <1>3, <1>4

\* The less of two times to live.
Less(t, u) == IF t < u THEN t ELSE u

\* One record of the answers, whatever is there.
LEMMA NextAnswerTyped ==
    ASSUME NEW p \in Seq(Nat), NEW acc \in Progress
    PROVE  NextAnswer(p, acc) \in Progress /\ (NextAnswer(p, acc).ok => acc.ok)
<1> DEFINE fixed == ParseQname(p, acc.offset).next
           type == U16(p, fixed)
           ttl == MinTtl(acc.ttl, p, fixed + 4)
           offset1 == SkipData(p, type, fixed + 10)
           next == IF ~acc.ok \/ type \notin Known THEN [acc EXCEPT !.ok = FALSE]
                   ELSE [acc EXCEPT !.ttl = ttl, !.offset = offset1]
<1>1. NextAnswer(p, acc) = next
  BY Zenon DEF NextAnswer, Known
<1>2. acc.offset \in Nat /\ acc.ttl \in Nat
  BY DEF Progress
<1>3. fixed \in Nat
  BY <1>2, NextPlaces, Zenon
<1>4. ttl \in Nat
  <2>1. fixed + 4 \in Nat
    BY <1>3
  <2> QED
    BY <1>2, <2>1, TtlRead, Zenon
<1>5. type \in Known => offset1 \in Nat
  <2>1. fixed + 10 \in Nat
    BY <1>3
  <2> QED
    BY <2>1, NextPlaces, Zenon
<1> HIDE DEF ttl, offset1, type
<1>6. next \in Progress /\ (next.ok => acc.ok)
  BY <1>4, <1>5 DEF Progress
<1> QED
  BY <1>1, <1>6, Zenon

\* One record of the answers, where it lies.
LEMMA NextAnswerReads ==
    ASSUME NEW p \in Seq(Nat), NEW acc \in Progress, NEW r \in GivenRecord, WireRecord(r),
           Placed(p, acc.offset, RecordBuf(r)), NextAnswer(p, acc).ok
    PROVE  /\ NextAnswer(p, acc).offset = acc.offset + Len(RecordBuf(r))
           /\ NextAnswer(p, acc).ttl = Less(r.ttl, acc.ttl)
<1> DEFINE fixed == ParseQname(p, acc.offset).next
           type == U16(p, fixed)
           ttl == MinTtl(acc.ttl, p, fixed + 4)
           offset1 == SkipData(p, type, fixed + 10)
           n == Len(RecordBuf(r))
           next == IF ~acc.ok \/ type \notin Known THEN [acc EXCEPT !.ok = FALSE]
                   ELSE [acc EXCEPT !.ttl = ttl, !.offset = offset1]
<1>1. NextAnswer(p, acc) = next
  BY Zenon DEF NextAnswer, Known
<1>2. acc.offset \in Nat
  BY DEF Progress
<1>3. /\ fixed \in Nat /\ type = r.type /\ U32(p, fixed + 4) = r.ttl
      /\ Placed(p, fixed + 10, r.data) /\ WireData(r.type, r.data)
      /\ fixed + 10 + Len(r.data) = acc.offset + n
  BY <1>2, RecordRead, Zenon
<1>4. r.data \in Seq(Nat)
  BY RecordParts, Zenon
<1>5. r.type \in Known => offset1 = fixed + 10 + Len(r.data)
  <2> DEFINE k == fixed + 10
             d == r.data
  <2>1. k \in Nat /\ d \in Seq(Nat) /\ Placed(p, k, d) /\ WireData(r.type, d)
    BY <1>3, <1>4
  <2>2. offset1 = SkipData(p, r.type, k)
    BY <1>3, Zenon
  <2> HIDE DEF k, d, offset1
  <2>3. r.type \in Known => SkipData(p, r.type, k) = k + Len(d)
    BY <2>1, DataPassed, Zenon
  <2> QED
    BY <2>2, <2>3, Zenon DEF k, d
<1>6. ttl = Less(r.ttl, acc.ttl)
  BY <1>3, Zenon DEF MinTtl, Less
<1> HIDE DEF ttl, offset1, type, fixed, n
<1>7. next.ok => /\ next.offset = offset1 /\ next.ttl = ttl /\ type \in Known
  BY DEF Progress
<1>8. next.ok
  BY <1>1, Zenon
<1> HIDE DEF next
<1> QED
  BY <1>1, <1>3, <1>5, <1>6, <1>7, <1>8, Zenon DEF n

\* One record of the authority, and where it lies, if it lies there.
LEMMA NextAuthorityReads ==
    ASSUME NEW p \in Seq(Nat), NEW acc \in Progress
    PROVE  /\ NextAuthority(p, acc) \in Progress /\ NextAuthority(p, acc).ok = acc.ok
           /\ \A r \in GivenRecord :
                 WireRecord(r) /\ Placed(p, acc.offset, RecordBuf(r)) =>
                     /\ NextAuthority(p, acc).ttl = Less(r.ttl, acc.ttl)
                     /\ r.type = SOA =>
                           NextAuthority(p, acc).offset = acc.offset + Len(RecordBuf(r))
<1> DEFINE fixed == ParseQname(p, acc.offset).next
           ttl == MinTtl(acc.ttl, p, fixed + 4)
           offset1 == SkipSoa(p, fixed + 10)
           next == [acc EXCEPT !.ttl = ttl, !.offset = offset1]
<1>1. NextAuthority(p, acc) = next
  BY Zenon DEF NextAuthority
<1>2. acc.offset \in Nat /\ acc.ttl \in Nat
  BY DEF Progress
<1>3. fixed \in Nat
  BY <1>2, NextPlaces, Zenon
<1>4. fixed + 4 \in Nat /\ fixed + 10 \in Nat
  BY <1>3
<1>5. ttl \in Nat /\ offset1 \in Nat
  BY <1>2, <1>4, TtlRead, NextPlaces, Zenon
<1>6. ASSUME NEW r \in GivenRecord, WireRecord(r), Placed(p, acc.offset, RecordBuf(r))
      PROVE  /\ ttl = Less(r.ttl, acc.ttl)
             /\ r.type = SOA => offset1 = acc.offset + Len(RecordBuf(r))
  <2>1. /\ U32(p, fixed + 4) = r.ttl
        /\ Placed(p, fixed + 10, r.data) /\ WireData(r.type, r.data)
        /\ fixed + 10 + Len(r.data) = acc.offset + Len(RecordBuf(r))
    BY <1>2, <1>6, RecordRead, Zenon
  <2>2. r.data \in Seq(Nat)
    BY RecordParts, Zenon
  <2>3. ttl = Less(r.ttl, acc.ttl)
    BY <2>1, Zenon DEF MinTtl, Less
  <2>4. r.type = SOA => SkipSoa(p, fixed + 10) = fixed + 10 + Len(r.data)
    <3> DEFINE k == fixed + 10
               d == r.data
    <3>1. k \in Nat /\ d \in Seq(Nat) /\ Placed(p, k, d) /\ WireData(r.type, d)
      BY <1>4, <2>1, <2>2, Zenon
    <3> HIDE DEF k, d
    <3>2. r.type = SOA => SkipSoa(p, k) = k + Len(d)
      BY <3>1, DataPassed, Zenon
    <3> QED
      BY <3>2, Zenon DEF k, d
  <2> HIDE DEF fixed
  <2> QED
    BY <2>1, <2>3, <2>4, Zenon
<1> HIDE DEF ttl, offset1, fixed
<1>7. next \in Progress /\ next.ok = acc.ok /\ next.ttl = ttl /\ next.offset = offset1
  BY <1>5 DEF Progress
<1> HIDE DEF next
<1> QED
  BY <1>1, <1>6, <1>7, Zenon

\* A loop: f goes from start by step, n times.
Loops(f, start, step, n) == f[0] = start /\ \A k \in 1 .. n : f[k] = step[f[k - 1]]

\* Such a loop there is.
LEMMA LoopExists ==
    ASSUME NEW N \in Nat, NEW X, NEW acc \in X, NEW step \in [X -> X]
    PROVE  \E f \in [0 .. N -> X] : Loops(f, acc, step, N)
<1> DEFINE next == [f \in (1 .. N) \X X |-> step[f[2]]]
<1>1. next \in [(1 .. N) \X X -> X]
  OBVIOUS
<1>2. PICK f \in [0 .. N -> X] : Unrolls(f, acc, next, N)
  <2> HIDE DEF next
  <2> QED
    BY <1>1, Recursion
<1>3. ASSUME NEW n \in 1 .. N PROVE f[n] = step[f[n - 1]]
  <2>1. n - 1 \in 0 .. N
    OBVIOUS
  <2>2. <<n, f[n - 1]>> \in (1 .. N) \X X
    BY <2>1
  <2>3. f[n] = next[<<n, f[n - 1]>>]
    BY <1>2 DEF Unrolls
  <2> QED
    BY <2>2, <2>3
<1> QED
  BY <1>2, <1>3 DEF Unrolls, Loops

\* The loop over the answers, step by step.
LEMMA AnswersUnroll ==
    ASSUME NEW p \in Seq(Nat), NEW acc \in Progress, NEW N \in Nat
    PROVE  \E read : /\ read[0] = acc /\ read[N] = ReadAnswers(p, acc, N)
                     /\ \A n \in 1 .. N : read[n] = NextAnswer(p, read[n - 1])
<1> DEFINE read[n \in 0 .. N] == IF n = 0 THEN acc ELSE NextAnswer(p, read[n - 1])
           Rec(g) == [n \in 0 .. N |-> IF n = 0 THEN acc ELSE NextAnswer(p, g[n - 1])]
           step == [a \in Progress |-> NextAnswer(p, a)]
<1>1. read[N] = ReadAnswers(p, acc, N)
  BY DEF ReadAnswers
<1>2. step \in [Progress -> Progress]
  BY NextAnswerTyped
<1>3. PICK f \in [0 .. N -> Progress] :
          f[0] = acc /\ \A n \in 1 .. N : f[n] = step[f[n - 1]]
  <2> HIDE DEF step
  <2>1. PICK f \in [0 .. N -> Progress] : Loops(f, acc, step, N)
    BY <1>2, LoopExists
  <2> QED
    BY <2>1 DEF Loops
<1>4. f = Rec(f)
  <2>1. ASSUME NEW n \in 0 .. N PROVE f[n] = IF n = 0 THEN acc ELSE NextAnswer(p, f[n - 1])
    <3>1. CASE n = 0
      BY <1>3, <3>1
    <3>2. CASE n # 0
      <4>1. n - 1 \in 0 .. N /\ n \in 1 .. N
        BY <3>2
      <4>2. f[n - 1] \in Progress
        BY <4>1
      <4>3. f[n] = step[f[n - 1]]
        BY <1>3, <4>1
      <4> QED
        BY <3>2, <4>2, <4>3
    <3> QED
      BY <3>1, <3>2
  <2> QED
    BY <2>1
<1>5. read = Rec(read)
  <2>1. read = CHOOSE g : g = Rec(g)
    OBVIOUS
  <2> HIDE DEF read, Rec
  <2> QED
    BY <1>4, <2>1
<1> HIDE DEF read
<1>6. read[0] = acc /\ \A n \in 1 .. N : read[n] = NextAnswer(p, read[n - 1])
  BY <1>5
<1> QED
  BY <1>1, <1>6

\* The loop over the authority, step by step.
LEMMA AuthorityUnrolls ==
    ASSUME NEW p \in Seq(Nat), NEW acc \in Progress, NEW N \in Nat
    PROVE  \E read : /\ read[0] = acc /\ read[N] = ReadAuthority(p, acc, N)
                     /\ \A n \in 1 .. N : read[n] = NextAuthority(p, read[n - 1])
<1> DEFINE read[n \in 0 .. N] == IF n = 0 THEN acc ELSE NextAuthority(p, read[n - 1])
           Rec(g) == [n \in 0 .. N |-> IF n = 0 THEN acc ELSE NextAuthority(p, g[n - 1])]
           step == [a \in Progress |-> NextAuthority(p, a)]
<1>1. read[N] = ReadAuthority(p, acc, N)
  BY DEF ReadAuthority
<1>2. step \in [Progress -> Progress]
  BY NextAuthorityReads
<1>3. PICK f \in [0 .. N -> Progress] :
          f[0] = acc /\ \A n \in 1 .. N : f[n] = step[f[n - 1]]
  <2> HIDE DEF step
  <2>1. PICK f \in [0 .. N -> Progress] : Loops(f, acc, step, N)
    BY <1>2, LoopExists
  <2> QED
    BY <2>1 DEF Loops
<1>4. f = Rec(f)
  <2>1. ASSUME NEW n \in 0 .. N PROVE f[n] = IF n = 0 THEN acc ELSE NextAuthority(p, f[n - 1])
    <3>1. CASE n = 0
      BY <1>3, <3>1
    <3>2. CASE n # 0
      <4>1. n - 1 \in 0 .. N /\ n \in 1 .. N
        BY <3>2
      <4>2. f[n - 1] \in Progress
        BY <4>1
      <4>3. f[n] = step[f[n - 1]]
        BY <1>3, <4>1
      <4> QED
        BY <3>2, <4>2, <4>3
    <3> QED
      BY <3>1, <3>2
  <2> QED
    BY <2>1
<1>5. read = Rec(read)
  <2>1. read = CHOOSE g : g = Rec(g)
    OBVIOUS
  <2> HIDE DEF read, Rec
  <2> QED
    BY <1>4, <2>1
<1> HIDE DEF read
<1>6. read[0] = acc /\ \A n \in 1 .. N : read[n] = NextAuthority(p, read[n - 1])
  BY <1>5
<1> QED
  BY <1>1, <1>6

\* Record i of a section ends behind ends[i].
SectionEnds(records, ends) ==
    /\ ends \in [0 .. Len(records) -> Nat]
    /\ ends[0] = 0 /\ ends[Len(records)] = Len(Section(records))
    /\ \A i \in 1 .. Len(records) :
          /\ ends[i] = ends[i - 1] + Len(RecordBuf(records[i]))
          /\ Placed(Section(records), ends[i - 1], RecordBuf(records[i]))

\* A section is its records, one behind the other.
LEMMA SectionPlaced ==
    ASSUME NEW records \in Seq(GivenRecord)
    PROVE  /\ Section(records) \in Seq(Nat) /\ Len(Section(records)) \in Nat
           /\ Len(records) \in Nat
           /\ \E ends : SectionEnds(records, ends)
<1> DEFINE n == Len(records)
           parts == [i \in DOMAIN records |-> RecordBuf(records[i])]
<1>1. n \in Nat /\ DOMAIN records = 1 .. n /\ \A i \in 1 .. n : records[i] \in GivenRecord
  BY ElementOfSeq, LenProperties
<1>2. \A i \in 1 .. n : RecordBuf(records[i]) \in Seq(Nat)
  BY <1>1, RecordParts, Zenon DEF Laid
<1>3. parts = [i \in 1 .. n |-> parts[i]] /\ \A i \in 1 .. n : parts[i] = RecordBuf(records[i])
  BY <1>1
<1>4. Section(records) = FlattenSeq(parts)
  BY DEF Section
<1> HIDE DEF parts
<1>5. \A i \in 1 .. n : parts[i] \in Seq(Nat)
  BY <1>2, <1>3
<1> HIDE DEF n
<1>6. parts \in Seq(Seq(Nat)) /\ Len(parts) = n
  BY <1>1, <1>3, <1>5, AnySequence, Zenon
<1>7. FlattenSeq(parts) \in Seq(Nat) /\ \E ends : Joined(parts, FlattenSeq(parts), ends)
  BY <1>6, Flattened, Zenon
<1>8. PICK ends : Joined(parts, FlattenSeq(parts), ends)
  BY <1>7, Zenon
<1>9. SectionEnds(records, ends)
  BY <1>3, <1>4, <1>6, <1>8, Zenon DEF Joined, SectionEnds, n
<1> QED
  BY <1>1, <1>4, <1>7, <1>9, LenProperties, Zenon DEF n

\* ttl is the least of from and the times to live of the first n records.
LeastOf(ttl, from, records, n) ==
    /\ ttl = from \/ \E j \in 1 .. n : ttl = records[j].ttl
    /\ ttl <= from
    /\ \A j \in 1 .. n : ttl <= records[j].ttl

\* Of no records it is what it starts with.
LEMMA LeastOfNone ==
    ASSUME NEW from \in Nat, NEW records
    PROVE  LeastOf(from, from, records, 0)
BY DEF LeastOf

\* One record more.
LEMMA LeastOfMore ==
    ASSUME NEW records \in Seq(GivenRecord), NEW n \in 1 .. Len(records),
           NEW from \in Nat, NEW ttl \in Nat, LeastOf(ttl, from, records, n - 1)
    PROVE  LeastOf(Less(records[n].ttl, ttl), from, records, n)
<1> DEFINE T(j) == records[j].ttl
<1>1. n \in Nat /\ 1 .. n = (1 .. n - 1) \cup {n}
  OBVIOUS
<1>2. \A j \in 1 .. n : T(j) \in Nat
  <2>1. \A j \in 1 .. n : records[j] \in GivenRecord
    BY ElementOfSeq
  <2> QED
    BY <2>1, GivenTypes, Zenon
<1>3. /\ ttl = from \/ \E j \in 1 .. n - 1 : ttl = T(j)
      /\ ttl <= from
      /\ \A j \in 1 .. n - 1 : ttl <= T(j)
  BY Zenon DEF LeastOf
<1> DEFINE least == Less(T(n), ttl)
<1> HIDE DEF T
<1>4. T(n) \in Nat
  BY <1>1, <1>2
<1>5. least \in Nat /\ least <= T(n) /\ least <= ttl /\ (least = T(n) \/ least = ttl)
  BY <1>4 DEF Less
<1> HIDE DEF least
<1>6. /\ least = from \/ \E j \in 1 .. n : least = T(j)
      /\ least <= from
      /\ \A j \in 1 .. n : least <= T(j)
  BY <1>1, <1>2, <1>3, <1>5
<1> QED
  BY <1>6, Zenon DEF LeastOf, least, T

\* dns_query's loop over the answers, up to the end of the section or to a type it does
\* not know.
LEMMA AnswersRead ==
    ASSUME NEW p \in Seq(Nat), NEW records \in Seq(GivenRecord), NEW at \in Nat, NEW from \in Nat,
           \A i \in 1 .. Len(records) : WireRecord(records[i]),
           Placed(p, at, Section(records)),
           NEW last,
           last = ReadAnswers(p, [offset |-> at, ttl |-> from, ok |-> TRUE], Len(records))
    PROVE  /\ last \in Progress
           /\ last.ok => /\ last.offset = at + Len(Section(records))
                         /\ LeastOf(last.ttl, from, records, Len(records))
<1> DEFINE N == Len(records)
           start == [offset |-> at, ttl |-> from, ok |-> TRUE]
<1>1. N \in Nat /\ start \in Progress
  BY SectionPlaced DEF Progress
<1>2. PICK read : /\ read[0] = start /\ read[N] = ReadAnswers(p, start, N)
                  /\ \A n \in 1 .. N : read[n] = NextAnswer(p, read[n - 1])
  BY <1>1, AnswersUnroll, Zenon
<1>3. PICK ends : SectionEnds(records, ends)
  BY SectionPlaced, Zenon
<1> DEFINE Good(n) == /\ read[n] \in Progress
                      /\ read[n].ok => /\ read[n].offset = at + ends[n]
                                       /\ LeastOf(read[n].ttl, from, records, n)
           T == {n \in 0 .. N : Good(n)}
<1>4. Good(0)
  <2>1. start.offset = at + ends[0] /\ start.ttl = from
    BY <1>3 DEF SectionEnds
  <2> HIDE DEF start
  <2>2. LeastOf(start.ttl, from, records, 0)
    BY <2>1, LeastOfNone, Zenon
  <2> QED
    BY <1>1, <1>2, <2>1, <2>2, Zenon
<1>5. ASSUME NEW n \in 1 .. N, Good(n - 1) PROVE Good(n)
  <2> DEFINE acc == read[n - 1]
             r == records[n]
  <2>1. n - 1 \in 0 .. N /\ n \in 1 .. Len(records)
    BY <1>1
  <2>2. acc \in Progress /\ read[n] = NextAnswer(p, acc) /\ r \in GivenRecord /\ WireRecord(r)
    BY <1>2, <1>5, ElementOfSeq, Zenon
  <2>3. read[n] \in Progress /\ (read[n].ok => acc.ok)
    BY <2>2, NextAnswerTyped, Zenon
  <2>4. ASSUME read[n].ok
        PROVE  read[n].offset = at + ends[n] /\ LeastOf(read[n].ttl, from, records, n)
    <3>1. acc.offset = at + ends[n - 1] /\ LeastOf(acc.ttl, from, records, n - 1)
      BY <1>5, <2>3, <2>4, Zenon
    <3>2. /\ ends[n - 1] \in Nat /\ ends[n] = ends[n - 1] + Len(RecordBuf(r))
          /\ Placed(Section(records), ends[n - 1], RecordBuf(r))
      BY <1>3, <2>1, Zenon DEF SectionEnds
    <3>3. Placed(p, at + ends[n - 1], RecordBuf(r))
      <4>1. RecordBuf(r) \in Seq(Nat)
        BY <2>2, RecordParts, Zenon DEF Laid
      <4> QED
        BY <3>2, <4>1, SectionPlaced, PlacedInside, Zenon
    <3>4. /\ read[n].offset = acc.offset + Len(RecordBuf(r))
          /\ read[n].ttl = Less(r.ttl, acc.ttl)
      <4>1. Placed(p, acc.offset, RecordBuf(r)) /\ NextAnswer(p, acc).ok
        BY <2>2, <2>4, <3>1, <3>3, Zenon
      <4> HIDE DEF acc, r
      <4>2. /\ NextAnswer(p, acc).offset = acc.offset + Len(RecordBuf(r))
            /\ NextAnswer(p, acc).ttl = Less(r.ttl, acc.ttl)
        BY <2>2, <4>1, NextAnswerReads
      <4> QED
        BY <2>2, <4>2, Zenon
    <3>5. read[n].offset = at + ends[n]
      <4>1. Len(RecordBuf(r)) \in Nat
        BY <2>2, RecordParts, LenProperties, Zenon DEF Laid
      <4> HIDE DEF acc, r
      <4> QED
        BY <3>1, <3>2, <3>4, <4>1
    <3>6. acc.ttl \in Nat
      BY <2>2 DEF Progress
    <3>7. LeastOf(read[n].ttl, from, records, n)
      BY <2>1, <3>1, <3>4, <3>6, LeastOfMore, Zenon
    <3> QED
      BY <3>5, <3>7
  <2> QED
    BY <2>3, <2>4
<1>6. Good(N)
  <2> HIDE DEF Good
  <2>1. 0 \in T /\ \A n \in 1 .. N : n - 1 \in T => n \in T
    <3>1. 0 \in 0 .. N /\ \A n \in 1 .. N : n \in 0 .. N
      BY <1>1
    <3> QED
      BY <1>4, <1>5, <3>1, Zenon
  <2> HIDE DEF T, N
  <2>2. 0 .. N \subseteq T
    BY <1>1, <2>1, UpTo, Zenon
  <2>3. N \in T
    BY <1>1, <2>2
  <2> QED
    BY <2>3, Zenon DEF T
<1>7. ends[N] = Len(Section(records)) /\ last = read[N]
  BY <1>2, <1>3, Zenon DEF SectionEnds
<1> QED
  BY <1>6, <1>7, Zenon

\* Its loop over the authority, which takes every record for a SOA.
LEMMA AuthorityRead ==
    ASSUME NEW p \in Seq(Nat), NEW records \in Seq(GivenRecord), NEW start \in Progress,
           \A i \in 1 .. Len(records) : WireRecord(records[i]),
           Placed(p, start.offset, Section(records)),
           Len(records) <= 1 \/ \A i \in 1 .. Len(records) : records[i].type = SOA,
           NEW last, last = ReadAuthority(p, start, Len(records))
    PROVE  last \in Progress /\ LeastOf(last.ttl, start.ttl, records, Len(records))
<1> DEFINE N == Len(records)
           AllSoa == \A i \in 1 .. N : records[i].type = SOA
<1>1. N \in Nat /\ start.offset \in Nat /\ start.ttl \in Nat
  BY SectionPlaced DEF Progress
<1>2. PICK read : /\ read[0] = start /\ read[N] = ReadAuthority(p, start, N)
                  /\ \A n \in 1 .. N : read[n] = NextAuthority(p, read[n - 1])
  BY <1>1, AuthorityUnrolls, Zenon
<1>3. PICK ends : SectionEnds(records, ends)
  BY SectionPlaced, Zenon
<1> DEFINE Good(n) == /\ read[n] \in Progress
                      /\ LeastOf(read[n].ttl, start.ttl, records, n)
                      /\ n = 0 \/ AllSoa => read[n].offset = start.offset + ends[n]
           T == {n \in 0 .. N : Good(n)}
<1>4. Good(0)
  <2>1. start.offset = start.offset + ends[0]
    BY <1>1, <1>3 DEF SectionEnds
  <2>2. LeastOf(start.ttl, start.ttl, records, 0)
    BY <1>1, LeastOfNone, Zenon
  <2> QED
    BY <1>1, <1>2, <2>1, <2>2, Zenon
<1>5. ASSUME NEW n \in 1 .. N, Good(n - 1) PROVE Good(n)
  <2> DEFINE acc == read[n - 1]
             r == records[n]
  <2>1. n - 1 \in 0 .. N /\ n \in 1 .. Len(records) /\ n # 0
    BY <1>1
  <2>2. acc \in Progress /\ read[n] = NextAuthority(p, acc) /\ r \in GivenRecord /\ WireRecord(r)
    BY <1>2, <1>5, ElementOfSeq, Zenon
  <2>3. acc.offset = start.offset + ends[n - 1] /\ LeastOf(acc.ttl, start.ttl, records, n - 1)
    <3>1. n - 1 = 0 \/ AllSoa
      <4>1. N <= 1 \/ AllSoa
        OBVIOUS
      <4> HIDE DEF N, AllSoa
      <4> QED
        BY <1>1, <4>1
    <3> QED
      BY <1>5, <3>1, Zenon
  <2>4. /\ ends[n - 1] \in Nat /\ ends[n] = ends[n - 1] + Len(RecordBuf(r))
        /\ Placed(Section(records), ends[n - 1], RecordBuf(r))
    BY <1>3, <2>1, Zenon DEF SectionEnds
  <2>5. RecordBuf(r) \in Seq(Nat) /\ Len(RecordBuf(r)) \in Nat
    BY <2>2, RecordParts, LenProperties, Zenon DEF Laid
  <2>6. Placed(p, acc.offset, RecordBuf(r))
    <3>1. Placed(p, start.offset + ends[n - 1], RecordBuf(r))
      BY <1>1, <2>4, <2>5, SectionPlaced, PlacedInside, Zenon
    <3> QED
      BY <2>3, <3>1, Zenon
  <2>7. acc.ttl \in Nat
    BY <2>2 DEF Progress
  <2>8. r.type = SOA <=> records[n].type = SOA
    OBVIOUS
  <2> HIDE DEF acc, r
  <2>9. /\ NextAuthority(p, acc) \in Progress
        /\ NextAuthority(p, acc).ttl = Less(r.ttl, acc.ttl)
        /\ r.type = SOA => NextAuthority(p, acc).offset = acc.offset + Len(RecordBuf(r))
    BY <2>2, <2>6, NextAuthorityReads
  <2>10. LeastOf(read[n].ttl, start.ttl, records, n)
    <3>1. LeastOf(Less(records[n].ttl, acc.ttl), start.ttl, records, n)
      BY <1>1, <2>1, <2>3, <2>7, LeastOfMore, Zenon
    <3> QED
      BY <2>2, <2>9, <3>1, Zenon DEF r
  <2>11. AllSoa => read[n].offset = start.offset + ends[n]
    <3>1. AllSoa => read[n].offset = acc.offset + Len(RecordBuf(r))
      BY <2>2, <2>8, <2>9, Zenon
    <3> HIDE DEF AllSoa
    <3> QED
      BY <1>1, <2>3, <2>4, <2>5, <3>1
  <2> QED
    BY <2>1, <2>2, <2>9, <2>10, <2>11, Zenon
<1>6. Good(N)
  <2> HIDE DEF Good
  <2>1. 0 \in T /\ \A n \in 1 .. N : n - 1 \in T => n \in T
    <3>1. 0 \in 0 .. N /\ \A n \in 1 .. N : n \in 0 .. N
      BY <1>1
    <3> QED
      BY <1>4, <1>5, <3>1, Zenon
  <2> HIDE DEF T, N
  <2>2. 0 .. N \subseteq T
    BY <1>1, <2>1, UpTo, Zenon
  <2>3. N \in T
    BY <1>1, <2>2
  <2> QED
    BY <2>3, Zenon DEF T
<1> QED
  BY <1>2, <1>6, Zenon

-----------------------------------------------------------------------------
(***************************************************************************)
(* The server's packet.                                                    *)
(***************************************************************************)
\* A part of a packet, cut out.
LEMMA CutOut ==
    ASSUME NEW p \in Seq(Nat), NEW at \in Nat, NEW part \in Seq(Nat), Placed(p, at, part)
    PROVE  Octets(p, at, at + Len(part)) = part
<1>1. Len(p) \in Nat /\ Len(part) \in Nat /\ (at + Len(part)) - at = Len(part)
  BY LenProperties
<1>2. ASSUME NEW i \in 1 .. Len(part) PROVE U8(p, at + i - 1) = part[i]
  <2>1. at + i - 1 < Len(p) /\ (at + i - 1) + 1 = at + i
    BY <1>1 DEF Placed
  <2> QED
    BY <2>1 DEF Placed, U8
<1>3. Octets(p, at, at + Len(part)) = [i \in 1 .. Len(part) |-> part[i]]
  BY <1>1, <1>2 DEF Octets
<1>4. part = [i \in 1 .. Len(part) |-> part[i]]
  OBVIOUS
<1> QED
  BY <1>3, <1>4, Zenon

\* Three sequences are put together in either order.
Regroups(a, b, c) == a \o b \o c = a \o (b \o c)

LEMMA Regrouped ==
    ASSUME NEW a \in Seq(Nat), NEW b \in Seq(Nat), NEW c \in Seq(Nat)
    PROVE  Regroups(a, b, c)
BY ConcatAssociative DEF Regroups

\* Packet p begins with header h; behind its first n octets section x lies, then y and z.
Sectioned(p, h, n, x, y, z) ==
    /\ p \in Seq(Nat) /\ Placed(p, 0, h)
    /\ Placed(p, n, x) /\ Placed(p, n + Len(x), y)
    /\ Placed(p, n + Len(x), y \o z) /\ y \o z \in Seq(Nat)
    /\ Len(p) = n + Len(x) + Len(y \o z)

\* A packet of a header, the question of the query and three sections.
LEMMA PacketOfParts ==
    ASSUME NEW h \in Seq(Nat), NEW b \in Seq(Nat), NEW x \in Seq(Nat), NEW y \in Seq(Nat),
           NEW z \in Seq(Nat), NEW n \in Nat, n = Len(h) + Len(b)
    PROVE  Sectioned(h \o b \o x \o y \o z, h, n, x, y, z)
<1> DEFINE q == h \o b
           q1 == q \o x
           s == y \o z
           p == q1 \o s
<1>1. q \in Seq(Nat) /\ Len(q) = n /\ Placed(q, 0, h)
  BY PlacedConcat
<1> HIDE DEF q
<1>2. /\ q1 \in Seq(Nat) /\ Len(q1) = n + Len(x) /\ Placed(q1, n, x) /\ Placed(q1, 0, h)
      /\ Len(x) \in Nat
  <2>1. q1 \in Seq(Nat) /\ Len(q1) = Len(q) + Len(x) /\ Placed(q1, Len(q), x) /\ Len(x) \in Nat
    BY <1>1, PlacedConcat, Zenon
  <2>2. Placed(q1, 0, h)
    BY <1>1, PlacedFront, Zenon
  <2> QED
    BY <1>1, <2>1, <2>2, Zenon
<1> HIDE DEF q1
<1>3. s \in Seq(Nat) /\ Placed(s, 0, y) /\ Len(s) \in Nat
  BY PlacedConcat, Zenon
<1> HIDE DEF s
<1>4. /\ p \in Seq(Nat) /\ Len(p) = Len(q1) + Len(s) /\ Placed(p, Len(q1), s)
      /\ Placed(p, n, x) /\ Placed(p, 0, h)
  <2>1. p \in Seq(Nat) /\ Len(p) = Len(q1) + Len(s) /\ Placed(p, Len(q1), s)
    BY <1>2, <1>3, PlacedConcat, Zenon
  <2>2. Placed(p, n, x) /\ Placed(p, 0, h)
    <3>1. 0 \in Nat
      OBVIOUS
    <3> QED
      BY <1>2, <1>3, <3>1, PlacedFront, Zenon
  <2> QED
    BY <2>1, <2>2
<1> HIDE DEF p
<1>5. Placed(p, n + Len(x), y)
  <2>1. Len(q1) \in Nat /\ 0 \in Nat /\ Len(q1) + 0 = n + Len(x)
    BY <1>2
  <2>2. Placed(p, Len(q1) + 0, y)
    BY <1>2, <1>3, <1>4, <2>1, PlacedInside, Zenon
  <2> QED
    BY <2>1, <2>2
<1>6. h \o b \o x \o y \o z = p
  <2>1. h \o b \o x \o y \o z = q1 \o (y \o z)
    <3>1. q1 = h \o b \o x
      BY Zenon DEF q1, q
    <3>2. Regroups(q1, y, z)
      BY <1>2, Regrouped, Zenon
    <3> QED
      BY <3>1, <3>2, Zenon DEF Regroups
  <2> QED
    BY <2>1, Zenon DEF p, s
<1> QED
  BY <1>2, <1>3, <1>4, <1>5, <1>6, Zenon DEF s, Sectioned

\* The six pairs of octets of a header, of which c, d and e are the third to the fifth.
LaidPairs(h, c, d, e) ==
    /\ h \in Seq(Nat) /\ Len(h) = 12
    /\ Placed(h, 4, c) /\ Placed(h, 6, d) /\ Placed(h, 8, e)

LEMMA PairsPlaced ==
    ASSUME NEW a \in Seq(Nat), NEW b \in Seq(Nat), NEW c \in Seq(Nat), NEW d \in Seq(Nat),
           NEW e \in Seq(Nat), NEW f \in Seq(Nat),
           Len(a) = 2, Len(b) = 2, Len(c) = 2, Len(d) = 2, Len(e) = 2, Len(f) = 2
    PROVE  LaidPairs(a \o b \o c \o d \o e \o f, c, d, e)
<1> DEFINE b1 == a \o b
           b2 == b1 \o c
           b3 == b2 \o d
           b4 == b3 \o e
<1>1. b1 \in Seq(Nat) /\ Len(b1) = 4
  <2>1. b1 \in Seq(Nat) /\ Len(b1) = Len(a) + Len(b)
    BY PlacedConcat, Zenon
  <2> QED
    BY <2>1
<1> HIDE DEF b1
<1>2. b2 \in Seq(Nat) /\ Len(b2) = 6 /\ Placed(b2, 4, c)
  <2>1. b2 \in Seq(Nat) /\ Len(b2) = Len(b1) + Len(c) /\ Placed(b2, Len(b1), c)
    BY <1>1, PlacedConcat, Zenon
  <2> QED
    BY <1>1, <2>1
<1> HIDE DEF b2
<1>3. b3 \in Seq(Nat) /\ Len(b3) = 8 /\ Placed(b3, 4, c) /\ Placed(b3, 6, d)
  <2>1. b3 \in Seq(Nat) /\ Len(b3) = Len(b2) + Len(d) /\ Placed(b3, Len(b2), d)
    BY <1>2, PlacedConcat, Zenon
  <2>2. 4 \in Nat
    OBVIOUS
  <2>3. Placed(b3, 4, c)
    BY <1>2, <2>2, PlacedFront, Zenon
  <2> QED
    BY <1>2, <2>1, <2>3
<1> HIDE DEF b3
<1>4. /\ b4 \in Seq(Nat) /\ Len(b4) = 10
      /\ Placed(b4, 4, c) /\ Placed(b4, 6, d) /\ Placed(b4, 8, e)
  <2>1. b4 \in Seq(Nat) /\ Len(b4) = Len(b3) + Len(e) /\ Placed(b4, Len(b3), e)
    BY <1>3, PlacedConcat, Zenon
  <2>2. 4 \in Nat /\ 6 \in Nat
    OBVIOUS
  <2>3. Placed(b4, 4, c) /\ Placed(b4, 6, d)
    BY <1>3, <2>2, PlacedFront, Zenon
  <2> QED
    BY <1>3, <2>1, <2>3
<1> HIDE DEF b4
<1>5. a \o b \o c \o d \o e \o f = b4 \o f
  BY Zenon DEF b4, b3, b2, b1
<1>6. /\ b4 \o f \in Seq(Nat) /\ Len(b4 \o f) = Len(b4) + Len(f)
      /\ Placed(b4 \o f, 4, c) /\ Placed(b4 \o f, 6, d) /\ Placed(b4 \o f, 8, e)
  <2>1. 4 \in Nat /\ 6 \in Nat /\ 8 \in Nat
    OBVIOUS
  <2> QED
    BY <1>4, <2>1, PlacedConcat, PlacedFront, Zenon
<1>7. Len(b4) + Len(f) = 12
  BY <1>4
<1> QED
  BY <1>5, <1>6, <1>7, Zenon DEF LaidPairs

\* dns_header_htons writes the counts at their places.
LEMMA HeaderPut ==
    ASSUME NEW h, h.id \in Nat, h.qr \in Nat, h.rcode \in Nat, h.qdcount \in Nat,
           h.ancount \in Nat, h.nscount \in Nat, h.arcount \in Nat
    PROVE  LaidPairs(PutHeader(h), Put16(h.qdcount), Put16(h.ancount), Put16(h.nscount))
<1> DEFINE flags == <<128 * h.qr, h.rcode>>
<1>1. flags \in Seq(Nat) /\ Len(flags) = 2
  <2>1. 128 * h.qr \in Nat
    OBVIOUS
  <2> QED
    BY <2>1
<1>2. PutHeader(h) = Put16(h.id) \o flags \o Put16(h.qdcount) \o Put16(h.ancount)
                     \o Put16(h.nscount) \o Put16(h.arcount)
  BY Zenon DEF PutHeader
<1> HIDE DEF flags
<1>3. \A n \in Nat : Put16(n) \in Seq(Nat) /\ Len(Put16(n)) = 2
  BY Put16Number, Zenon
<1>4. \A n \in {h.id, h.qdcount, h.ancount, h.nscount, h.arcount} :
         Put16(n) \in Seq(Nat) /\ Len(Put16(n)) = 2
  BY <1>3
<1> DEFINE id == Put16(h.id)
           qd == Put16(h.qdcount)
           an == Put16(h.ancount)
           ns == Put16(h.nscount)
           ar == Put16(h.arcount)
<1>5. /\ id \in Seq(Nat) /\ qd \in Seq(Nat) /\ an \in Seq(Nat) /\ ns \in Seq(Nat)
      /\ ar \in Seq(Nat)
      /\ Len(id) = 2 /\ Len(qd) = 2 /\ Len(an) = 2 /\ Len(ns) = 2 /\ Len(ar) = 2
  BY <1>4
<1> HIDE DEF id, qd, an, ns, ar
<1>6. LaidPairs(id \o flags \o qd \o an \o ns \o ar, qd, an, ns)
  BY <1>1, <1>5, PairsPlaced
<1> QED
  BY <1>2, <1>6, Zenon DEF id, qd, an, ns, ar

\* The counts of a packet that begins with a header.
LEMMA CountsRead ==
    ASSUME NEW h, h.ancount \in Nat, h.nscount \in Nat,
           NEW b \in Seq(Nat), Placed(b, 6, Put16(h.ancount)), Placed(b, 8, Put16(h.nscount)),
           NEW p \in Seq(Nat), Placed(p, 0, b)
    PROVE  Header(p).ancount = h.ancount /\ Header(p).nscount = h.nscount
<1>1. Put16(h.ancount) \in Seq(Nat) /\ Put16(h.nscount) \in Seq(Nat)
  BY Put16Number, Zenon
<1>2. 0 \in Nat /\ 6 \in Nat /\ 8 \in Nat /\ 0 + 6 = 6 /\ 0 + 8 = 8
  OBVIOUS
<1>3. Placed(p, 0 + 6, Put16(h.ancount)) /\ Placed(p, 0 + 8, Put16(h.nscount))
  BY <1>1, <1>2, PlacedInside, Zenon
<1>4. Placed(p, 6, Put16(h.ancount)) /\ Placed(p, 8, Put16(h.nscount))
  BY <1>2, <1>3, Zenon
<1>5. U16(p, 6) = h.ancount /\ U16(p, 8) = h.nscount
  BY <1>2, <1>4, Put16Read, Zenon
<1> QED
  BY <1>5 DEF Header

\* What the server gives are well-formed records.
GivenAnswers(a) ==
    \A records \in {a.an, a.ns, a.ar} :
       /\ records \in Seq(GivenRecord)
       /\ \A i \in 1 .. Len(records) : Len(records[i].data) \in Word /\ WireRecord(records[i])

\* The assumption says so.
LEMMA AnswersGiven ==
    ASSUME NEW a \in Answers
    PROVE  GivenAnswers(a)
<1>1. ASSUME NEW records \in {a.an, a.ns, a.ar}
      PROVE  /\ records \in Seq(GivenRecord)
             /\ \A i \in 1 .. Len(records) :
                   Len(records[i].data) \in Word /\ WireRecord(records[i])
  <2>1. /\ records \in Seq(GivenRecord)
        /\ \A i \in DOMAIN records : Len(records[i].data) \in Word /\ WireRecord(records[i])
    BY AnswersAssumption, Zenon DEF GivenRecord
  <2>2. DOMAIN records = 1 .. Len(records)
    BY <2>1, LenProperties, Zenon
  <2> QED
    BY <2>1, <2>2, Zenon
<1> QED
  BY <1>1, Zenon DEF GivenAnswers

\* Where the sections of the server's packet lie.
LEMMA SectionsOfPacket ==
    ASSUME NEW q \in Seq(Nat), Len(q) >= 12, NEW a \in Answers,
           NEW p, p = UpstreamPacket(q, a)
    PROVE  /\ p \in Seq(Nat)
           /\ Header(p).ancount = Len(a.an) /\ Header(p).nscount = Len(a.ns)
           /\ Placed(p, Len(q), Section(a.an))
           /\ Placed(p, Len(q) + Len(Section(a.an)), Section(a.ns))
           /\ Placed(p, Len(q) + Len(Section(a.an)), Section(a.ns) \o Section(a.ar))
           /\ Section(a.ns) \o Section(a.ar) \in Seq(Nat)
           /\ Len(p) = Len(q) + Len(Section(a.an)) + Len(Section(a.ns) \o Section(a.ar))
<1> DEFINE h == [Header(q) EXCEPT !.qr = 1, !.ancount = Len(a.an), !.nscount = Len(a.ns),
                                  !.arcount = Len(a.ar)]
           question == SubSeq(q, HeaderLen + 1, Len(q))
<1>1. p = PutHeader(h) \o question \o Section(a.an) \o Section(a.ns) \o Section(a.ar)
  BY Zenon DEF UpstreamPacket
<1>2. \A records \in {a.an, a.ns, a.ar} :
         Section(records) \in Seq(Nat) /\ Len(records) \in Nat
  BY AnswersGiven, SectionPlaced, Zenon DEF GivenAnswers
<1>3. Section(a.an) \in Seq(Nat) /\ Section(a.ns) \in Seq(Nat) /\ Section(a.ar) \in Seq(Nat)
  BY <1>2, Zenon
<1>4. /\ h.id \in Nat /\ h.qr \in Nat /\ h.rcode \in Nat /\ h.qdcount \in Nat
      /\ h.ancount = Len(a.an) /\ h.nscount = Len(a.ns)
      /\ h.ancount \in Nat /\ h.nscount \in Nat /\ h.arcount \in Nat
  <2>1. Len(a.an) \in Nat /\ Len(a.ns) \in Nat /\ Len(a.ar) \in Nat
    BY <1>2, Zenon
  <2>2. U16(q, 0) \in Nat /\ U8(q, 3) \in Nat /\ U16(q, 4) \in Nat
    <3>1. 0 \in Nat /\ 3 \in Nat /\ 4 \in Nat
      OBVIOUS
    <3> QED
      BY <3>1, OctetsOfPacket, OctetsAreNumbers, Zenon
  <2>3. U8(q, 3) % 16 \in Nat
    BY <2>2
  <2> QED
    BY <2>1, <2>2, <2>3 DEF Header
<1> HIDE DEF h
<1>5. question \in Seq(Nat) /\ Len(question) = Len(q) - 12
  <2>1. Len(q) \in Nat /\ 13 \in 1 .. Len(q) + 1 /\ Len(q) \in 13 - 1 .. Len(q)
    OBVIOUS
  <2>2. SubSeq(q, 13, Len(q)) \in Seq(Nat) /\ Len(SubSeq(q, 13, Len(q))) = Len(q) - 13 + 1
    BY <2>1, PlacedSubSeq
  <2>3. question = SubSeq(q, 13, Len(q))
    BY DEF HeaderLen
  <2> QED
    <3>1. Len(q) - 13 + 1 = Len(q) - 12
      BY <2>1
    <3> QED
      BY <2>2, <2>3, <3>1, Zenon
<1> HIDE DEF question
<1>6. /\ PutHeader(h) \in Seq(Nat) /\ Len(PutHeader(h)) = 12
      /\ Placed(PutHeader(h), 6, Put16(h.ancount)) /\ Placed(PutHeader(h), 8, Put16(h.nscount))
  BY <1>4, HeaderPut, Zenon DEF LaidPairs
<1>7. Len(q) \in Nat /\ Len(q) = Len(PutHeader(h)) + Len(question)
  BY <1>5, <1>6
<1>8. Sectioned(p, PutHeader(h), Len(q), Section(a.an), Section(a.ns), Section(a.ar))
  <2> DEFINE f == PutHeader(h)
             x == Section(a.an)
             y == Section(a.ns)
             z == Section(a.ar)
  <2>1. /\ f \in Seq(Nat) /\ x \in Seq(Nat) /\ y \in Seq(Nat) /\ z \in Seq(Nat)
        /\ question \in Seq(Nat) /\ Len(q) \in Nat /\ Len(q) = Len(f) + Len(question)
    BY <1>3, <1>5, <1>6, <1>7
  <2>2. p = f \o question \o x \o y \o z
    BY <1>1
  <2> HIDE DEF f, x, y, z
  <2>3. Sectioned(f \o question \o x \o y \o z, f, Len(q), x, y, z)
    BY <2>1, PacketOfParts, Zenon
  <2> QED
    BY <2>2, <2>3, Zenon DEF f, x, y, z
<1>9. Header(p).ancount = h.ancount /\ Header(p).nscount = h.nscount
  BY <1>4, <1>6, <1>8, CountsRead, Zenon DEF Sectioned
<1> QED
  BY <1>4, <1>8, <1>9, Zenon DEF Sectioned

-----------------------------------------------------------------------------
(***************************************************************************)
(* What dns_query makes of it.                                             *)
(***************************************************************************)
\* The records of two sections.
LEMMA BothSections ==
    ASSUME NEW an \in Seq(GivenRecord), NEW ns \in Seq(GivenRecord)
    PROVE  ToSet(an \o ns) = {an[i] : i \in 1 .. Len(an)} \cup {ns[i] : i \in 1 .. Len(ns)}
<1> DEFINE s == an \o ns
           m == Len(an)
           n == Len(ns)
<1>1. m \in Nat /\ n \in Nat
  BY LenProperties, Zenon
<1>2. /\ s \in Seq(GivenRecord) /\ Len(s) = m + n
      /\ \A i \in 1 .. m + n : s[i] = IF i <= m THEN an[i] ELSE ns[i - m]
  BY ConcatProperties, Zenon
<1>3. DOMAIN s = 1 .. m + n
  BY <1>2, LenProperties, Zenon
<1> HIDE DEF s, m, n
<1>4. \A i \in 1 .. m : i \in 1 .. m + n /\ s[i] = an[i]
  BY <1>1, <1>2
<1>5. \A i \in 1 .. n : m + i \in 1 .. m + n /\ s[m + i] = ns[i]
  <2>1. \A i \in 1 .. n : m + i \in 1 .. m + n /\ ~(m + i <= m) /\ (m + i) - m = i
    BY <1>1
  <2> QED
    BY <1>2, <2>1
<1>6. \A i \in 1 .. m + n : \/ i \in 1 .. m /\ s[i] = an[i]
                            \/ i - m \in 1 .. n /\ s[i] = ns[i - m]
  BY <1>1, <1>2
<1>7. {s[i] : i \in 1 .. m + n} = {an[i] : i \in 1 .. m} \cup {ns[i] : i \in 1 .. n}
  BY <1>4, <1>5, <1>6
<1> QED
  BY <1>3, <1>7, Zenon DEF ToSet, s, m, n

\* ttl is the least of ttls.
LeastIn(ttl, ttls) == ttl \in ttls /\ \A u \in ttls : ttl <= u

\* The least over the answers and, from there on, over the authority.
LEMMA LeastOfBoth ==
    ASSUME NEW an \in Seq(GivenRecord), NEW ns \in Seq(GivenRecord),
           NEW t \in Nat, LeastOf(t, MaxTtl, an, Len(an)),
           NEW ttl \in Nat, LeastOf(ttl, t, ns, Len(ns)),
           NEW ttls, ttls = {r.ttl : r \in ToSet(an \o ns)}, ttls # {}
    PROVE  LeastIn(ttl, ttls)
<1> DEFINE m == Len(an)
           n == Len(ns)
           S(i) == an[i].ttl
           T(i) == ns[i].ttl
           U == {S(i) : i \in 1 .. m} \cup {T(i) : i \in 1 .. n}
<1>1. ttls = U
  <2>1. ttls = {r.ttl : r \in {an[i] : i \in 1 .. m} \cup {ns[i] : i \in 1 .. n}}
    BY BothSections, Zenon
  <2> QED
    BY <2>1, Zenon
<1>2. /\ \A i \in 1 .. m : S(i) \in Nat /\ S(i) <= MaxTtl
      /\ \A i \in 1 .. n : T(i) \in Nat /\ T(i) <= MaxTtl
  <2>1. /\ \A i \in 1 .. m : an[i] \in GivenRecord
        /\ \A i \in 1 .. n : ns[i] \in GivenRecord
    BY ElementOfSeq, Zenon
  <2> QED
    BY <2>1, GivenTypes, Zenon
<1>3. /\ t = MaxTtl \/ \E j \in 1 .. m : t = S(j)
      /\ \A j \in 1 .. m : t <= S(j)
  BY Zenon DEF LeastOf
<1>4. /\ ttl = t \/ \E j \in 1 .. n : ttl = T(j)
      /\ ttl <= t
      /\ \A j \in 1 .. n : ttl <= T(j)
  BY Zenon DEF LeastOf
<1>5. MaxTtl \in Nat
  BY SMT DEF MaxTtl
<1> HIDE DEF S, T, m, n
<1>6. \A u \in U : u \in Nat /\ u <= MaxTtl
  BY <1>2, Zenon
<1>7. \A u \in U : ttl <= u
  <2>1. \A j \in 1 .. m : ttl <= S(j)
    BY <1>2, <1>3, <1>4
  <2> QED
    BY <1>4, <2>1, Zenon
<1>8. ttl \in U \/ ttl = MaxTtl
  BY <1>3, <1>4, Zenon
<1> HIDE DEF U
<1>9. U # {}
  BY <1>1
<1>10. ttl \in U
  <2>1. PICK u \in U : TRUE
    BY <1>9
  <2>2. ttl <= u /\ u <= MaxTtl /\ u \in Nat
    BY <1>6, <1>7
  <2>3. ttl = MaxTtl => ttl = u
    BY <1>5, <2>2
  <2> QED
    BY <1>8, <2>3
<1> QED
  BY <1>1, <1>7, <1>10, Zenon DEF LeastIn

\* The parts of a packet that an answer keeps, and for how long.
CutOf(answer, given) ==
    /\ answer.answer_buf = Section(given.an)
    /\ answer.authority_buf = Section(given.ns) \o Section(given.ar)

TtlOf(answer, given) ==
    LET ttls == {r.ttl : r \in ToSet(given.an \o given.ns)}
    IN  /\ ttls # {}
        /\ Len(given.ns) <= 1 \/ \A r \in ToSet(given.ns) : r.type = SOA
        => answer.ttl \in ttls /\ \A t \in ttls : answer.ttl <= t

\* dns_query cuts the packet where its sections are.
LEMMA AnswerRead ==
    ASSUME NEW q \in Seq(Nat), Len(q) >= 12, NEW a \in Answers,
           NEW answer, answer = ReadAnswer(UpstreamPacket(q, a), Len(q)), answer.ok
    PROVE  CutOf(answer, a) /\ TtlOf(answer, a)
<1> DEFINE p == UpstreamPacket(q, a)
           start == [offset |-> Len(q), ttl |-> MaxTtl, ok |-> TRUE]
           an == ReadAnswers(p, start, Len(a.an))
           ns == ReadAuthority(p, an, Len(a.ns))
           x == Section(a.an)
           y == Section(a.ns) \o Section(a.ar)
<1>1. /\ p \in Seq(Nat)
      /\ Header(p).ancount = Len(a.an) /\ Header(p).nscount = Len(a.ns)
      /\ Placed(p, Len(q), x)
      /\ Placed(p, Len(q) + Len(x), Section(a.ns))
      /\ Placed(p, Len(q) + Len(x), y)
      /\ y \in Seq(Nat) /\ Len(p) = Len(q) + Len(x) + Len(y)
  BY SectionsOfPacket, Zenon
<1> HIDE DEF p
<1>2. /\ answer.ok = an.ok
      /\ answer.answer_buf = Octets(p, Len(q), an.offset)
      /\ answer.authority_buf = Octets(p, an.offset, Len(p))
      /\ answer.ttl = IF an.ok THEN ns.ttl ELSE 0
  BY <1>1, Zenon DEF ReadAnswer, p
<1>3. Len(q) \in Nat /\ MaxTtl \in Nat
  BY SMT, LenProperties DEF MaxTtl
<1>4. /\ a.an \in Seq(GivenRecord) /\ \A i \in 1 .. Len(a.an) : WireRecord(a.an[i])
      /\ a.ns \in Seq(GivenRecord) /\ \A i \in 1 .. Len(a.ns) : WireRecord(a.ns[i])
  BY AnswersGiven, Zenon DEF GivenAnswers
<1>5. x \in Seq(Nat) /\ Len(x) \in Nat
  BY <1>4, SectionPlaced, Zenon
<1>6. /\ an \in Progress
      /\ an.ok => an.offset = Len(q) + Len(x) /\ LeastOf(an.ttl, MaxTtl, a.an, Len(a.an))
  BY <1>1, <1>3, <1>4, AnswersRead, ZenonT(60)
<1> HIDE DEF an
<1>7. an.ok /\ an.offset = Len(q) + Len(x) /\ LeastOf(an.ttl, MaxTtl, a.an, Len(a.an))
  BY <1>2, <1>6, Zenon
<1>8. an.offset \in Nat /\ an.ttl \in Nat
  BY <1>6 DEF Progress
<1>9. Octets(p, Len(q), Len(q) + Len(x)) = x
  BY <1>1, <1>3, <1>5, CutOut, Zenon
<1>10. Octets(p, an.offset, an.offset + Len(y)) = y
  BY <1>1, <1>7, <1>8, CutOut, Zenon
<1>11. CutOf(answer, a)
  BY <1>1, <1>2, <1>7, <1>9, <1>10, Zenon DEF CutOf
<1>12. ASSUME NEW ttls, ttls = {r.ttl : r \in ToSet(a.an \o a.ns)}, ttls # {},
              Len(a.ns) <= 1 \/ \A r \in ToSet(a.ns) : r.type = SOA
       PROVE  answer.ttl \in ttls /\ \A t \in ttls : answer.ttl <= t
  <2>1. Len(a.ns) <= 1 \/ \A i \in 1 .. Len(a.ns) : a.ns[i].type = SOA
    <3>1. DOMAIN a.ns = 1 .. Len(a.ns)
      BY <1>4, LenProperties, Zenon
    <3> QED
      BY <1>12, <3>1, Zenon DEF ToSet
  <2>2. Placed(p, an.offset, Section(a.ns))
    BY <1>1, <1>7, Zenon
  <2>3. ns \in Progress /\ LeastOf(ns.ttl, an.ttl, a.ns, Len(a.ns))
    BY <1>1, <1>4, <1>6, <2>1, <2>2, AuthorityRead, Zenon
  <2>4. answer.ttl = ns.ttl
    BY <1>2, <1>7, Zenon
  <2> HIDE DEF ns
  <2>5. ns.ttl \in Nat
    BY <2>3 DEF Progress
  <2>6. LeastIn(ns.ttl, ttls)
    BY <1>4, <1>7, <1>8, <1>12, <2>3, <2>5, LeastOfBoth, Zenon
  <2> QED
    BY <2>4, <2>6, Zenon DEF LeastIn
<1>13. TtlOf(answer, a)
  BY <1>12, Zenon DEF TtlOf
<1> QED
  BY <1>11, <1>13

-----------------------------------------------------------------------------
(***************************************************************************)
(* What each answer keeps.                                                 *)
(***************************************************************************)
\* dns_query_buf_new: the query has a header.
LEMMA QueryWritten ==
    ASSUME NEW q \in Asking, NEW id \in Nat
    PROVE  QueryBuf(q, id) \in Seq(Nat) /\ Len(QueryBuf(q, id)) >= 12
<1> DEFINE h == [id |-> id, qr |-> 0, rcode |-> 0, qdcount |-> 1, ancount |-> 0,
                 nscount |-> 0, arcount |-> 0]
           front == PutHeader(h)
           name == ToQname(q.qname)
           type == Put16(q.qtype)
           class == Put16(q.qclass)
<1>1. /\ h.id \in Nat /\ h.qr \in Nat /\ h.rcode \in Nat /\ h.qdcount \in Nat
      /\ h.ancount \in Nat /\ h.nscount \in Nat /\ h.arcount \in Nat
  OBVIOUS
<1>2. QueryBuf(q, id) = front \o name \o type \o class
  BY Zenon DEF QueryBuf
<1> HIDE DEF h
<1>3. front \in Seq(Nat) /\ Len(front) = 12
  BY <1>1, HeaderPut, Zenon DEF LaidPairs
<1>4. q.qname \in Seq(Octet) /\ q.qtype \in Nat /\ q.qclass \in Nat
  BY DEF Asking
<1>5. name \in Seq(Nat) /\ type \in Seq(Nat) /\ class \in Seq(Nat)
  BY <1>4, QnameTyped, Put16Number, Zenon
<1> HIDE DEF front, name, type, class
<1> DEFINE s == front \o name
           t == s \o type
<1>6. s \in Seq(Nat) /\ Len(s) = Len(front) + Len(name) /\ Len(name) \in Nat
  BY <1>3, <1>5, PlacedConcat, Zenon
<1> HIDE DEF s
<1>7. t \in Seq(Nat) /\ Len(t) = Len(s) + Len(type) /\ Len(type) \in Nat
  BY <1>5, <1>6, PlacedConcat, Zenon
<1> HIDE DEF t
<1>8. /\ t \o class \in Seq(Nat) /\ Len(t \o class) = Len(t) + Len(class)
      /\ Len(class) \in Nat
  BY <1>5, <1>7, PlacedConcat, Zenon
<1>9. Len(t) + Len(class) >= 12
  BY <1>3, <1>6, <1>7, <1>8
<1>10. QueryBuf(q, id) = t \o class
  BY <1>2, Zenon DEF t, s
<1> QED
  BY <1>8, <1>9, <1>10, Zenon

\* What each answer keeps of the packet it came with.
Kept(answer, source) ==
    source # NULL => CutOf(answer, source.given) /\ TtlOf(answer, source.given)

SectionsKept ==
    /\ pc = "recv" => query \in Seq(Nat) /\ Len(query) >= 12
    /\ \A i \in 1 .. Len(answers) : Kept(answers[i], sources[i])

\* At first there are no answers.
LEMMA InitKeeps == Init => SectionsKept
<1>1. Len(<<>>) = 0 /\ 1 .. 0 = {}
  OBVIOUS
<1> QED
  BY <1>1 DEF Init, SectionsKept

\* Where no answer is appended nothing is kept or lost.
LEMMA LeavingKeeps ==
    ASSUME SectionsKept, UNCHANGED <<answers, sources>>, pc' # "recv"
    PROVE  SectionsKept'
BY DEF SectionsKept, Kept, CutOf, TtlOf

\* An answer that keeps its parts is appended.
LEMMA CollectKeeps ==
    ASSUME RulesFollowed, SectionsKept, NEW answer, NEW source, Collect(answer, source),
           Kept(answer, source)
    PROVE  SectionsKept'
<1> DEFINE n == Len(answers)
<1>1. /\ answers' = Append(answers, answer) /\ sources' = Append(sources, source)
      /\ pc' # "recv"
  BY DEF Collect, Goto
<1>2. IsSequence(answers) /\ IsSequence(sources) /\ Len(sources) = n
  BY DEF RulesFollowed
<1>3. /\ Len(answers') = n + 1 /\ n \in Nat
      /\ \A i \in 1 .. n : answers'[i] = answers[i]
      /\ answers'[n + 1] = answer
  BY <1>1, <1>2, AppendAnything
<1>4. /\ \A i \in 1 .. n : sources'[i] = sources[i]
      /\ sources'[n + 1] = source
  BY <1>1, <1>2, AppendAnything
<1>5. \A i \in 1 .. n : Kept(answers[i], sources[i])
  BY DEF SectionsKept
<1> HIDE DEF n
<1>6. ASSUME NEW i \in 1 .. n + 1 PROVE Kept(answers'[i], sources'[i])
  <2>1. CASE i = n + 1
    BY <1>3, <1>4, <2>1, Zenon
  <2>2. CASE i # n + 1
    <3>1. i \in 1 .. n
      BY <1>3, <2>2
    <3> QED
      BY <1>3, <1>4, <1>5, <3>1, Zenon
  <2> QED
    BY <2>1, <2>2
<1>7. \A i \in 1 .. Len(answers') : Kept(answers'[i], sources'[i])
  BY <1>3, <1>6, Zenon
<1> QED
  BY <1>1, <1>7, Zenon DEF SectionsKept, Kept, CutOf, TtlOf

\* Ask writes a query with a header.
LEMMA AskKeeps ==
    ASSUME RulesFollowed, SectionsKept, Ask
    PROVE  SectionsKept'
<1>1. pc = "resolve" /\ query' = QueryBuf(Current, 258) /\ UNCHANGED <<answers, sources>>
  BY DEF Ask, Resolving
<1>2. Len(answers) < Len(questions)
  BY <1>1 DEF RulesFollowed
<1>3. Current \in Asking /\ 258 \in Nat
  BY <1>2, CurrentRule
<1>4. query' \in Seq(Nat) /\ Len(query') >= 12
  BY <1>1, <1>3, QueryWritten, Zenon
<1> QED
  BY <1>1, <1>4 DEF SectionsKept, Kept, CutOf, TtlOf

\* Receive reads the packet.
LEMMA ReceiveKeeps ==
    ASSUME RulesFollowed, SectionsKept, NEW a \in Answers, Receive(a)
    PROVE  SectionsKept'
<1> DEFINE answer == ReadAnswer(UpstreamPacket(query, a), Len(query))
           source == [query |-> query, given |-> a]
<1>1. /\ pc = "recv"
      /\ \/ answer.ok /\ Collect(answer, source)
         \/ pc' \in {"fail", "done"} /\ UNCHANGED <<answers, sources>>
  BY DEF Receive, Goto
<1>2. source.given = a
  OBVIOUS
<1>3. query \in Seq(Nat) /\ Len(query) >= 12
  BY <1>1 DEF SectionsKept
<1> HIDE DEF source
<1>4. CASE answer.ok /\ Collect(answer, source)
  <2>1. CutOf(answer, a) /\ TtlOf(answer, a)
    BY <1>3, <1>4, AnswerRead, Zenon
  <2> HIDE DEF answer
  <2>2. Kept(answer, source)
    BY <1>2, <2>1, Zenon DEF Kept
  <2> QED
    BY <1>4, <2>2, CollectKeeps, Zenon
<1>5. CASE pc' \in {"fail", "done"} /\ UNCHANGED <<answers, sources>>
  BY <1>5, LeavingKeeps
<1> QED
  BY <1>1, <1>4, <1>5

\* The steps, one by one.
LEMMA NextKeeps == RulesFollowed /\ SectionsKept /\ [Next]_vars => SectionsKept'
<1> SUFFICES ASSUME RulesFollowed, SectionsKept, [Next]_vars PROVE SectionsKept'
  OBVIOUS
<1>1. CASE ParseResponse \/ ParseRequest \/ Refuse \/ SearchOutside \/ GiveUp
           \/ ReplyFailure \/ ReplyAnswers
  <2>1. pc' # "recv" /\ UNCHANGED <<answers, sources>>
    BY <1>1 DEF ParseResponse, ParseRequest, Refuse, SearchOutside, GiveUp, ReplyFailure,
                ReplyAnswers, Goto
  <2> QED
    BY <2>1, LeavingKeeps
<1>2. CASE AnswerByRule
  <2>1. PICK answer : Collect(answer, NULL)
    BY <1>2, Zenon DEF AnswerByRule
  <2>2. Kept(answer, NULL)
    BY Zenon DEF Kept
  <2> QED
    BY <2>1, <2>2, CollectKeeps, Zenon
<1>3. CASE Ask
  BY <1>3, AskKeeps
<1>4. ASSUME NEW a \in Answers, Receive(a) PROVE SectionsKept'
  BY <1>4, ReceiveKeeps
<1>5. CASE UNCHANGED vars
  BY <1>5 DEF vars, SectionsKept, Kept, CutOf, TtlOf
<1> QED
  BY <1>1, <1>2, <1>3, <1>4, <1>5, Zenon DEF Next

\* What is kept of each answer.
LEMMA KeptAll ==
    ASSUME RulesFollowed, SectionsKept, NEW i \in DOMAIN answers, sources[i] # NULL
    PROVE  CutOf(answers[i], sources[i].given) /\ TtlOf(answers[i], sources[i].given)
<1>1. i \in 1 .. Len(answers)
  BY AppendAnything DEF RulesFollowed
<1> QED
  BY <1>1, Zenon DEF SectionsKept, Kept

\* dns_query: where the server's packet is cut into answers and the rest is found from the
\* names and the types of its records alone, and it is where the answers end, for any
\* well-formed packet, of however many records and however its names are compressed.
THEOREM SectionsCut == Spec => []SectionsAreCut
<1>1. RulesFollowed /\ SectionsKept => SectionsAreCut
  BY KeptAll, Zenon DEF SectionsAreCut, CutOf
<1> QED
  BY <1>1, InitFollows, NextFollows, InitKeeps, NextKeeps, PTL DEF Spec

\* dns_query: the time to live that goes to the cache is the least of those of the records
\* of the answers and of the authority, as long as the authority is read from the right
\* places.
THEOREM LeastTtl == Spec => []TtlIsLeast
<1>1. RulesFollowed /\ SectionsKept => TtlIsLeast
  BY KeptAll, Zenon DEF TtlIsLeast, TtlOf
<1> QED
  BY <1>1, InitFollows, NextFollows, InitKeeps, NextKeeps, PTL DEF Spec
=============================================================================
