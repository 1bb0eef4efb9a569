------------------------- MODULE PacketsQueryProofs -------------------------
(***************************************************************************)
(* The question that dns_query_buf_new writes is the one the client asked, *)
(* for any datagram: whatever its names are and however they are           *)
(* compressed, names that contain themselves included.  Then the types of  *)
(* all that a request keeps, and that nothing a request does is undefined  *)
(* unless an oddity of a packet asks for it.                               *)
(***************************************************************************)
EXTENDS PacketsSectionsProofs

-----------------------------------------------------------------------------
(***************************************************************************)
(* How names and questions are read for reference, step by step.           *)
(***************************************************************************)
\* Names are sequences of labels.
Labels == Seq(Seq(Nat))

\* Instead of a label there is the offset of the rest of a name.
Compressed(p, k) == U8(p, k) >= 192
Elsewhere(p, k) == U16(p, k) - 49152

\* One step back in the recursion of Name, and in that of PastName.
NameLeft(p, rest, left, k) ==
    IF U8(p, k) = 0 \/ left = 0 THEN <<>>
    ELSE IF Compressed(p, k) THEN rest[Elsewhere(p, k)]
    ELSE <<ToUpper(Octets(p, k + 1, k + U8(p, k) + 1))>> \o rest[k + U8(p, k) + 1]

PastLeft(p, rest, left, k) ==
    IF U8(p, k) = 0 \/ left = 0 THEN k + 1
    ELSE IF Compressed(p, k) THEN k + 2 ELSE rest[k + U8(p, k) + 1]

\* str_toupper, character by character.
Up(c) == IF c \in 97 .. 122 THEN c - 32 ELSE c

LEMMA UpperPlaces ==
    ASSUME NEW name \in Seq(Nat)
    PROVE  /\ ToUpper(name) \in Seq(Nat) /\ Len(ToUpper(name)) = Len(name)
           /\ \A i \in 1 .. Len(name) : ToUpper(name)[i] = Up(name[i])
<1> DEFINE u == [i \in 1 .. Len(name) |-> Up(name[i])]
<1>1. Len(name) \in Nat /\ DOMAIN name = 1 .. Len(name)
  OBVIOUS
<1>2. u = ToUpper(name)
  BY <1>1 DEF ToUpper, Up
<1>3. \A i \in 1 .. Len(name) : u[i] = Up(name[i]) /\ u[i] \in Nat
  <2>1. \A i \in 1 .. Len(name) : name[i] \in Nat
    OBVIOUS
  <2>2. \A c \in Nat : Up(c) \in Nat
    BY DEF Up
  <2> QED
    BY <2>1, <2>2
<1>4. u = [i \in 1 .. Len(name) |-> u[i]]
  OBVIOUS
<1> HIDE DEF u
<1>5. u \in Seq(Nat) /\ Len(u) = Len(name)
  BY <1>1, <1>3, <1>4, AnySequence, Zenon
<1> QED
  BY <1>2, <1>3, <1>5, Zenon

\* A compressed name has its offset in 14 of 16 bits.
LEMMA OffsetOfPair ==
    ASSUME NEW p \in Seq(Nat), NEW k \in Nat
    PROVE  U8(p, k) \in Nat /\ (Compressed(p, k) => Elsewhere(p, k) \in Nat)
<1> DEFINE high == U8(p, k)
           low == U8(p, k + 1)
<1>1. k + 1 \in Nat
  OBVIOUS
<1>2. high \in Nat /\ low \in Nat
  BY <1>1, OctetsOfPacket, OctetsAreNumbers, Zenon
<1>3. /\ Compressed(p, k) <=> high >= 192
      /\ Elsewhere(p, k) = (256 * high + low) - 49152
  BY SMT DEF U16, Compressed, Elsewhere
<1> HIDE DEF high, low
<1>4. high >= 192 => (256 * high + low) - 49152 \in Nat
  BY <1>2
<1>5. high \in Nat /\ (Compressed(p, k) => Elsewhere(p, k) \in Nat)
  BY <1>2, <1>3, <1>4, SMT
<1> QED
  BY <1>5, Zenon DEF high

\* Of octets that offset is the one that dns_parse_qname goes by.
LEMMA OffsetOfOctets ==
    ASSUME NEW p \in Seq(Octet), NEW k \in Nat, Compressed(p, k)
    PROVE  U16(p, k) % 16384 = Elsewhere(p, k)
<1> DEFINE high == U8(p, k)
           low == U8(p, k + 1)
<1>1. k + 1 \in Nat
  OBVIOUS
<1>2. high \in Octet /\ low \in Octet
  BY <1>1, OctetsOfPacket, OctetsAreNumbers, Zenon
<1>3. U16(p, k) = 256 * high + low /\ high >= 192 /\ Elsewhere(p, k) = U16(p, k) - 49152
  BY SMT DEF U16, Compressed, Elsewhere
<1> HIDE DEF high, low
<1>4. ASSUME NEW h \in 192 .. 255, NEW l \in 0 .. 255
      PROVE  (256 * h + l) % 16384 = (256 * h + l) - 49152
  OBVIOUS
<1>5. high \in 192 .. 255 /\ low \in 0 .. 255
  BY <1>2, <1>3 DEF Octet
<1> QED
  BY <1>3, <1>4, <1>5

LEMMA NameLeftTyped ==
    ASSUME NEW p \in Seq(Nat), NEW rest \in [Nat -> Labels], NEW left \in Nat, NEW k \in Nat
    PROVE  NameLeft(p, rest, left, k) \in Labels
<1> DEFINE n == U8(p, k)
           label == ToUpper(Octets(p, k + 1, k + n + 1))
           next == k + n + 1
<1>1. n \in Nat /\ (Compressed(p, k) => Elsewhere(p, k) \in Nat)
  BY OffsetOfPair, Zenon
<1>2. NameLeft(p, rest, left, k) =
         IF n = 0 \/ left = 0 THEN <<>>
         ELSE IF Compressed(p, k) THEN rest[Elsewhere(p, k)] ELSE <<label>> \o rest[next]
  BY Zenon DEF NameLeft
<1>3. label \in Seq(Nat)
  <2>1. k + 1 \in Nat /\ k + n + 1 = (k + 1) + n
    BY <1>1
  <2>2. Octets(p, k + 1, (k + 1) + n) \in Seq(Nat)
    BY <1>1, <2>1, OctetsOfPacket, OctetsAreNumbers, Zenon
  <2>3. Octets(p, k + 1, k + n + 1) \in Seq(Nat)
    BY <2>1, <2>2
  <2> QED
    BY <2>3, UpperPlaces, Zenon
<1>4. next \in Nat
  BY <1>1
<1> HIDE DEF n, label, next
<1>5. <<>> \in Labels /\ <<label>> \in Labels
  BY <1>3 DEF Labels
<1>6. Compressed(p, k) => rest[Elsewhere(p, k)] \in Labels
  BY <1>1
<1>7. <<label>> \o rest[next] \in Labels
  <2>1. rest[next] \in Labels
    BY <1>4
  <2> QED
    BY <1>5, <2>1 DEF Labels
<1> QED
  BY <1>2, <1>5, <1>6, <1>7, Zenon

\* Where names that begin at each offset end.
Ends == [Nat -> Nat]

LEMMA PastLeftTyped ==
    ASSUME NEW p \in Seq(Nat), NEW rest \in Ends, NEW left \in Nat, NEW k \in Nat
    PROVE  PastLeft(p, rest, left, k) \in Nat
<1> DEFINE n == U8(p, k)
<1>1. n \in Nat
  BY OffsetOfPair, Zenon
<1>2. PastLeft(p, rest, left, k) =
         IF n = 0 \/ left = 0 THEN k + 1
         ELSE IF Compressed(p, k) THEN k + 2 ELSE rest[k + n + 1]
  BY Zenon DEF PastLeft
<1> HIDE DEF n
<1>3. rest[k + n + 1] \in Nat
  <2>1. k + n + 1 \in Nat
    BY <1>1
  <2> QED
    BY <2>1 DEF Ends
<1> QED
  BY <1>2, <1>3

\* Name, step by step.
LEMMA NameUnrolls ==
    ASSUME NEW p \in Seq(Nat)
    PROVE  \E name : /\ \A left \in 0 .. Len(p) :
                         /\ name[left] \in [Nat -> Labels]
                         /\ \A k \in Nat : name[left][k] = NameLeft(p, name[left - 1], left, k)
                  /\ \A at \in Nat : Name(p, at) = name[Len(p)][at]
<1> DEFINE
      name[left \in 0 .. Len(p)] == [k \in Nat |-> NameLeft(p, name[left - 1], left, k)]
      Rec(g) == [left \in 0 .. Len(p) |-> [k \in Nat |-> NameLeft(p, g[left - 1], left, k)]]
      start == [k \in Nat |-> <<>>]
      step == [f \in (1 .. Len(p)) \X [Nat -> Labels] |->
                  [k \in Nat |-> NameLeft(p, f[2], f[1], k)]]
<1>1. ASSUME NEW at \in Nat PROVE Name(p, at) = name[Len(p)][at]
  BY DEF Name, NameLeft, Compressed, Elsewhere
<1>2. start \in [Nat -> Labels]
  BY DEF Labels
<1>3. step \in [(1 .. Len(p)) \X [Nat -> Labels] -> [Nat -> Labels]]
  <2>1. ASSUME NEW f \in (1 .. Len(p)) \X [Nat -> Labels], NEW k \in Nat
        PROVE  NameLeft(p, f[2], f[1], k) \in Labels
    <3>1. f[2] \in [Nat -> Labels] /\ f[1] \in Nat
      OBVIOUS
    <3> QED
      BY <3>1, NameLeftTyped
  <2> QED
    BY <2>1
<1>4. Len(p) \in Nat
  OBVIOUS
<1>5. PICK f \in [0 .. Len(p) -> [Nat -> Labels]] : Unrolls(f, start, step, Len(p))
  <2> HIDE DEF start, step
  <2> QED
    BY <1>2, <1>3, <1>4, Recursion
<1>6. \A g, k : NameLeft(p, g, 0, k) = <<>>
  BY DEF NameLeft
<1>7. ASSUME NEW left \in 0 .. Len(p)
      PROVE  f[left] = [k \in Nat |-> NameLeft(p, f[left - 1], left, k)]
  <2>1. CASE left = 0
    <3>1. f[left] = start
      BY <1>5, <2>1 DEF Unrolls
    <3> QED
      BY <1>6, <2>1, <3>1
  <2>2. CASE left # 0
    <3>1. left \in 1 .. Len(p) /\ left - 1 \in 0 .. Len(p)
      BY <1>4, <2>2
    <3>2. f[left - 1] \in [Nat -> Labels]
      BY <3>1
    <3>3. f[left] = step[<<left, f[left - 1]>>]
      BY <1>5, <3>1 DEF Unrolls
    <3>4. <<left, f[left - 1]>> \in (1 .. Len(p)) \X [Nat -> Labels]
      BY <3>1, <3>2
    <3> QED
      BY <3>3, <3>4
  <2> QED
    BY <2>1, <2>2
<1>8. f = Rec(f)
  BY <1>7
<1>9. name = Rec(name)
  <2>1. name = CHOOSE g : g = Rec(g)
    OBVIOUS
  <2> HIDE DEF name, Rec
  <2> QED
    BY <1>8, <2>1
<1> HIDE DEF name
<1>10. \A left \in 0 .. Len(p) :
          name[left] = [k \in Nat |-> NameLeft(p, name[left - 1], left, k)]
  BY <1>9
<1> DEFINE T == {left \in 0 .. Len(p) : name[left] \in [Nat -> Labels]}
<1>11. 0 \in T
  <2>1. 0 \in 0 .. Len(p)
    BY <1>4
  <2>2. name[0] = start
    BY <1>6, <1>10, <2>1
  <2> QED
    BY <1>2, <2>1, <2>2
<1>12. ASSUME NEW n \in 1 .. Len(p), n - 1 \in T PROVE n \in T
  <2>1. n \in 0 .. Len(p) /\ n \in Nat /\ name[n - 1] \in [Nat -> Labels]
    BY <1>4, <1>12
  <2>2. \A k \in Nat : NameLeft(p, name[n - 1], n, k) \in Labels
    BY <2>1, NameLeftTyped
  <2>3. name[n] = [k \in Nat |-> NameLeft(p, name[n - 1], n, k)]
    BY <1>10, <2>1
  <2>4. name[n] \in [Nat -> Labels]
    BY <2>2, <2>3
  <2> QED
    BY <2>1, <2>4
<1> HIDE DEF T
<1>13. 0 .. Len(p) \subseteq T
  BY <1>4, <1>11, <1>12, UpTo
<1>14. \A left \in 0 .. Len(p) : name[left] \in [Nat -> Labels]
  BY <1>13 DEF T
<1>15. \A left \in 0 .. Len(p) : \A k \in Nat :
          name[left][k] = NameLeft(p, name[left - 1], left, k)
  BY <1>10
<1> QED
  BY <1>1, <1>14, <1>15

\* PastName, step by step.
LEMMA PastUnrolls ==
    ASSUME NEW p \in Seq(Nat)
    PROVE  \E past : /\ \A left \in 0 .. Len(p) :
                         /\ past[left] \in Ends
                         /\ \A k \in Nat : past[left][k] = PastLeft(p, past[left - 1], left, k)
                  /\ \A at \in Nat : PastName(p, at) = past[Len(p)][at]
<1> DEFINE
      past[left \in 0 .. Len(p)] == [k \in Nat |-> PastLeft(p, past[left - 1], left, k)]
      Rec(g) == [left \in 0 .. Len(p) |-> [k \in Nat |-> PastLeft(p, g[left - 1], left, k)]]
      start == [k \in Nat |-> k + 1]
      step == [f \in (1 .. Len(p)) \X Ends |->
                  [k \in Nat |-> PastLeft(p, f[2], f[1], k)]]
<1>1. ASSUME NEW at \in Nat PROVE PastName(p, at) = past[Len(p)][at]
  BY DEF PastName, PastLeft, Compressed
<1>2. start \in Ends
  BY DEF Ends
<1>3. step \in [(1 .. Len(p)) \X Ends -> Ends]
  <2>1. ASSUME NEW f \in (1 .. Len(p)) \X Ends, NEW k \in Nat
        PROVE  PastLeft(p, f[2], f[1], k) \in Nat
    <3>1. f[2] \in Ends /\ f[1] \in Nat
      OBVIOUS
    <3> QED
      BY <3>1, PastLeftTyped
  <2>2. ASSUME NEW f \in (1 .. Len(p)) \X Ends
        PROVE  [k \in Nat |-> PastLeft(p, f[2], f[1], k)] \in Ends
    BY <2>1 DEF Ends
  <2> QED
    BY <2>2
<1>4. Len(p) \in Nat
  OBVIOUS
<1>5. PICK f \in [0 .. Len(p) -> Ends] : Unrolls(f, start, step, Len(p))
  <2> HIDE DEF start, step
  <2> QED
    BY <1>2, <1>3, <1>4, Recursion
<1>6. \A g, k : PastLeft(p, g, 0, k) = k + 1
  BY DEF PastLeft
<1>7. ASSUME NEW left \in 0 .. Len(p)
      PROVE  f[left] = [k \in Nat |-> PastLeft(p, f[left - 1], left, k)]
  <2>1. CASE left = 0
    <3>1. f[left] = start
      BY <1>5, <2>1 DEF Unrolls
    <3> QED
      BY <1>6, <2>1, <3>1
  <2>2. CASE left # 0
    <3>1. left \in 1 .. Len(p) /\ left - 1 \in 0 .. Len(p)
      BY <1>4, <2>2
    <3>2. f[left - 1] \in Ends
      BY <3>1
    <3>3. f[left] = step[<<left, f[left - 1]>>]
      BY <1>5, <3>1 DEF Unrolls
    <3>4. <<left, f[left - 1]>> \in (1 .. Len(p)) \X Ends
      BY <3>1, <3>2
    <3> QED
      BY <3>3, <3>4
  <2> QED
    BY <2>1, <2>2
<1>8. f = Rec(f)
  BY <1>7
<1>9. past = Rec(past)
  <2>1. past = CHOOSE g : g = Rec(g)
    OBVIOUS
  <2> HIDE DEF past, Rec
  <2> QED
    BY <1>8, <2>1
<1> HIDE DEF past
<1>10. \A left \in 0 .. Len(p) :
          past[left] = [k \in Nat |-> PastLeft(p, past[left - 1], left, k)]
  BY <1>9
<1> DEFINE T == {left \in 0 .. Len(p) : past[left] \in Ends}
<1>11. 0 \in T
  <2>1. 0 \in 0 .. Len(p)
    BY <1>4
  <2>2. past[0] = start
    BY <1>6, <1>10, <2>1
  <2> QED
    BY <1>2, <2>1, <2>2
<1>12. ASSUME NEW n \in 1 .. Len(p), n - 1 \in T PROVE n \in T
  <2>1. n \in 0 .. Len(p) /\ n \in Nat /\ past[n - 1] \in Ends
    BY <1>4, <1>12
  <2>2. \A k \in Nat : PastLeft(p, past[n - 1], n, k) \in Nat
    BY <2>1, PastLeftTyped
  <2>3. past[n] = [k \in Nat |-> PastLeft(p, past[n - 1], n, k)]
    BY <1>10, <2>1
  <2>4. past[n] \in Ends
    BY <2>2, <2>3 DEF Ends
  <2> QED
    BY <2>1, <2>4
<1> HIDE DEF T
<1>13. 0 .. Len(p) \subseteq T
  BY <1>4, <1>11, <1>12, UpTo
<1>14. \A left \in 0 .. Len(p) : past[left] \in Ends
  BY <1>13 DEF T
<1>15. \A left \in 0 .. Len(p) : \A k \in Nat :
          past[left][k] = PastLeft(p, past[left - 1], left, k)
  BY <1>10
<1> QED
  BY <1>1, <1>14, <1>15

\* dns_parse_qname, label by label, from a packet of numbers.
ParsesNumbers(p, parse) ==
    /\ ParsesNames(Nat, p, parse)
    /\ \A k \in Nat : ParseQname(p, k) =
                          [parse[Len(p)][k] EXCEPT !.name = SubSeq(@, 1, Len(@) - 1)]

LEMMA NumbersUnroll ==
    ASSUME NEW p \in Seq(Nat)
    PROVE  \E parse : ParsesNumbers(p, parse)
BY NamesUnroll, OctetsAreNumbers, Zenon DEF ParsesNumbers

\* dns_parse_qname goes on where the name ends.
LEMMA SameEnd ==
    ASSUME NEW p \in Seq(Nat), NEW at \in Nat
    PROVE  ParseQname(p, at).next = PastName(p, at)
<1>1. PICK parse : /\ ParsesNames(Nat, p, parse)
                   /\ \A k \in Nat :
                         ParseQname(p, k) =
                             [parse[Len(p)][k] EXCEPT !.name = SubSeq(@, 1, Len(@) - 1)]
  BY NamesUnroll, OctetsAreNumbers, Zenon
<1>2. PICK past : /\ \A left \in 0 .. Len(p) :
                         /\ past[left] \in Ends
                         /\ \A k \in Nat : past[left][k] = PastLeft(p, past[left - 1], left, k)
                  /\ \A k \in Nat : PastName(p, k) = past[Len(p)][k]
  BY PastUnrolls, Zenon
<1>3. Len(p) \in Nat
  OBVIOUS
<1> DEFINE Same(left) == \A k \in Nat : parse[left][k].next = past[left][k]
           T == {left \in 0 .. Len(p) : Same(left)}
<1>4. ASSUME NEW left \in 0 .. Len(p), left # 0 => Same(left - 1), NEW k \in Nat
      PROVE  parse[left][k].next = past[left][k]
  <2> DEFINE n == U8(p, k)
             r == parse[left - 1][k + n + 1]
  <2>1. /\ parse[left][k] = LabelsLeft(p, parse[left - 1], left, k)
        /\ past[left][k] = PastLeft(p, past[left - 1], left, k)
    BY <1>1, <1>2, Zenon DEF ParsesNames
  <2>2. n \in Nat
    BY OffsetOfPair, Zenon
  <2>3. CASE n = 0 \/ left = 0
    BY <2>1, <2>3 DEF LabelsLeft, PastLeft
  <2>4. CASE ~(n = 0 \/ left = 0) /\ n >= 192
    BY <2>1, <2>4 DEF LabelsLeft, PastLeft, Compressed
  <2>5. CASE ~(n = 0 \/ left = 0) /\ ~(n >= 192)
    <3>1. left - 1 \in 0 .. Len(p) /\ k + n + 1 \in Nat
      BY <1>3, <2>2, <2>5
    <3>2. r \in Parsed(Nat) /\ r.next = past[left - 1][k + n + 1]
      <4>1. parse[left - 1] \in [Nat -> Parsed(Nat)]
        BY <1>1, <3>1 DEF ParsesNames
      <4> HIDE DEF n
      <4> QED
        BY <1>4, <2>5, <3>1, <4>1
    <3>3. parse[left][k] = [r EXCEPT !.name = Octets(p, k + 1, k + n + 1) \o <<Dot>> \o @]
      BY <2>1, <2>5 DEF LabelsLeft
    <3> HIDE DEF r
    <3>4. parse[left][k].next = r.next
      BY <3>2, <3>3 DEF Parsed
    <3>5. past[left][k] = past[left - 1][k + n + 1]
      BY <2>1, <2>5 DEF PastLeft, Compressed
    <3> QED
      BY <3>2, <3>4, <3>5
  <2> QED
    BY <2>3, <2>4, <2>5
<1>5. 0 \in T
  BY <1>3, <1>4
<1>6. ASSUME NEW n \in 1 .. Len(p), n - 1 \in T PROVE n \in T
  <2>1. n \in 0 .. Len(p)
    BY <1>3
  <2> QED
    BY <1>4, <1>6, <2>1
<1> HIDE DEF T
<1>7. 0 .. Len(p) \subseteq T
  BY <1>3, <1>5, <1>6, UpTo
<1>8. Same(Len(p))
  BY <1>3, <1>7 DEF T
<1>9. parse[Len(p)][at] \in Parsed(Nat)
  <2>1. Len(p) \in 0 .. Len(p)
    BY <1>3
  <2>2. parse[Len(p)] \in [Nat -> Parsed(Nat)]
    BY <1>1, <2>1 DEF ParsesNames
  <2> QED
    BY <2>2
<1> QED
  BY <1>1, <1>2, <1>8, <1>9 DEF Parsed

-----------------------------------------------------------------------------
(***************************************************************************)
(* Writing a name.                                                         *)
(***************************************************************************)
\* A label is from s to before e.
LabelIn(name, s, e) ==
    /\ s \in 1 .. Len(name) + 1 /\ e \in s .. Len(name) + 1
    /\ s = 1 \/ name[s - 1] = Dot
    /\ e = Len(name) + 1 \/ name[e] = Dot
    /\ \A j \in s .. e - 1 : name[j] # Dot

\* dns_to_qname writes its length in front of it, and the label behind.
Spelled(qname, name, s, e) == qname[s] = e - s /\ \A j \in s + 1 .. e : qname[j] = name[j - 1]

LEMMA LabelWritten ==
    ASSUME NEW name \in Seq(Nat), NEW s, NEW e, LabelIn(name, s, e)
    PROVE  Spelled(ToQname(name), name, s, e)
<1> DEFINE Bounds(i, k) == /\ k = Len(name) + 1 \/ name[k] = Dot
                           /\ \A j \in i .. k - 1 : name[j] # Dot
           labelEnd(i) == CHOOSE k \in i .. Len(name) + 1 : Bounds(i, k)
           q == [i \in 1 .. Len(name) + 2 |->
                    IF i = Len(name) + 2 THEN 0
                    ELSE IF i = 1 \/ name[i - 1] = Dot THEN labelEnd(i) - i
                    ELSE name[i - 1]]
<1>1. q = ToQname(name)
  BY DEF ToQname
<1>2. /\ Len(name) \in Nat
      /\ s \in 1 .. Len(name) + 1 /\ e \in s .. Len(name) + 1
      /\ s = 1 \/ name[s - 1] = Dot
      /\ e = Len(name) + 1 \/ name[e] = Dot
      /\ \A j \in s .. e - 1 : name[j] # Dot
  BY DEF LabelIn
<1>3. labelEnd(s) = e
  <2>1. Bounds(s, e)
    BY <1>2
  <2>2. ASSUME NEW k \in s .. Len(name) + 1, Bounds(s, k) PROVE k = e
    <3>1. ~(k < e)
      <4>1. SUFFICES ASSUME k < e PROVE FALSE
        OBVIOUS
      <4>2. k \in s .. e - 1 /\ k # Len(name) + 1
        BY <1>2, <4>1
      <4> QED
        BY <1>2, <2>2, <4>2
    <3>2. ~(e < k)
      <4>1. SUFFICES ASSUME e < k PROVE FALSE
        OBVIOUS
      <4>2. e \in s .. k - 1 /\ e # Len(name) + 1
        BY <1>2, <4>1
      <4> QED
        BY <1>2, <2>2, <4>2
    <3>3. k \in Nat /\ e \in Nat
      BY <1>2
    <3> QED
      BY <3>1, <3>2, <3>3
  <2> HIDE DEF Bounds
  <2> QED
    BY <1>2, <2>1, <2>2
<1> HIDE DEF labelEnd
<1>4. q[s] = e - s
  <2>1. s \in 1 .. Len(name) + 2 /\ s # Len(name) + 2
    BY <1>2
  <2> QED
    BY <1>2, <1>3, <2>1
<1>5. ASSUME NEW j \in s + 1 .. e PROVE q[j] = name[j - 1]
  <2>1. /\ j \in 1 .. Len(name) + 2 /\ j # Len(name) + 2 /\ j # 1
        /\ j - 1 \in s .. e - 1
    BY <1>2
  <2>2. ~(j = 1 \/ name[j - 1] = Dot)
    BY <1>2, <2>1
  <2> QED
    BY <2>1, <2>2
<1> QED
  BY <1>1, <1>4, <1>5, Zenon DEF Spelled

\* The octet 0 ends it.
LEMMA QnameEnds ==
    ASSUME NEW name \in Seq(Nat)
    PROVE  ToQname(name)[Len(name) + 2] = 0
<1>1. Len(name) \in Nat
  OBVIOUS
<1>2. Len(name) + 2 \in 1 .. Len(name) + 2
  BY <1>1
<1> QED
  BY <1>2 DEF ToQname

-----------------------------------------------------------------------------
(***************************************************************************)
(* What was written of a name that was read is read back.                  *)
(***************************************************************************)
\* A name, the last dot of which d still has, is written in q at an offset.
WrittenAt(q, at, name, d) ==
    /\ name \in Seq(Nat) /\ d \in Seq(Nat) /\ Len(d) = Len(name) + 1
    /\ \A i \in 1 .. Len(name) : name[i] = d[i]
    /\ ToQname(name) \in Seq(Nat) /\ Len(ToQname(name)) = Len(name) + 2
    /\ Placed(q, at, ToQname(name))

\* From s on, where a label begins or the end is, d is r in upper case.
LeftFrom(d, s, r) ==
    /\ s \in 1 .. Len(d) + 1 /\ (s = 1 \/ d[s - 1] = Dot)
    /\ Len(r) = Len(d) - s + 1
    /\ \A j \in 1 .. Len(r) : d[s + j - 1] = Up(r[j])

NoDots(label) == \A j \in 1 .. Len(label) : label[j] # Dot

\* A label and what is behind it.
LEMMA LabelParts ==
    ASSUME NEW label \in Seq(Nat), NEW rest \in Seq(Nat)
    PROVE  LET r == label \o <<Dot>> \o rest
           IN  /\ r \in Seq(Nat) /\ Len(r) = Len(label) + 1 + Len(rest)
               /\ \A j \in 1 .. Len(label) : r[j] = label[j]
               /\ r[Len(label) + 1] = Dot
               /\ \A j \in 1 .. Len(rest) : r[Len(label) + 1 + j] = rest[j]
<1> DEFINE front == label \o <<Dot>>
           r == front \o rest
<1>1. <<Dot>> \in Seq(Nat) /\ Len(<<Dot>>) = 1 /\ <<Dot>>[1] = Dot
  BY DEF Dot
<1>2. Len(label) \in Nat /\ Len(rest) \in Nat
  OBVIOUS
<1>3. /\ front \in Seq(Nat) /\ Len(front) = Len(label) + 1
      /\ \A j \in 1 .. Len(label) : front[j] = label[j]
      /\ front[Len(label) + 1] = Dot
  BY <1>1, <1>2
<1> HIDE DEF front
<1>4. /\ r \in Seq(Nat) /\ Len(r) = Len(front) + Len(rest)
      /\ \A j \in 1 .. Len(front) : r[j] = front[j]
      /\ \A j \in 1 .. Len(rest) : r[Len(front) + j] = rest[j]
  <2>1. /\ r \in Seq(Nat) /\ Len(r) = Len(front) + Len(rest)
        /\ Placed(r, 0, front) /\ Placed(r, Len(front), rest)
    BY <1>3, PlacedConcat, Zenon
  <2> HIDE DEF r
  <2>2. \A j \in 1 .. Len(front) : r[0 + j] = front[j] /\ 0 + j = j
    BY <2>1 DEF Placed
  <2> QED
    BY <2>1, <2>2 DEF Placed
<1>5. r = label \o <<Dot>> \o rest
  BY DEF front
<1> HIDE DEF r
<1>6. /\ r \in Seq(Nat) /\ Len(r) = Len(label) + 1 + Len(rest)
      /\ \A j \in 1 .. Len(label) : r[j] = label[j]
      /\ r[Len(label) + 1] = Dot
      /\ \A j \in 1 .. Len(rest) : r[Len(label) + 1 + j] = rest[j]
  BY <1>2, <1>3, <1>4
<1> QED
  BY <1>5, <1>6, Zenon

\* The octets of a label are as many as its length says.
LEMMA LabelLength ==
    ASSUME NEW p \in Seq(Nat), NEW k \in Nat, NEW n \in Nat
    PROVE  Octets(p, k + 1, k + n + 1) \in Seq(Nat) /\ Len(Octets(p, k + 1, k + n + 1)) = n
<1>1. k + n + 1 = k + 1 + n /\ k + 1 \in Nat /\ (k + 1 + n) - (k + 1) = n
  OBVIOUS
<1>2. Octets(p, k + 1, k + n + 1) = [i \in 1 .. n |-> U8(p, k + 1 + i - 1)]
  BY <1>1 DEF Octets
<1>3. Octets(p, k + 1, k + 1 + n) \in Seq(Nat)
  BY <1>1, OctetsOfPacket, OctetsAreNumbers, Zenon
<1>4. Octets(p, k + 1, k + n + 1) \in Seq(Nat)
  BY <1>1, <1>3, Zenon
<1> QED
  BY <1>2, <1>4, LenProperties

LEMMA UpTwice == \A c \in Nat : Up(c) \in Nat /\ Up(Up(c)) = Up(c) /\ Up(Dot) = Dot
BY DEF Up, Dot

\* Where a label of n characters from s on ends, in a name of m, if l are left.
LEMMA LabelNumbers ==
    ASSUME NEW n \in Nat, n > 0, NEW l \in Nat, NEW m \in Nat, NEW s \in 1 .. (m + 1) + 1,
           n + 1 + l = (m + 1) - s + 1
    PROVE  /\ s + n \in s .. m + 1 /\ s \in 1 .. m + 1 /\ s \in Nat /\ s + n \in Nat
           /\ l = (m + 1) - (s + n)
           /\ s < s + n /\ s + n <= m + 1
           /\ s + n # m + 1 => s + n \in 1 .. m
OBVIOUS

\* At s, where label is written, it is read, and behind it there is rest.
LabelRead(q, at, d, s, label, rest) ==
    /\ U8(q, at + s - 1) = Len(label)
    /\ ToUpper(Octets(q, at + s, at + s + Len(label))) = ToUpper(label)
    /\ LeftFrom(d, s + Len(label) + 1, rest)
    /\ s + Len(label) <= Len(d)

\* One label of it, and what is left behind it.
LEMMA LabelReadBack ==
    ASSUME NEW q \in Seq(Nat), NEW at \in Nat, NEW name, NEW d, WrittenAt(q, at, name, d),
           NEW label \in Seq(Nat), Len(label) > 0, NoDots(ToUpper(label)),
           NEW rest \in Seq(Nat), NEW s, LeftFrom(d, s, label \o <<Dot>> \o rest)
    PROVE  LabelRead(q, at, d, s, label, rest)
<1> DEFINE n == Len(label)
           r == label \o <<Dot>> \o rest
           e == s + n
<1>1. /\ Len(r) = n + 1 + Len(rest)
      /\ \A j \in 1 .. n : r[j] = label[j]
      /\ r[n + 1] = Dot
      /\ \A j \in 1 .. Len(rest) : r[n + 1 + j] = rest[j]
  BY LabelParts, Zenon
<1>2. /\ s \in 1 .. Len(d) + 1 /\ (s = 1 \/ d[s - 1] = Dot)
      /\ Len(r) = Len(d) - s + 1
      /\ \A j \in 1 .. Len(r) : d[s + j - 1] = Up(r[j])
  BY Zenon DEF LeftFrom
<1> HIDE DEF r
<1>3. /\ n \in Nat /\ n > 0 /\ Len(rest) \in Nat /\ Len(d) \in Nat /\ Len(name) \in Nat
      /\ Len(d) = Len(name) + 1 /\ \A i \in 1 .. Len(name) : name[i] = d[i]
  BY DEF WrittenAt
<1> HIDE DEF n
<1>4. /\ e \in s .. Len(name) + 1 /\ s \in 1 .. Len(name) + 1 /\ s \in Nat /\ e \in Nat
      /\ Len(rest) = Len(d) - e
      /\ e = s + n /\ Len(r) = n + 1 + Len(rest)
      /\ 1 <= s /\ s < e /\ e <= Len(name) + 1
      /\ e # Len(name) + 1 => e \in 1 .. Len(name)
  <2> DEFINE m == Len(name)
             l == Len(rest)
  <2>1. n \in Nat /\ n > 0 /\ l \in Nat /\ m \in Nat /\ Len(d) = m + 1
    BY <1>3
  <2>2. s \in 1 .. (m + 1) + 1 /\ n + 1 + l = (m + 1) - s + 1
    BY <1>1, <1>2, <2>1
  <2>3. 1 <= s
    BY <2>2
  <2> HIDE DEF m, l
  <2>4. /\ s + n \in s .. m + 1 /\ s \in 1 .. m + 1 /\ s \in Nat /\ s + n \in Nat
        /\ l = (m + 1) - (s + n)
        /\ s < s + n /\ s + n <= m + 1
        /\ s + n # m + 1 => s + n \in 1 .. m
    BY <2>1, <2>2, LabelNumbers, Zenon
  <2> QED
    BY <1>1, <2>1, <2>3, <2>4, Zenon DEF m, l
<1> HIDE DEF e
<1>5. ASSUME NEW j \in 1 .. n PROVE d[s + j - 1] = Up(label[j]) /\ d[s + j - 1] # Dot
  <2>1. j \in 1 .. Len(r)
    BY <1>1, <1>3
  <2>2. ToUpper(label)[j] = Up(label[j]) /\ ToUpper(label)[j] # Dot
    BY UpperPlaces DEF NoDots, n
  <2> QED
    BY <1>1, <1>2, <2>1, <2>2
<1>6. d[e] = Dot
  <2>1. n + 1 \in 1 .. Len(r) /\ s + (n + 1) - 1 = e
    BY <1>3, <1>4
  <2> QED
    BY <1>1, <1>2, <2>1, UpTwice
<1>7. ASSUME NEW j \in s .. e - 1 PROVE j \in 1 .. Len(name) /\ name[j] = d[j] /\ name[j] # Dot
  <2>1. j - s + 1 \in 1 .. n /\ s + (j - s + 1) - 1 = j
    BY <1>3, <1>4
  <2>2. d[j] # Dot
    BY <1>5, <2>1
  <2>3. j \in 1 .. Len(name)
    BY <1>3, <1>4
  <2> QED
    BY <1>3, <2>2, <2>3
<1>8. s = 1 \/ name[s - 1] = Dot
  <2>1. CASE s # 1
    <3>1. s - 1 \in 1 .. Len(name)
      BY <1>3, <1>4, <2>1
    <3> QED
      BY <1>2, <1>3, <2>1, <3>1
  <2> QED
    BY <2>1
<1>9. e = Len(name) + 1 \/ name[e] = Dot
  <2>1. CASE e # Len(name) + 1
    <3>1. e \in 1 .. Len(name)
      BY <1>4, <2>1
    <3> QED
      BY <1>3, <1>6, <3>1
  <2> QED
    BY <2>1
<1> DEFINE t == ToQname(name)
<1>10. /\ name \in Seq(Nat) /\ t \in Seq(Nat) /\ Len(t) = Len(name) + 2
       /\ Placed(q, at, t)
  BY Zenon DEF WrittenAt
<1>11. t[s] = e - s /\ \A j \in s + 1 .. e : t[j] = name[j - 1]
  <2>1. LabelIn(name, s, e)
    BY <1>4, <1>7, <1>8, <1>9, Zenon DEF LabelIn
  <2>2. Spelled(ToQname(name), name, s, e)
    BY <1>10, <2>1, LabelWritten, Zenon
  <2> QED
    BY <2>2, Zenon DEF Spelled
<1> HIDE DEF t
<1>12. ASSUME NEW i \in 1 .. Len(t) PROVE U8(q, at + i - 1) = t[i]
  BY <1>10, PlacedReads
<1>13. U8(q, at + s - 1) = n
  <2>1. s \in 1 .. Len(t) /\ e - s = n
    BY <1>3, <1>4, <1>10
  <2> QED
    BY <1>11, <1>12, <2>1
<1>14. ASSUME NEW j \in 1 .. n PROVE U8(q, at + s + j - 1) = Up(label[j])
  <2>1. /\ s + j \in 1 .. Len(t) /\ s + j \in s + 1 .. e /\ s + j - 1 \in s .. e - 1
        /\ at + (s + j) - 1 = at + s + j - 1 /\ s + j - 1 = (s + j) - 1
    BY <1>3, <1>4, <1>10
  <2>2. U8(q, at + s + j - 1) = t[s + j] /\ t[s + j] = name[s + j - 1]
    <3>1. U8(q, at + (s + j) - 1) = t[s + j]
      BY <1>12, <2>1, Zenon
    <3>2. t[s + j] = name[(s + j) - 1]
      BY <1>11, <2>1, Zenon
    <3> QED
      BY <2>1, <3>1, <3>2, Zenon
  <2>3. name[s + j - 1] = d[s + j - 1]
    BY <1>7, <2>1
  <2> QED
    BY <1>5, <2>2, <2>3
<1>15. ToUpper(Octets(q, at + s, at + s + n)) = ToUpper(label)
  <2> DEFINE o == Octets(q, at + s, at + s + n)
  <2>1. (at + s + n) - (at + s) = n
    BY <1>3, <1>4
  <2>2. o = [j \in 1 .. n |-> U8(q, at + s + j - 1)]
    BY <2>1 DEF Octets
  <2>3. \A j \in 1 .. n : o[j] = Up(label[j])
    BY <1>14, <2>2
  <2>4. DOMAIN o = 1 .. n /\ DOMAIN label = 1 .. n
    <3>1. DOMAIN label = 1 .. n
      BY DEF n
    <3> QED
      BY <2>2, <3>1
  <2> HIDE DEF o
  <2>5. \A j \in 1 .. n : Up(o[j]) = Up(label[j])
    <3>1. \A j \in 1 .. n : label[j] \in Nat
      BY DEF n
    <3> QED
      BY <2>3, <3>1, UpTwice
  <2>6. /\ ToUpper(o) = [j \in 1 .. n |-> Up(o[j])]
        /\ ToUpper(label) = [j \in 1 .. n |-> Up(label[j])]
    BY <2>4, Zenon DEF ToUpper, Up
  <2>7. ToUpper(o) = ToUpper(label)
    BY <2>5, <2>6
  <2> QED
    BY <2>7 DEF o
<1>16. LeftFrom(d, s + n + 1, rest)
  <2>1. s + n + 1 \in 1 .. Len(d) + 1 /\ (s + n + 1) - 1 = e
    BY <1>3, <1>4
  <2>2. Len(rest) = Len(d) - (s + n + 1) + 1
    BY <1>3, <1>4
  <2>3. ASSUME NEW j \in 1 .. Len(rest) PROVE d[(s + n + 1) + j - 1] = Up(rest[j])
    <3>1. n + 1 + j \in 1 .. Len(r) /\ s + (n + 1 + j) - 1 = (s + n + 1) + j - 1
      BY <1>3, <1>4
    <3> QED
      BY <1>1, <1>2, <3>1
  <2> QED
    BY <1>6, <2>1, <2>2, <2>3 DEF LeftFrom
<1>17. s + n <= Len(d)
  BY <1>3, <1>4
<1> QED
  BY <1>13, <1>15, <1>16, <1>17, Zenon DEF n, LabelRead

\* The name at an offset and what is behind it, read with left labels to go.
ReadsAt(name, past, k, what, next) == name[k] = what /\ past[k] = next

\* name is r in upper case, but for its last dot.
WithDot(name, r) ==
    LET d == ToUpper(r)
    IN  /\ name \in Seq(Nat) /\ d \in Seq(Nat)
        /\ Len(d) = Len(name) + 1 /\ Len(name) \in Nat
        /\ \A i \in 1 .. Len(name) : name[i] = d[i]
        /\ LeftFrom(d, 1, r)

\* The last dot is behind the name that dns_parse_qname leaves.
LEMMA LastDotDropped ==
    ASSUME NEW r \in Seq(Nat), NEW name, name = ToUpper(SubSeq(r, 1, Len(r) - 1)),
           name # <<>>
    PROVE  WithDot(name, r)
<1> DEFINE cut == SubSeq(r, 1, Len(r) - 1)
<1>1. Len(r) \in Nat
  OBVIOUS
<1>2. Len(r) > 0
  <2>1. CASE Len(r) = 0
    <3>1. cut = <<>>
      BY <2>1
    <3>2. ToUpper(<<>>) = <<>>
      BY DEF ToUpper
    <3> QED
      BY <3>1, <3>2
  <2> QED
    BY <1>1, <2>1
<1>3. /\ cut \in Seq(Nat) /\ Len(cut) = Len(r) - 1
      /\ \A i \in 1 .. Len(cut) : cut[i] = r[i]
  <2> DEFINE l == Len(r) - 1
  <2>1. 1 \in 1 .. Len(r) + 1 /\ l \in 1 - 1 .. Len(r) /\ l - 1 + 1 = l /\ 1 - 1 = 0
    BY <1>1, <1>2
  <2> HIDE DEF l
  <2>2. /\ SubSeq(r, 1, l) \in Seq(Nat) /\ Len(SubSeq(r, 1, l)) = l
        /\ Placed(r, 0, SubSeq(r, 1, l))
    BY <2>1, PlacedSubSeq, Zenon
  <2>3. \A i \in 1 .. Len(SubSeq(r, 1, l)) : SubSeq(r, 1, l)[i] = r[0 + i] /\ 0 + i = i
    BY <2>2 DEF Placed
  <2> QED
    BY <2>2, <2>3, Zenon DEF l
<1> HIDE DEF cut
<1>4. /\ name \in Seq(Nat) /\ Len(name) = Len(cut)
      /\ \A i \in 1 .. Len(cut) : name[i] = Up(cut[i])
  <2>1. name = ToUpper(cut)
    BY DEF cut
  <2> QED
    BY <1>3, <2>1, UpperPlaces, Zenon
<1> DEFINE d == ToUpper(r)
<1>5. d \in Seq(Nat) /\ Len(d) = Len(r) /\ \A i \in 1 .. Len(r) : d[i] = Up(r[i])
  BY UpperPlaces, Zenon
<1> HIDE DEF d
<1>6. ASSUME NEW i \in 1 .. Len(name) PROVE name[i] = d[i]
  <2>1. i \in 1 .. Len(cut) /\ i \in 1 .. Len(r)
    <3>1. Len(cut) = Len(r) - 1 /\ Len(name) = Len(cut)
      BY <1>3, <1>4
    <3> QED
      BY <1>1, <3>1
  <2> QED
    BY <1>3, <1>4, <1>5, <2>1
<1>7. LeftFrom(d, 1, r)
  <2>1. \A j \in 1 .. Len(r) : 1 + j - 1 = j
    OBVIOUS
  <2>2. 1 \in 1 .. Len(d) + 1 /\ Len(r) = Len(d) - 1 + 1
    BY <1>1, <1>5
  <2> QED
    BY <1>5, <2>1, <2>2 DEF LeftFrom
<1>8. Len(d) = Len(name) + 1 /\ Len(name) \in Nat
  BY <1>1, <1>2, <1>3, <1>4, <1>5
<1> QED
  BY <1>4, <1>5, <1>6, <1>7, <1>8, Zenon DEF d, WithDot

\* Behind the labels there is the root.
LEMMA RootReadBack ==
    ASSUME NEW q \in Seq(Nat), NEW at \in Nat, NEW name, NEW d, WrittenAt(q, at, name, d)
    PROVE  U8(q, at + Len(d)) = 0
<1> DEFINE t == ToQname(name)
<1>1. /\ Len(d) = Len(name) + 1 /\ name \in Seq(Nat) /\ t \in Seq(Nat)
      /\ Len(t) = Len(name) + 2 /\ Placed(q, at, t)
  BY Zenon DEF WrittenAt
<1>2. t[Len(name) + 2] = 0
  BY <1>1, QnameEnds, Zenon
<1> HIDE DEF t
<1>3. Len(name) + 2 \in 1 .. Len(t) /\ at + Len(d) = at + (Len(name) + 2) - 1
  <2>1. Len(name) \in Nat
    BY <1>1
  <2> QED
    BY <1>1, <2>1
<1>4. \A i \in 1 .. Len(t) : U8(q, at + i - 1) = t[i]
  BY <1>1, PlacedReads
<1> QED
  BY <1>2, <1>3, <1>4, Zenon

\* What dns_parse_qname reads of a name at one label of it.
OneLabel(p, rest, left, k, name) ==
    LET n == U8(p, k)
    IN  /\ n = 0 \/ left = 0 => name = <<>>
        /\ ~(n = 0 \/ left = 0) /\ Compressed(p, k) => name = rest[Elsewhere(p, k)].name
        /\ ~(n = 0 \/ left = 0) /\ ~Compressed(p, k) =>
              name = Octets(p, k + 1, k + n + 1) \o <<Dot>> \o rest[k + n + 1].name

LEMMA NameOfLabels ==
    ASSUME NEW p \in Seq(Octet), NEW rest, NEW left, NEW k \in Nat,
           NEW name, name = LabelsLeft(p, rest, left, k).name,
           rest[k + U8(p, k) + 1] \in Parsed(Nat)
    PROVE  OneLabel(p, rest, left, k, name)
<1> DEFINE n == U8(p, k)
           all == LabelsLeft(p, rest, left, k)
           r == rest[k + n + 1]
           label == Octets(p, k + 1, k + n + 1)
<1>1. ASSUME n = 0 \/ left = 0 PROVE name = <<>>
  <2>1. all = [name |-> <<>>, next |-> k + 1]
    BY <1>1 DEF LabelsLeft
  <2> QED
    BY <2>1
<1>2. ASSUME ~(n = 0 \/ left = 0), Compressed(p, k)
      PROVE  name = rest[Elsewhere(p, k)].name
  <2>1. U16(p, k) % 16384 = Elsewhere(p, k)
    BY <1>2, OffsetOfOctets
  <2>2. all = [name |-> rest[U16(p, k) % 16384].name, next |-> k + 2]
    BY <1>2 DEF LabelsLeft, Compressed
  <2> QED
    BY <2>1, <2>2
<1>3. ASSUME ~(n = 0 \/ left = 0), ~Compressed(p, k)
      PROVE  name = label \o <<Dot>> \o r.name
  <2>1. all = [r EXCEPT !.name = label \o <<Dot>> \o @]
    BY <1>3 DEF LabelsLeft, Compressed
  <2> HIDE DEF r, all, label
  <2>2. r \in Parsed(Nat) /\ name = all.name
    BY DEF r, all
  <2> QED
    BY <2>1, <2>2 DEF Parsed
<1> QED
  BY <1>1, <1>2, <1>3 DEF OneLabel

\* dns_to_qname has written a name at an offset.
NamePut(q, at, name) ==
    /\ ToQname(name) \in Seq(Nat) /\ Len(ToQname(name)) = Len(name) + 2
    /\ Placed(q, at, ToQname(name))

\* One label more.
LEMMA OneAndLabels ==
    ASSUME NEW upper \in Seq(Nat), NEW labels \in Labels
    PROVE  /\ Len(<<upper>> \o labels) = 1 + Len(labels) /\ Len(labels) \in Nat
           /\ (<<upper>> \o labels)[1] = upper
           /\ \A i \in 1 .. Len(labels) : (<<upper>> \o labels)[i + 1] = labels[i]
BY DEF Labels

\* The name is the one that dns_parse_qname reads at an offset.
NameRead(p, from, name) == name = ToUpper(ParseQname(p, from).name) /\ name # <<>>

\* A name that was written is the one that was read, and ends where writing it ended.
NameBack(q, at, name, p, from) ==
    Name(q, at) = Name(p, from) /\ PastName(q, at) = at + Len(name) + 2

\* No label has a dot.
Plain(labels) == \A i \in 1 .. Len(labels) : NoDots(labels[i])

\* dns_to_qname writes the name that dns_parse_qname read, and it is read as it was, unless
\* a label of it has a dot.
LEMMA NameReadBack ==
    ASSUME NEW p \in Seq(Octet), NEW from \in Nat, NEW q \in Seq(Nat), NEW at \in Nat,
           NEW name, NameRead(p, from, name),
           NamePut(q, at, name), Plain(Name(p, from))
    PROVE  NameBack(q, at, name, p, from)
<1>0. p \in Seq(Nat)
  BY Widened, OctetsAreNumbers, Zenon
<1>1. PICK parse : ParsesNumbers(p, parse)
  BY <1>0, NumbersUnroll, Zenon
<1>2. PICK nameP : /\ \A left \in 0 .. Len(p) :
                         /\ nameP[left] \in [Nat -> Labels]
                         /\ \A k \in Nat : nameP[left][k] = NameLeft(p, nameP[left - 1], left, k)
                   /\ \A k \in Nat : Name(p, k) = nameP[Len(p)][k]
  BY <1>0, NameUnrolls, Zenon
<1>3. PICK nameQ : /\ \A left \in 0 .. Len(q) :
                         /\ nameQ[left] \in [Nat -> Labels]
                         /\ \A k \in Nat : nameQ[left][k] = NameLeft(q, nameQ[left - 1], left, k)
                   /\ \A k \in Nat : Name(q, k) = nameQ[Len(q)][k]
  BY NameUnrolls, Zenon
<1>4. PICK pastQ : /\ \A left \in 0 .. Len(q) :
                         /\ pastQ[left] \in Ends
                         /\ \A k \in Nat : pastQ[left][k] = PastLeft(q, pastQ[left - 1], left, k)
                   /\ \A k \in Nat : PastName(q, k) = pastQ[Len(q)][k]
  BY PastUnrolls, Zenon
<1>5. Len(p) \in Nat /\ Len(q) \in Nat
  OBVIOUS
<1> DEFINE r == parse[Len(p)][from].name
           d == ToUpper(r)
<1>6. r \in Seq(Nat) /\ name = ToUpper(SubSeq(r, 1, Len(r) - 1)) /\ name # <<>>
  <2>1. parse[Len(p)][from] \in Parsed(Nat)
    <3>1. Len(p) \in 0 .. Len(p)
      BY <1>5
    <3>2. parse[Len(p)] \in [Nat -> Parsed(Nat)]
      BY <1>1, <3>1 DEF ParsesNumbers, ParsesNames
    <3> QED
      BY <3>2
  <2> QED
    BY <1>1, <2>1 DEF ParsesNumbers, Parsed, NameRead
<1> HIDE DEF r
<1>7. /\ name \in Seq(Nat) /\ d \in Seq(Nat) /\ Len(d) = Len(name) + 1 /\ Len(name) \in Nat
      /\ \A i \in 1 .. Len(name) : name[i] = d[i]
      /\ LeftFrom(d, 1, r)
  <2>1. WithDot(name, r)
    BY <1>6, LastDotDropped, Zenon
  <2> QED
    BY <2>1, Zenon DEF WithDot
<1> HIDE DEF d
<1>8. WrittenAt(q, at, name, d)
  BY <1>7, Zenon DEF WrittenAt, NamePut
<1> DEFINE Back(left) ==
               \A k \in Nat, s \in Nat, more \in 0 .. Len(q) :
                   /\ LeftFrom(d, s, parse[left][k].name)
                   /\ Plain(nameP[left][k])
                   /\ Len(d) - s + 1 <= more
                   => ReadsAt(nameQ[more], pastQ[more], at + s - 1, nameP[left][k],
                              at + Len(d) + 1)
           T == {left \in 0 .. Len(p) : Back(left)}
<1>9. ASSUME NEW left \in 0 .. Len(p), left # 0 => Back(left - 1),
             NEW k \in Nat, NEW s \in Nat, NEW more \in 0 .. Len(q),
             LeftFrom(d, s, parse[left][k].name), Plain(nameP[left][k]),
             Len(d) - s + 1 <= more
      PROVE  ReadsAt(nameQ[more], pastQ[more], at + s - 1, nameP[left][k], at + Len(d) + 1)
  <2> DEFINE n == U8(p, k)
  <2>1. nameP[left][k] = NameLeft(p, nameP[left - 1], left, k)
    BY <1>2, Zenon
  <2>2. n \in Nat
    BY <1>0, OffsetOfPair, Zenon
  <2> DEFINE next == k + n + 1
             label == Octets(p, k + 1, k + n + 1)
  <2>3. next \in Nat
    BY <2>2
  <2>4. /\ n = 0 \/ left = 0 => parse[left][k].name = <<>>
        /\ ~(n = 0 \/ left = 0) /\ Compressed(p, k) =>
              parse[left][k].name = parse[left - 1][Elsewhere(p, k)].name
        /\ ~(n = 0 \/ left = 0) /\ ~Compressed(p, k) =>
              parse[left][k].name = label \o <<Dot>> \o parse[left - 1][next].name
    <3>1. CASE left = 0
      <4>1. parse[left][k].name = <<>>
        <5>1. parse[left][k] = LabelsLeft(p, parse[left - 1], left, k)
          BY <1>1, Zenon DEF ParsesNumbers, ParsesNames
        <5>2. parse[left][k] = [name |-> <<>>, next |-> k + 1]
          BY <3>1, <5>1 DEF LabelsLeft
        <5> QED
          BY <5>2
      <4> QED
        BY <3>1, <4>1, Zenon
    <3>2. CASE left # 0
      <4>1. left - 1 \in 0 .. Len(p)
        BY <1>5, <3>2
      <4>2. parse[left - 1] \in [Nat -> Parsed(Nat)]
        BY <1>1, <4>1 DEF ParsesNumbers, ParsesNames
      <4>3. parse[left - 1][k + n + 1] \in Parsed(Nat)
        BY <2>3, <4>2
      <4>4. parse[left][k].name = LabelsLeft(p, parse[left - 1], left, k).name
        BY <1>1, Zenon DEF ParsesNumbers, ParsesNames
      <4> QED
        <5>1. OneLabel(p, parse[left - 1], left, k, parse[left][k].name)
          BY <4>3, <4>4, NameOfLabels, Zenon
        <5> QED
          BY <5>1, Zenon DEF OneLabel
    <3> QED
      BY <3>1, <3>2, Zenon
  <2>5. /\ at + s - 1 \in Nat /\ (at + s - 1) + 1 = at + s
        /\ s \in 1 .. Len(d) + 1
    <3>1. s \in 1 .. Len(d) + 1
      BY <1>9 DEF LeftFrom
    <3> QED
      BY <1>7, <3>1
  <2>6. CASE n = 0 \/ left = 0
    <3>1. parse[left][k].name = <<>> /\ nameP[left][k] = <<>>
      BY <2>1, <2>4, <2>6, Zenon DEF NameLeft
    <3>2. s = Len(d) + 1
      <4>1. Len(<<>>) = Len(d) - s + 1
        BY <1>9, <3>1, Zenon DEF LeftFrom
      <4>2. Len(<<>>) = 0
        OBVIOUS
      <4>3. Len(d) \in Nat /\ s \in Nat
        BY <1>7, <2>5
      <4>4. Len(d) - s + 1 = 0
        BY <4>1, <4>2, Zenon
      <4> HIDE DEF n, next, label
      <4> QED
        BY <4>3, <4>4
    <3>3. at + s - 1 = at + Len(d)
      BY <1>7, <3>2
    <3>4. U8(q, at + s - 1) = 0
      BY <1>8, <3>3, RootReadBack, Zenon
    <3>5. nameQ[more][at + s - 1] = <<>> /\ pastQ[more][at + s - 1] = (at + s - 1) + 1
      BY <1>3, <1>4, <2>5, <3>4, Zenon DEF NameLeft, PastLeft
    <3> QED
      BY <3>1, <3>3, <3>5, Zenon DEF ReadsAt
  <2>7. CASE ~(n = 0 \/ left = 0) /\ Compressed(p, k)
    <3> DEFINE there == Elsewhere(p, k)
    <3>1. there \in Nat
      BY <1>0, <2>7, OffsetOfPair, Zenon
    <3>2. parse[left][k].name = parse[left - 1][there].name
      BY <2>4, <2>7, Zenon
    <3>3. nameP[left][k] = nameP[left - 1][there]
      BY <2>1, <2>7, Zenon DEF NameLeft
    <3>4. Back(left - 1)
      <4> HIDE DEF Back
      <4> QED
        BY <1>9, <2>7, Zenon
    <3> HIDE DEF there
    <3>5. LeftFrom(d, s, parse[left - 1][there].name) /\ Plain(nameP[left - 1][there])
      BY <1>9, <3>2, <3>3, Zenon
    <3>6. ReadsAt(nameQ[more], pastQ[more], at + s - 1, nameP[left - 1][there],
                  at + Len(d) + 1)
      BY <1>9, <3>1, <3>4, <3>5
    <3> QED
      BY <3>3, <3>6, Zenon
  <2>8. CASE ~(n = 0 \/ left = 0) /\ ~Compressed(p, k)
    <3> DEFINE rest == parse[left - 1][next].name
               labels == nameP[left - 1][next]
    <3>1. /\ label \in Seq(Nat) /\ Len(label) = n /\ n > 0 /\ left - 1 \in 0 .. Len(p)
      <4>1. label = [i \in 1 .. n |-> U8(p, (k + 1) + i - 1)]
        <5>1. (k + n + 1) - (k + 1) = n
          BY <2>2
        <5> QED
          BY <5>1 DEF Octets
      <4>2. k + 1 \in Nat /\ k + n + 1 = (k + 1) + n
        BY <2>2
      <4> HIDE DEF n
      <4>3. Octets(p, k + 1, (k + 1) + n) \in Seq(Nat)
        BY <1>0, <2>2, <4>2, OctetsOfPacket, OctetsAreNumbers, Zenon
      <4>4. label \in Seq(Nat)
        BY <4>2, <4>3
      <4> HIDE DEF label
      <4>5. Len(label) = n
        BY <2>2, <4>1, <4>4
      <4>6. n > 0 /\ left - 1 \in 0 .. Len(p)
        BY <1>5, <2>2, <2>8
      <4> QED
        BY <4>4, <4>5, <4>6
    <3>2. parse[left][k].name = label \o <<Dot>> \o rest /\ rest \in Seq(Nat)
      <4>1. parse[left - 1] \in [Nat -> Parsed(Nat)]
        BY <1>1, <3>1 DEF ParsesNumbers, ParsesNames
      <4>2. parse[left - 1][next] \in Parsed(Nat)
        BY <2>3, <4>1
      <4>3. rest \in Seq(Nat)
        BY <4>2 DEF Parsed
      <4> QED
        BY <2>4, <2>8, <4>3, Zenon
    <3>3. nameP[left][k] = <<ToUpper(label)>> \o labels /\ labels \in Labels
      <4>1. nameP[left - 1] \in [Nat -> Labels]
        BY <1>2, <3>1, Zenon
      <4>2. labels \in Labels
        BY <2>3, <4>1
      <4> QED
        BY <2>1, <2>8, <4>2, Zenon DEF NameLeft
    <3>4. NoDots(ToUpper(label)) /\ Plain(labels)
      <4> DEFINE upper == ToUpper(label)
      <4>1. upper \in Seq(Nat)
        BY <3>1, UpperPlaces, Zenon
      <4> HIDE DEF upper, labels
      <4>2. /\ Len(<<upper>> \o labels) = 1 + Len(labels) /\ Len(labels) \in Nat
            /\ (<<upper>> \o labels)[1] = upper
            /\ \A i \in 1 .. Len(labels) : (<<upper>> \o labels)[i + 1] = labels[i]
        BY <3>3, <4>1, OneAndLabels, Zenon
      <4>3. Plain(<<upper>> \o labels)
        BY <1>9, <3>3, Zenon DEF upper
      <4>4. NoDots(upper)
        <5>1. 1 \in 1 .. Len(<<upper>> \o labels)
          BY <4>2
        <5> QED
          BY <4>2, <4>3, <5>1, Zenon DEF Plain
      <4>5. ASSUME NEW i \in 1 .. Len(labels) PROVE NoDots(labels[i])
        <5>1. i + 1 \in 1 .. Len(<<upper>> \o labels)
          BY <4>2
        <5> QED
          BY <4>2, <4>3, <5>1, Zenon DEF Plain
      <4> QED
        BY <4>4, <4>5, Zenon DEF upper, Plain
    <3> HIDE DEF label, rest, labels, next, n
    <3>5. /\ U8(q, at + s - 1) = n
          /\ ToUpper(Octets(q, at + s, at + s + n)) = ToUpper(label)
          /\ LeftFrom(d, s + n + 1, rest)
          /\ s + n <= Len(d)
      <4>1. LeftFrom(d, s, label \o <<Dot>> \o rest) /\ Len(label) > 0
        BY <1>9, <3>1, <3>2, Zenon
      <4>2. LabelRead(q, at, d, s, label, rest)
        BY <1>8, <3>1, <3>2, <3>4, <4>1, LabelReadBack, Zenon
      <4> QED
        BY <3>1, <4>2, Zenon DEF LabelRead
    <3>6. Back(left - 1)
      <4> HIDE DEF Back
      <4> QED
        BY <1>9, <2>8, Zenon
    <3>7. /\ more \in Nat /\ more # 0 /\ more - 1 \in 0 .. Len(q) /\ s + n + 1 \in Nat
          /\ Len(d) - (s + n + 1) + 1 <= more - 1
          /\ (at + s - 1) + n + 1 = at + (s + n + 1) - 1
          /\ (at + s - 1) + 1 = at + s /\ at + s + n = (at + s - 1) + n + 1
      <4> DEFINE l == Len(d)
      <4>1. /\ l \in Nat /\ at \in Nat /\ n \in Nat /\ n > 0 /\ s + n <= l /\ l - s + 1 <= more
            /\ more \in 0 .. Len(q) /\ Len(q) \in Nat /\ s \in Nat
        BY <1>5, <1>7, <1>9, <2>2, <3>1, <3>5
      <4> HIDE DEF l
      <4>2. more \in Nat /\ more # 0 /\ more - 1 \in 0 .. Len(q)
        BY <4>1, Z3
      <4>3. s + n + 1 \in Nat /\ l - (s + n + 1) + 1 <= more - 1
        BY <4>1, Z3
      <4>4. /\ (at + s - 1) + n + 1 = at + (s + n + 1) - 1
            /\ (at + s - 1) + 1 = at + s /\ at + s + n = (at + s - 1) + n + 1
        BY <4>1, Z3
      <4> QED
        BY <4>2, <4>3, <4>4, Zenon DEF l
    <3>8. ReadsAt(nameQ[more - 1], pastQ[more - 1], at + (s + n + 1) - 1, labels,
                  at + Len(d) + 1)
      BY <2>3, <3>4, <3>5, <3>6, <3>7 DEF rest, labels
    <3>9. n # 0 /\ ~Compressed(q, at + s - 1)
      BY <2>8, <3>1, <3>5, SMT DEF Compressed, n
    <3> DEFINE h == at + s - 1
    <3> HIDE DEF h
    <3>10. nameQ[more][h] = <<ToUpper(label)>> \o nameQ[more - 1][at + (s + n + 1) - 1]
      <4>1. nameQ[more][h] = NameLeft(q, nameQ[more - 1], more, h)
        BY <1>3, <2>5, Zenon DEF h
      <4>2. nameQ[more][h] = <<ToUpper(Octets(q, h + 1, h + n + 1))>> \o nameQ[more - 1][h + n + 1]
        BY <3>5, <3>7, <3>9, <4>1, Zenon DEF NameLeft, h
      <4> QED
        BY <3>5, <3>7, <4>2, Zenon DEF h
    <3>11. pastQ[more][h] = pastQ[more - 1][at + (s + n + 1) - 1]
      <4>1. pastQ[more][h] = PastLeft(q, pastQ[more - 1], more, h)
        BY <1>4, <2>5, Zenon DEF h
      <4>2. pastQ[more][h] = pastQ[more - 1][h + n + 1]
        BY <3>5, <3>7, <3>9, <4>1, Zenon DEF PastLeft, h
      <4> QED
        BY <3>7, <4>2, Zenon DEF h
    <3> QED
      BY <3>3, <3>8, <3>10, <3>11, Zenon DEF ReadsAt, h
  <2> QED
    BY <2>6, <2>7, <2>8, Zenon
<1>10. 0 \in T
  <2>1. 0 \in 0 .. Len(p)
    BY <1>5
  <2> QED
    BY <1>9, <2>1
<1>11. ASSUME NEW n \in 1 .. Len(p), n - 1 \in T PROVE n \in T
  <2>1. n \in 0 .. Len(p)
    BY <1>5
  <2> QED
    BY <1>9, <1>11, <2>1
<1> HIDE DEF T
<1>12. 0 .. Len(p) \subseteq T
  BY <1>5, <1>10, <1>11, UpTo
<1>13. Back(Len(p))
  <2> HIDE DEF Back
  <2> QED
    BY <1>5, <1>12 DEF T
<1>14. ReadsAt(nameQ[Len(q)], pastQ[Len(q)], at, nameP[Len(p)][from], at + Len(d) + 1)
  <2>1. /\ Len(d) - 1 + 1 <= Len(q) /\ Len(q) \in 0 .. Len(q) /\ at + 1 - 1 = at
        /\ 1 \in Nat
    <3>1. at + Len(ToQname(name)) <= Len(q) /\ Len(ToQname(name)) = Len(name) + 2
      BY Zenon DEF Placed, NamePut
    <3> QED
      BY <1>5, <1>7, <3>1
  <2>2. Plain(nameP[Len(p)][from])
    BY <1>2
  <2>3. LeftFrom(d, 1, parse[Len(p)][from].name)
    BY <1>7 DEF r
  <2> QED
    BY <1>13, <2>1, <2>2, <2>3
<1> QED
  BY <1>2, <1>3, <1>4, <1>7, <1>14 DEF ReadsAt, NameBack

-----------------------------------------------------------------------------
(***************************************************************************)
(* Which question is which.                                                *)
(***************************************************************************)
\* A name ends somewhere.
LEMMA PastNameTyped ==
    ASSUME NEW p \in Seq(Nat), NEW at \in Nat
    PROVE  PastName(p, at) \in Nat
<1>1. PICK past : /\ \A left \in 0 .. Len(p) :
                         /\ past[left] \in Ends
                         /\ \A k \in Nat : past[left][k] = PastLeft(p, past[left - 1], left, k)
                  /\ \A k \in Nat : PastName(p, k) = past[Len(p)][k]
  BY PastUnrolls, Zenon
<1>2. Len(p) \in 0 .. Len(p)
  OBVIOUS
<1>3. past[Len(p)] \in Ends
  BY <1>1, <1>2, Zenon
<1> QED
  BY <1>1, <1>3 DEF Ends

\* A name is labels.
LEMMA NameTyped ==
    ASSUME NEW p \in Seq(Nat), NEW at \in Nat
    PROVE  Name(p, at) \in Labels
<1>1. PICK name : /\ \A left \in 0 .. Len(p) :
                         /\ name[left] \in [Nat -> Labels]
                         /\ \A k \in Nat : name[left][k] = NameLeft(p, name[left - 1], left, k)
                  /\ \A k \in Nat : Name(p, k) = name[Len(p)][k]
  BY NameUnrolls, Zenon
<1>2. Len(p) \in 0 .. Len(p)
  OBVIOUS
<1>3. name[Len(p)] \in [Nat -> Labels]
  BY <1>1, <1>2, Zenon
<1> QED
  BY <1>1, <1>3

\* PastQuestions, question by question.
PassesQuestions(p, past, i) ==
    /\ past[0] = HeaderLen
    /\ \A k \in 1 .. i : past[k] = PastName(p, past[k - 1]) + 4
    /\ \A k \in 0 .. i : past[k] \in Nat

LEMMA PastQuestionsUnroll ==
    ASSUME NEW p \in Seq(Nat), NEW i \in Nat
    PROVE  \E past : PassesQuestions(p, past, i) /\ PastQuestions(p, i) = past[i]
<1> DEFINE past[k \in 0 .. i] == IF k = 0 THEN HeaderLen ELSE PastName(p, past[k - 1]) + 4
           Rec(g) == [k \in 0 .. i |-> IF k = 0 THEN HeaderLen ELSE PastName(p, g[k - 1]) + 4]
           step == [x \in Nat |-> PastName(p, x) + 4]
<1>1. PastQuestions(p, i) = past[i]
  BY DEF PastQuestions
<1>2. step \in [Nat -> Nat]
  <2>1. ASSUME NEW x \in Nat PROVE PastName(p, x) + 4 \in Nat
    BY PastNameTyped
  <2> QED
    BY <2>1
<1>3. HeaderLen \in Nat
  BY DEF HeaderLen
<1>4. PICK f \in [0 .. i -> Nat] : Loops(f, HeaderLen, step, i)
  <2> HIDE DEF step
  <2> QED
    BY <1>2, <1>3, LoopExists, Zenon
<1>5. ASSUME NEW k \in 1 .. i PROVE f[k] = PastName(p, f[k - 1]) + 4
  <2>1. k - 1 \in 0 .. i
    OBVIOUS
  <2>2. f[k - 1] \in Nat /\ f[k] = step[f[k - 1]]
    BY <1>4, <2>1 DEF Loops
  <2> QED
    BY <2>2
<1>6. f[0] = HeaderLen
  BY <1>4 DEF Loops
<1>7. f = Rec(f)
  BY <1>5, <1>6
<1>8. past = Rec(past)
  <2>1. past = CHOOSE g : g = Rec(g)
    OBVIOUS
  <2> HIDE DEF past, Rec
  <2> QED
    BY <1>7, <2>1
<1> HIDE DEF past
<1>9. past[0] = HeaderLen /\ \A k \in 1 .. i : past[k] = PastName(p, past[k - 1]) + 4
  <2>1. 0 \in 0 .. i /\ \A k \in 1 .. i : k \in 0 .. i /\ k # 0
    OBVIOUS
  <2> QED
    BY <1>8, <2>1
<1> DEFINE T == {k \in 0 .. i : past[k] \in Nat}
<1>10. 0 \in T
  BY <1>3, <1>9
<1>11. ASSUME NEW n \in 1 .. i, n - 1 \in T PROVE n \in T
  <2>1. n \in 0 .. i /\ past[n - 1] \in Nat
    BY <1>11
  <2>2. PastName(p, past[n - 1]) \in Nat
    BY <2>1, PastNameTyped
  <2>3. past[n] = PastName(p, past[n - 1]) + 4
    BY <1>9
  <2> QED
    BY <2>1, <2>2, <2>3
<1> HIDE DEF T
<1>12. 0 .. i \subseteq T
  BY <1>10, <1>11, UpTo
<1>13. \A k \in 0 .. i : past[k] \in Nat
  BY <1>12 DEF T
<1> QED
  BY <1>1, <1>9, <1>13, Zenon DEF PassesQuestions

\* The same offsets are found for any number of questions.
LEMMA SameOffsets ==
    ASSUME NEW p \in Seq(Nat), NEW N \in Nat, NEW f, PassesQuestions(p, f, N),
           NEW i \in 0 .. N
    PROVE  PastQuestions(p, i) = f[i]
<1>1. i \in Nat
  OBVIOUS
<1>2. PICK g : PassesQuestions(p, g, i) /\ PastQuestions(p, i) = g[i]
  BY <1>1, PastQuestionsUnroll, Zenon
<1> DEFINE T == {k \in 0 .. i : g[k] = f[k]}
<1>3. 0 \in T
  BY <1>1, <1>2 DEF PassesQuestions
<1>4. ASSUME NEW n \in 1 .. i, n - 1 \in T PROVE n \in T
  <2>1. n \in 0 .. i /\ n \in 1 .. N /\ g[n - 1] = f[n - 1]
    BY <1>4
  <2> QED
    BY <1>2, <2>1 DEF PassesQuestions
<1> HIDE DEF T
<1>5. 0 .. i \subseteq T
  BY <1>1, <1>3, <1>4, UpTo
<1> QED
  BY <1>1, <1>2, <1>5 DEF T

\* The first question and what is behind it.
LEMMA FirstQuestion ==
    ASSUME NEW p \in Seq(Nat)
    PROVE  PastQuestions(p, 0) = 12 /\ PastQuestions(p, 1) = PastName(p, 12) + 4
<1>1. 1 \in Nat /\ 0 \in 0 .. 1 /\ 1 \in 0 .. 1 /\ 1 \in 1 .. 1 /\ 1 - 1 = 0
  OBVIOUS
<1>2. PICK f : PassesQuestions(p, f, 1)
  BY <1>1, PastQuestionsUnroll, Zenon
<1>3. PastQuestions(p, 0) = f[0] /\ PastQuestions(p, 1) = f[1]
  BY <1>1, <1>2, SameOffsets, Zenon
<1>4. f[0] = HeaderLen /\ f[1] = PastName(p, f[1 - 1]) + 4
  BY <1>1, <1>2, Zenon DEF PassesQuestions
<1> QED
  BY <1>1, <1>3, <1>4, Zenon DEF HeaderLen

\* What dns_parse_questions makes of the question at an offset.
QuestionAt(p, at) ==
    [qname |-> ParseQname(p, at).name, qtype |-> U16(p, PastName(p, at)),
     qclass |-> U16(p, PastName(p, at) + 2)]

\* Question q is the one that packet p has at offset at.
FoundAt(p, at, q) ==
    /\ at \in Nat
    /\ q.qname = ParseQname(p, at).name /\ q.qtype = U16(p, PastName(p, at))
    /\ q.qclass = U16(p, PastName(p, at) + 2)

\* dns_parse_questions finds each question where it is, as many as it looks for, and ends
\* where they do.
LEMMA QuestionsFound ==
    ASSUME NEW p \in Seq(Octet), NEW N \in Nat, NEW qs, qs = FirstQuestions(p, N).questions
    PROVE  /\ \A i \in 1 .. Len(qs) : FoundAt(p, PastQuestions(p, i - 1), qs[i])
           /\ Len(qs) = N
           /\ FirstQuestions(p, N).offset = PastQuestions(p, N)
<1>1. PICK parse : ParsesQuestions(p, N, parse)
  BY QuestionsUnroll, Zenon
<1> DEFINE end == FirstQuestions(p, N).offset
<1>2. /\ parse[0] = [questions |-> <<>>, offset |-> HeaderLen]
      /\ \A n \in 1 .. N : parse[n] = OneMore(p, parse[n - 1])
      /\ \A n \in 0 .. N : parse[n] \in Questioned
      /\ N \in Nat /\ qs = parse[N].questions /\ end = parse[N].offset
  BY <1>1, Zenon DEF ParsesQuestions
<1> HIDE DEF end
<1>3. p \in Seq(Nat)
  BY Widened, OctetsAreNumbers, Zenon
<1> DEFINE f == [n \in 0 .. N |-> parse[n].offset]
<1>4. ASSUME NEW n \in 1 .. N
      PROVE  /\ parse[n - 1].offset \in Nat
             /\ parse[n].questions =
                   Append(parse[n - 1].questions, QuestionAt(p, parse[n - 1].offset))
             /\ parse[n].offset = PastName(p, parse[n - 1].offset) + 4
  <2> DEFINE at == parse[n - 1].offset
  <2>1. n - 1 \in 0 .. N
    BY <1>2
  <2>2. parse[n - 1] \in Questioned
    BY <1>2, <2>1
  <2>3. at \in Nat
    BY <2>2 DEF Questioned
  <2>4. ParseQname(p, at).next = PastName(p, at)
    BY <1>3, <2>3, SameEnd, Zenon
  <2>5. parse[n] = OneMore(p, parse[n - 1])
    BY <1>2
  <2>6. parse[n] = [questions |-> Append(parse[n - 1].questions, QuestionAt(p, at)),
                    offset |-> PastName(p, at) + 4]
    BY <2>4, <2>5, Zenon DEF OneMore, QuestionAt
  <2> QED
    BY <2>3, <2>6
<1>5. PassesQuestions(p, f, N)
  <2>1. f[0] = HeaderLen
    BY <1>2
  <2>2. ASSUME NEW k \in 1 .. N PROVE f[k] = PastName(p, f[k - 1]) + 4
    <3>1. k \in 0 .. N /\ k - 1 \in 0 .. N
      BY <1>2
    <3>2. parse[k].offset = PastName(p, parse[k - 1].offset) + 4
      BY <1>4
    <3> QED
      BY <3>1, <3>2
  <2>3. ASSUME NEW k \in 0 .. N PROVE f[k] \in Nat
    BY <1>2 DEF Questioned
  <2> HIDE DEF f
  <2> QED
    BY <2>1, <2>2, <2>3, Zenon DEF PassesQuestions
<1>6. ASSUME NEW n \in 0 .. N PROVE PastQuestions(p, n) = parse[n].offset
  <2>1. PastQuestions(p, n) = f[n]
    <3> HIDE DEF f
    <3> QED
      BY <1>2, <1>3, <1>5, SameOffsets, Zenon
  <2> QED
    BY <2>1
<1> DEFINE Found(n) == /\ parse[n].questions \in Seq(Asking) /\ Len(parse[n].questions) = n
                       /\ \A i \in 1 .. n :
                             FoundAt(p, PastQuestions(p, i - 1), parse[n].questions[i])
           T == {n \in 0 .. N : Found(n)}
<1>7. 0 \in T
  <2>1. parse[0].questions = <<>> /\ Len(<<>>) = 0 /\ <<>> \in Seq(Asking) /\ 0 \in 0 .. N
    BY <1>2
  <2>2. Found(0)
    BY <2>1
  <2> HIDE DEF Found
  <2> QED
    BY <2>1, <2>2
<1>8. ASSUME NEW n \in 1 .. N, n - 1 \in T PROVE n \in T
  <2> DEFINE old == parse[n - 1].questions
             new == parse[n].questions
             at == parse[n - 1].offset
             q == QuestionAt(p, at)
  <2>1. n \in 0 .. N /\ n - 1 \in 0 .. N /\ n - 1 + 1 = n
    BY <1>2
  <2>2. old \in Seq(Asking) /\ Len(old) = n - 1
    BY <1>8
  <2>3. new = Append(old, q) /\ at \in Nat
    BY <1>4
  <2>4. new \in Seq(Asking)
    BY <1>2, <2>1 DEF Questioned
  <2>5. FoundAt(p, at, q)
    BY <2>3 DEF FoundAt, QuestionAt
  <2> HIDE DEF q, new
  <2>6. Len(new) = n /\ new[n] = q /\ \A i \in 1 .. n - 1 : new[i] = old[i]
    BY <2>2, <2>3
  <2>7. ASSUME NEW i \in 1 .. n PROVE FoundAt(p, PastQuestions(p, i - 1), new[i])
    <3>1. CASE i = n
      BY <1>6, <2>1, <2>5, <2>6, <3>1
    <3>2. CASE i # n
      <4>1. i \in 1 .. n - 1
        BY <3>2
      <4>2. FoundAt(p, PastQuestions(p, i - 1), old[i])
        BY <1>8, <4>1
      <4> QED
        BY <2>6, <4>1, <4>2
    <3> QED
      BY <3>1, <3>2
  <2> QED
    BY <2>1, <2>4, <2>6, <2>7 DEF new
<1> HIDE DEF T
<1>9. 0 .. N \subseteq T
  BY <1>2, <1>7, <1>8, UpTo
<1>10. Found(N)
  <2>1. N \in T
    BY <1>2, <1>9
  <2> HIDE DEF Found
  <2> QED
    BY <2>1 DEF T
<1>11. N \in 0 .. N
  BY <1>2
<1> QED
  BY <1>2, <1>6, <1>10, <1>11, Zenon DEF end

\* As many as the header says.
LEMMA AllFound ==
    ASSUME NEW p \in Seq(Octet), NEW qs, qs = ParseQuestions(p).questions
    PROVE  /\ \A i \in 1 .. Len(qs) : FoundAt(p, PastQuestions(p, i - 1), qs[i])
           /\ Len(qs) = Header(p).qdcount
           /\ ParseQuestions(p).offset = PastQuestions(p, Header(p).qdcount)
BY ParsedQuestions, QuestionsFound, Zenon DEF ParseQuestions

-----------------------------------------------------------------------------
(***************************************************************************)
(* Names that fit their array.                                             *)
(***************************************************************************)
\* One step back in the recursion of QnameLen.
LenLeft(p, rest, left, k) ==
    IF left = 0 \/ k >= Len(p) THEN MaxDomainLen + 1
    ELSE IF U8(p, k) = 0 THEN 0
    ELSE IF U8(p, k) >= 192 THEN rest[U16(p, k) % 16384]
    ELSE U8(p, k) + 1 + rest[k + U8(p, k) + 1]

LEMMA LenLeftTyped ==
    ASSUME NEW p \in Seq(Nat), NEW rest \in Ends, NEW left \in Nat, NEW k \in Nat
    PROVE  LenLeft(p, rest, left, k) \in Nat
<1> DEFINE n == U8(p, k)
           jump == U16(p, k) % 16384
<1>1. n \in Nat /\ U16(p, k) \in Nat /\ MaxDomainLen + 1 \in Nat
  <2>1. n \in Nat /\ U16(p, k) \in Nat
    BY OctetsOfPacket, OctetsAreNumbers, Zenon
  <2>2. MaxDomainLen \in Nat
    BY LengthsAssumption, Zenon
  <2> QED
    BY <2>1, <2>2
<1>2. jump \in Nat
  BY <1>1
<1>3. LenLeft(p, rest, left, k) =
         IF left = 0 \/ k >= Len(p) THEN MaxDomainLen + 1
         ELSE IF n = 0 THEN 0 ELSE IF n >= 192 THEN rest[jump] ELSE n + 1 + rest[k + n + 1]
  BY DEF LenLeft
<1> HIDE DEF n, jump
<1>4. rest[jump] \in Nat /\ rest[k + n + 1] \in Nat
  <2>1. k + n + 1 \in Nat
    BY <1>1
  <2> QED
    BY <1>2, <2>1 DEF Ends
<1>5. n + 1 + rest[k + n + 1] \in Nat
  BY <1>1, <1>4
<1> QED
  BY <1>1, <1>3, <1>4, <1>5

\* QnameLen, step by step.
Lengthens(p, len) ==
    /\ \A left \in 0 .. Len(p) :
          /\ len[left] \in Ends
          /\ \A k \in Nat : len[left][k] = LenLeft(p, len[left - 1], left, k)
    /\ \A at \in Nat : QnameLen(p, at) = len[Len(p)][at]

LEMMA LenUnrolls ==
    ASSUME NEW p \in Seq(Nat)
    PROVE  \E len : Lengthens(p, len)
<1> DEFINE
      len[left \in 0 .. Len(p)] == [k \in Nat |-> LenLeft(p, len[left - 1], left, k)]
      Rec(g) == [left \in 0 .. Len(p) |-> [k \in Nat |-> LenLeft(p, g[left - 1], left, k)]]
      start == [k \in Nat |-> MaxDomainLen + 1]
      step == [f \in (1 .. Len(p)) \X Ends |-> [k \in Nat |-> LenLeft(p, f[2], f[1], k)]]
<1>1. ASSUME NEW at \in Nat PROVE QnameLen(p, at) = len[Len(p)][at]
  BY DEF QnameLen, LenLeft
<1>2. start \in Ends
  <2>1. MaxDomainLen \in Nat
    BY LengthsAssumption, Zenon
  <2> QED
    BY <2>1 DEF Ends
<1>3. step \in [(1 .. Len(p)) \X Ends -> Ends]
  <2>1. ASSUME NEW f \in (1 .. Len(p)) \X Ends, NEW k \in Nat
        PROVE  LenLeft(p, f[2], f[1], k) \in Nat
    <3>1. f[2] \in Ends /\ f[1] \in Nat
      OBVIOUS
    <3> QED
      BY <3>1, LenLeftTyped
  <2>2. ASSUME NEW f \in (1 .. Len(p)) \X Ends
        PROVE  [k \in Nat |-> LenLeft(p, f[2], f[1], k)] \in Ends
    BY <2>1 DEF Ends
  <2> QED
    BY <2>2
<1>4. Len(p) \in Nat
  OBVIOUS
<1>5. PICK f \in [0 .. Len(p) -> Ends] : Unrolls(f, start, step, Len(p))
  <2> HIDE DEF start, step
  <2> QED
    BY <1>2, <1>3, <1>4, Recursion
<1>6. \A g, k : LenLeft(p, g, 0, k) = MaxDomainLen + 1
  BY DEF LenLeft
<1>7. ASSUME NEW left \in 0 .. Len(p)
      PROVE  f[left] = [k \in Nat |-> LenLeft(p, f[left - 1], left, k)]
  <2>1. CASE left = 0
    <3>1. f[left] = start
      BY <1>5, <2>1 DEF Unrolls
    <3> QED
      BY <1>6, <2>1, <3>1
  <2>2. CASE left # 0
    <3>1. left \in 1 .. Len(p) /\ left - 1 \in 0 .. Len(p)
      BY <1>4, <2>2
    <3>2. f[left - 1] \in Ends
      BY <3>1
    <3>3. f[left] = step[<<left, f[left - 1]>>]
      BY <1>5, <3>1 DEF Unrolls
    <3>4. <<left, f[left - 1]>> \in (1 .. Len(p)) \X Ends
      BY <3>1, <3>2
    <3> QED
      BY <3>3, <3>4
  <2> QED
    BY <2>1, <2>2
<1>8. f = Rec(f)
  BY <1>7
<1>9. len = Rec(len)
  <2>1. len = CHOOSE g : g = Rec(g)
    OBVIOUS
  <2> HIDE DEF len, Rec
  <2> QED
    BY <1>8, <2>1
<1> HIDE DEF len
<1>10. \A left \in 0 .. Len(p) :
          len[left] = [k \in Nat |-> LenLeft(p, len[left - 1], left, k)]
  BY <1>9
<1> DEFINE T == {left \in 0 .. Len(p) : len[left] \in Ends}
<1>11. 0 \in T
  <2>1. 0 \in 0 .. Len(p)
    BY <1>4
  <2>2. len[0] = start
    BY <1>6, <1>10, <2>1
  <2> QED
    BY <1>2, <2>1, <2>2
<1>12. ASSUME NEW n \in 1 .. Len(p), n - 1 \in T PROVE n \in T
  <2>1. n \in 0 .. Len(p) /\ n \in Nat /\ len[n - 1] \in Ends
    BY <1>4, <1>12
  <2>2. \A k \in Nat : LenLeft(p, len[n - 1], n, k) \in Nat
    BY <2>1, LenLeftTyped
  <2>3. len[n] = [k \in Nat |-> LenLeft(p, len[n - 1], n, k)]
    BY <1>10, <2>1
  <2>4. len[n] \in Ends
    BY <2>2, <2>3 DEF Ends
  <2> QED
    BY <2>1, <2>4
<1> HIDE DEF T
<1>13. 0 .. Len(p) \subseteq T
  BY <1>4, <1>11, <1>12, UpTo
<1>14. \A left \in 0 .. Len(p) : len[left] \in Ends
  BY <1>13 DEF T
<1>15. \A left \in 0 .. Len(p) : \A k \in Nat :
          len[left][k] = LenLeft(p, len[left - 1], left, k)
  BY <1>10
<1> QED
  BY <1>1, <1>14, <1>15 DEF Lengthens

\* Of a name that fits dns_parse_qname writes as many characters as QnameLen says, and
\* more than one: a label and its dot.
WrittenAs(name, length) == length <= MaxDomainLen => Len(name) = length /\ length # 1

LEMMA QnameWritten ==
    ASSUME NEW p \in Seq(Nat), NEW at \in Nat, NEW parse, ParsesNumbers(p, parse)
    PROVE  QnameLen(p, at) \in Nat /\ WrittenAs(parse[Len(p)][at].name, QnameLen(p, at))
<1>1. PICK len : Lengthens(p, len)
  BY LenUnrolls, Zenon
<1>2. Len(p) \in Nat /\ MaxDomainLen \in Nat
  BY LengthsAssumption, LenProperties, Zenon
<1> DEFINE AllWritten(left) == \A k \in Nat : WrittenAs(parse[left][k].name, len[left][k])
           T == {left \in 0 .. Len(p) : AllWritten(left)}
<1>3. ASSUME NEW left \in 0 .. Len(p), left # 0 => AllWritten(left - 1), NEW k \in Nat
      PROVE  WrittenAs(parse[left][k].name, len[left][k])
  <2> DEFINE n == U8(p, k)
             jump == U16(p, k) % 16384
             rest == parse[left - 1]
             restLen == len[left - 1]
             label == Octets(p, k + 1, k + n + 1)
  <2>1. n \in Nat /\ jump \in Nat
    <3>1. n \in Nat /\ U16(p, k) \in Nat
      BY OctetsOfPacket, OctetsAreNumbers, Zenon
    <3> QED
      BY <3>1
  <2>2. /\ n = 0 => parse[left][k].name = <<>>
        /\ n # 0 /\ left # 0 /\ n >= 192 => parse[left][k].name = rest[jump].name
        /\ n # 0 /\ left # 0 /\ ~(n >= 192) =>
              parse[left][k] = [rest[k + n + 1] EXCEPT !.name = label \o <<Dot>> \o @]
    <3>1. parse[left][k] = LabelsLeft(p, rest, left, k)
      BY Zenon DEF ParsesNumbers, ParsesNames
    <3> HIDE DEF rest
    <3> QED
      BY <3>1 DEF LabelsLeft
  <2>3. len[left][k] =
           IF left = 0 \/ k >= Len(p) THEN MaxDomainLen + 1
           ELSE IF n = 0 THEN 0
           ELSE IF n >= 192 THEN restLen[jump] ELSE n + 1 + restLen[k + n + 1]
    <3>1. len[left][k] = LenLeft(p, restLen, left, k)
      BY <1>1, Zenon DEF Lengthens
    <3> QED
      BY <3>1 DEF LenLeft
  <2>5. left # 0 => left - 1 \in 0 .. Len(p) /\ rest \in [Nat -> Parsed(Nat)] /\ restLen \in Ends
    <3>1. left # 0 => left - 1 \in 0 .. Len(p)
      BY <1>2
    <3> QED
      BY <1>1, <3>1, Zenon DEF ParsesNumbers, ParsesNames, Lengthens
  <2>6. left # 0 => \A i \in Nat : WrittenAs(rest[i].name, restLen[i])
    BY <1>3
  <2> HIDE DEF n, jump, rest, restLen
  <2>4. label \in Seq(Nat) /\ Len(label) = n
    BY <2>1, LabelLength, Zenon DEF label
  <2> HIDE DEF label
  <2>7. CASE left = 0 \/ k >= Len(p)
    <3>1. len[left][k] = MaxDomainLen + 1
      BY <2>3, <2>7
    <3>2. ~(MaxDomainLen + 1 <= MaxDomainLen)
      BY <1>2
    <3> QED
      BY <3>1, <3>2, Zenon DEF WrittenAs
  <2>8. CASE ~(left = 0 \/ k >= Len(p)) /\ n = 0
    <3>1. len[left][k] = 0 /\ parse[left][k].name = <<>>
      BY <2>2, <2>3, <2>8
    <3>2. Len(<<>>) = 0 /\ 0 # 1
      OBVIOUS
    <3> QED
      BY <3>1, <3>2, Zenon DEF WrittenAs
  <2>9. CASE ~(left = 0 \/ k >= Len(p)) /\ n # 0 /\ n >= 192
    <3>1. len[left][k] = restLen[jump]
      BY <2>3, <2>9
    <3> QED
      BY <2>1, <2>2, <2>6, <2>9, <3>1, Zenon
  <2>10. CASE ~(left = 0 \/ k >= Len(p)) /\ n # 0 /\ ~(n >= 192)
    <3> DEFINE next == k + n + 1
               r == rest[next]
    <3>1. len[left][k] = n + 1 + restLen[next]
      BY <2>3, <2>10
    <3>2. parse[left][k] = [r EXCEPT !.name = label \o <<Dot>> \o @]
      BY <2>2, <2>10
    <3>3. next \in Nat
      BY <2>1
    <3> HIDE DEF next
    <3>4. r \in Parsed(Nat) /\ restLen[next] \in Nat
      BY <2>5, <2>10, <3>3 DEF Ends
    <3>5. WrittenAs(r.name, restLen[next])
      BY <2>6, <2>10, <3>3, Zenon
    <3> HIDE DEF r
    <3>6. parse[left][k].name = label \o <<Dot>> \o r.name /\ r.name \in Seq(Nat)
      BY <3>2, <3>4 DEF Parsed
    <3>7. Len(label \o <<Dot>> \o r.name) = Len(label) + 1 + Len(r.name)
      BY <2>4, <3>6, LabelParts, Zenon
    <3>8. \A i \in Nat, j \in Nat :
             i # 0 /\ i + 1 + j <= MaxDomainLen => j <= MaxDomainLen /\ i + 1 + j # 1
      BY <1>2
    <3> QED
      BY <2>1, <2>4, <2>10, <3>1, <3>4, <3>5, <3>6, <3>7, <3>8, Zenon DEF WrittenAs
  <2> QED
    BY <2>7, <2>8, <2>9, <2>10, Zenon
<1>4. 0 \in T
  <2>1. 0 \in 0 .. Len(p)
    BY <1>2
  <2> QED
    BY <1>3, <2>1
<1>5. ASSUME NEW n \in 1 .. Len(p), n - 1 \in T PROVE n \in T
  <2>1. n \in 0 .. Len(p)
    BY <1>2
  <2> QED
    BY <1>3, <1>5, <2>1
<1> HIDE DEF T
<1>6. 0 .. Len(p) \subseteq T
  BY <1>2, <1>4, <1>5, UpTo
<1>7. Len(p) \in 0 .. Len(p)
  BY <1>2
<1>8. QnameLen(p, at) = len[Len(p)][at]
  BY <1>1, Zenon DEF Lengthens
<1>9. AllWritten(Len(p))
  <2> HIDE DEF AllWritten
  <2> QED
    BY <1>6, <1>7, Zenon DEF T
<1>10. len[Len(p)] \in Ends
  BY <1>1, <1>7, Zenon DEF Lengthens
<1>11. len[Len(p)][at] \in Nat
  BY <1>10 DEF Ends
<1> QED
  BY <1>8, <1>9, <1>11, Zenon

\* So a name that fits is not the root.
LEMMA FittingName ==
    ASSUME NEW p \in Seq(Nat), NEW at \in Nat, NameFits(p, at)
    PROVE  ToUpper(ParseQname(p, at).name) # <<>>
<1>1. PICK parse : ParsesNumbers(p, parse)
  BY NumbersUnroll, Zenon
<1> DEFINE r == parse[Len(p)][at].name
           length == QnameLen(p, at)
<1>2. length \in 1 .. MaxDomainLen /\ length \in Nat /\ WrittenAs(r, length)
  BY <1>1, QnameWritten, Zenon DEF NameFits
<1>3. parse[Len(p)][at] \in Parsed(Nat)
  <2>1. Len(p) \in 0 .. Len(p)
    OBVIOUS
  <2>2. parse[Len(p)] \in [Nat -> Parsed(Nat)]
    BY <1>1, <2>1, Zenon DEF ParsesNumbers, ParsesNames
  <2> QED
    BY <2>2
<1>4. r \in Seq(Nat) /\ ParseQname(p, at).name = SubSeq(r, 1, Len(r) - 1)
  BY <1>1, <1>3 DEF Parsed, ParsesNumbers
<1> HIDE DEF r, length
<1>5. Len(r) > 1
  <2>1. MaxDomainLen \in Nat
    BY LengthsAssumption, Zenon
  <2> QED
    BY <1>2, <2>1 DEF WrittenAs
<1>6. SubSeq(r, 1, Len(r) - 1) \in Seq(Nat) /\ Len(SubSeq(r, 1, Len(r) - 1)) # 0
  <2> DEFINE m == Len(r) - 1
             s == SubSeq(r, 1, m)
  <2>1. 1 \in 1 .. Len(r) + 1 /\ m \in 1 - 1 .. Len(r) /\ m - 1 + 1 # 0
    BY <1>4, <1>5
  <2> HIDE DEF m
  <2>2. s \in Seq(Nat) /\ Len(s) = m - 1 + 1
    BY <1>4, <2>1, PlacedSubSeq
  <2> QED
    BY <2>1, <2>2, Zenon DEF m
<1>7. ParseQname(p, at).name \in Seq(Nat) /\ Len(ParseQname(p, at).name) # 0
  BY <1>4, <1>6, Zenon
<1>8. Len(ToUpper(ParseQname(p, at).name)) # 0 /\ Len(<<>>) = 0
  BY <1>7, UpperPlaces
<1> QED
  BY <1>8

\* The questions fit if their names do, where they are.
LEMMA QuestionsFitting ==
    ASSUME NEW p \in Seq(Octet)
    PROVE  QuestionsFit(p) <=>
               \A n \in 0 .. Header(p).qdcount - 1 : NameFits(p, PastQuestions(p, n))
<1> DEFINE N == Header(p).qdcount
<1>1. N \in Nat
  BY ParsedQuestions, Zenon
<1>2. QuestionsFit(p) <=> \A n \in 0 .. N - 1 : NameFits(p, FirstQuestions(p, n).offset)
  BY Zenon DEF QuestionsFit
<1> HIDE DEF N
<1>3. \A n \in 0 .. N - 1 : n \in Nat
  BY <1>1
<1>4. \A n \in 0 .. N - 1 : FirstQuestions(p, n).offset = PastQuestions(p, n)
  BY <1>3, QuestionsFound, Zenon
<1>5. QuestionsFit(p) <=> \A n \in 0 .. N - 1 : NameFits(p, PastQuestions(p, n))
  BY <1>2, <1>4, Zenon
<1> QED
  BY <1>5, Zenon DEF N

-----------------------------------------------------------------------------
(***************************************************************************)
(* Questions, from the client's packet to the query.                       *)
(***************************************************************************)
\* What lies where in the query for a question.
QueryLaid(b, q) ==
    /\ b \in Seq(Nat) /\ Placed(b, 4, Put16(1))
    /\ NamePut(b, 12, q.qname)
    /\ Placed(b, 12 + (Len(q.qname) + 2), Put16(q.qtype))
    /\ Len(b) = 12 + (Len(q.qname) + 2) + 4

LEMMA QueryParts ==
    ASSUME NEW q \in Asking, NEW id \in Nat
    PROVE  QueryLaid(QueryBuf(q, id), q)
<1> DEFINE h == [id |-> id, qr |-> 0, rcode |-> 0, qdcount |-> 1, ancount |-> 0,
                 nscount |-> 0, arcount |-> 0]
           front == PutHeader(h)
           name == ToQname(q.qname)
           type == Put16(q.qtype)
           class == Put16(q.qclass)
           qd == Put16(1)
<1>1. /\ h.id \in Nat /\ h.qr \in Nat /\ h.rcode \in Nat /\ h.qdcount \in Nat
      /\ h.ancount \in Nat /\ h.nscount \in Nat /\ h.arcount \in Nat /\ h.qdcount = 1
  OBVIOUS
<1>2. QueryBuf(q, id) = front \o name \o type \o class
  BY Zenon DEF QueryBuf
<1> HIDE DEF h
<1>3. front \in Seq(Nat) /\ Len(front) = 12 /\ Placed(front, 4, qd)
  <2>1. LaidPairs(front, Put16(h.qdcount), Put16(h.ancount), Put16(h.nscount))
    BY <1>1, HeaderPut, Zenon
  <2> QED
    BY <1>1, <2>1, Zenon DEF LaidPairs
<1>4. q.qname \in Seq(Octet) /\ q.qtype \in Nat /\ q.qclass \in Nat
  BY DEF Asking
<1>5. /\ name \in Seq(Nat) /\ type \in Seq(Nat) /\ class \in Seq(Nat)
      /\ Len(name) = Len(q.qname) + 2 /\ Len(type) = 2 /\ Len(class) = 2
  BY <1>4, QnameTyped, Put16Number, Zenon
<1>6. qd \in Seq(Nat) /\ 4 \in Nat /\ 12 \in Nat
  <2>1. 1 \in Nat /\ 4 \in Nat /\ 12 \in Nat
    OBVIOUS
  <2> QED
    BY <2>1, Put16Number, Zenon
<1> HIDE DEF front, name, type, class, qd
<1> DEFINE s == front \o name
           t == s \o type
           b == t \o class
<1>7. /\ s \in Seq(Nat) /\ Len(s) = 12 + Len(name) /\ Len(s) \in Nat
      /\ Placed(s, 4, qd) /\ Placed(s, 12, name)
  <2>1. s \in Seq(Nat) /\ Len(s) = Len(front) + Len(name) /\ Placed(s, Len(front), name)
    BY <1>3, <1>5, PlacedConcat, Zenon
  <2>2. Placed(s, 4, qd)
    BY <1>3, <1>5, <1>6, PlacedFront, Zenon
  <2> HIDE DEF s
  <2>3. Len(s) \in Nat
    BY <2>1
  <2> QED
    BY <1>3, <2>1, <2>2, <2>3, Zenon
<1> HIDE DEF s
<1>8. /\ t \in Seq(Nat) /\ Len(t) = Len(s) + 2
      /\ Placed(t, 4, qd) /\ Placed(t, 12, name) /\ Placed(t, Len(s), type)
  <2>1. t \in Seq(Nat) /\ Len(t) = Len(s) + Len(type) /\ Placed(t, Len(s), type)
    BY <1>5, <1>7, PlacedConcat, Zenon
  <2>2. Placed(t, 4, qd) /\ Placed(t, 12, name)
    BY <1>5, <1>6, <1>7, PlacedFront, Zenon
  <2> QED
    BY <1>5, <2>1, <2>2, Zenon
<1> HIDE DEF t
<1>9. /\ b \in Seq(Nat) /\ Len(b) = Len(t) + 2
      /\ Placed(b, 4, qd) /\ Placed(b, 12, name) /\ Placed(b, Len(s), type)
  <2>1. b \in Seq(Nat) /\ Len(b) = Len(t) + Len(class)
    BY <1>5, <1>8, PlacedConcat, Zenon
  <2>2. Placed(b, 4, qd) /\ Placed(b, 12, name) /\ Placed(b, Len(s), type)
    BY <1>5, <1>6, <1>7, <1>8, PlacedFront, Zenon
  <2> QED
    BY <1>5, <2>1, <2>2, Zenon
<1> HIDE DEF b
<1>10. Len(s) = 12 + (Len(q.qname) + 2)
  BY <1>5, <1>7, Zenon
<1>11. Len(b) = 12 + (Len(q.qname) + 2) + 4
  <2> DEFINE l == Len(q.qname) + 2
  <2>1. l \in Nat
    BY <1>4
  <2>2. Len(b) = Len(t) + 2 /\ Len(t) = Len(s) + 2 /\ Len(s) = 12 + l
    BY <1>8, <1>9, <1>10
  <2> HIDE DEF l
  <2>3. Len(b) = 12 + l + 4
    BY <2>1, <2>2
  <2> QED
    BY <2>3 DEF l
<1>12. QueryBuf(q, id) = b
  BY <1>2, Zenon DEF b, t, s
<1> QED
  BY <1>5, <1>9, <1>10, <1>11, <1>12, Zenon DEF QueryLaid, NamePut, name, type, qd

\* What the server reads of the query for a question found in the client's packet.
AsksFor(b, p, at, q) ==
    /\ Header(b).qdcount = 1
    /\ QuestionOf(b, 1) = [name |-> Name(p, at), qtype |-> U16(p, PastName(p, at))]
    /\ PastQuestions(b, 1) = Len(b)

LEMMA QueryRead ==
    ASSUME NEW p \in Seq(Octet), NEW at \in Nat, NEW q \in Asking,
           q.qname = ToUpper(ParseQname(p, at).name), q.qtype = U16(p, PastName(p, at)),
           q.qname # <<>>, Plain(Name(p, at)),
           NEW b, QueryLaid(b, q)
    PROVE  AsksFor(b, p, at, q)
<1> DEFINE l == Len(q.qname)
<1>1. /\ b \in Seq(Nat) /\ Placed(b, 4, Put16(1))
      /\ NamePut(b, 12, q.qname) /\ Placed(b, 12 + (l + 2), Put16(q.qtype))
      /\ Len(b) = 12 + (l + 2) + 4
  BY Zenon DEF QueryLaid
<1>2. q.qtype \in Nat /\ l \in Nat
  BY DEF Asking
<1>3. Name(b, 12) = Name(p, at) /\ PastName(b, 12) = 12 + l + 2
  <2>1. 12 \in Nat
    OBVIOUS
  <2> QED
    <3>1. NameRead(p, at, q.qname)
      BY Zenon DEF NameRead
    <3>2. NameBack(b, 12, q.qname, p, at)
      BY <1>1, <2>1, <3>1, NameReadBack, Zenon
    <3> QED
      BY <3>2, Zenon DEF NameBack
<1> HIDE DEF l
<1>4. 12 + l + 2 = 12 + (l + 2) /\ 12 + (l + 2) \in Nat /\ 4 \in Nat /\ 1 \in Nat /\ 1 - 1 = 0
  BY <1>2
<1>5. U16(b, 4) = 1 /\ U16(b, 12 + (l + 2)) = q.qtype
  BY <1>1, <1>2, <1>4, Put16Read, Zenon
<1>6. PastQuestions(b, 0) = 12 /\ PastQuestions(b, 1) = PastName(b, 12) + 4
  BY <1>1, FirstQuestion, Zenon
<1>7. QuestionOf(b, 1) = [name |-> Name(b, 12), qtype |-> U16(b, PastName(b, 12))]
  BY <1>4, <1>6, Zenon DEF QuestionOf
<1>8. Header(b).qdcount = 1
  BY <1>5 DEF Header
<1>9. QuestionOf(b, 1) = [name |-> Name(p, at), qtype |-> U16(p, PastName(p, at))]
  BY <1>3, <1>4, <1>5, <1>7, Zenon
<1>10. PastQuestions(b, 1) = Len(b)
  BY <1>1, <1>3, <1>4, <1>6, Zenon
<1> QED
  BY <1>8, <1>9, <1>10, Zenon DEF AsksFor

\* The question is the one that the client's packet has at an offset, in upper case.
AskedAt(p, at, q) ==
    /\ at \in Nat
    /\ q.qname = ToUpper(ParseQname(p, at).name) /\ q.qtype = U16(p, PastName(p, at))
    /\ q.qclass = U16(p, PastName(p, at) + 2)

\* Each question parsed is one of the packet's, and the query under way is for the current
\* one; a root name among them is undefined.
QuestionsKept ==
    /\ pc = "recv" => status = "up" /\ query = QueryBuf(Current, 258)
    /\ \A i \in 1 .. Len(questions) : AskedAt(buf, PastQuestions(buf, i - 1), questions[i])
    /\ pc = "parse" => questions = <<>>
    /\ status = "up" => \A i \in 1 .. Len(questions) : questions[i].qname # <<>>

\* At first there are no questions.
LEMMA InitKeepsQuestions == Init => QuestionsKept
<1>1. Len(<<>>) = 0 /\ 1 .. 0 = {}
  OBVIOUS
<1> QED
  BY <1>1 DEF Init, QuestionsKept

\* Where the questions stay and no query is sent, all stays as it is.
LEMMA LeavingKeepsQuestions ==
    ASSUME QuestionsKept, UNCHANGED <<questions, buf>>, pc' \notin {"recv", "parse"},
           status' = "up" => status = "up"
    PROVE  QuestionsKept'
BY DEF QuestionsKept, AskedAt

\* ParseRequest finds the questions.
LEMMA ParseKeepsQuestions ==
    ASSUME RulesFollowed, QuestionsKept, ParseRequest
    PROVE  QuestionsKept'
<1> DEFINE qs == ParseQuestions(buf).questions
<1>1. /\ questions' = [i \in DOMAIN qs |-> [qs[i] EXCEPT !.qname = ToUpper(@)]]
      /\ status' = "up" => QuestionsFit(buf)
      /\ pc' \notin {"recv", "parse"} /\ buf' = buf
  BY DEF ParseRequest, Goto
<1>2. qs \in Seq(Asking) /\ buf \in Seq(Octet)
  BY ParsedQuestions DEF RulesFollowed, Questioned
<1>3. /\ \A i \in 1 .. Len(qs) : FoundAt(buf, PastQuestions(buf, i - 1), qs[i])
      /\ Len(qs) = Header(buf).qdcount
  BY <1>2, AllFound, Zenon
<1> HIDE DEF qs
<1>4. DOMAIN qs = 1 .. Len(qs) /\ Len(qs) \in Nat
  BY <1>2
<1>5. questions' \in Seq(Asking)
  BY NextFollows DEF RulesFollowed, Next
<1>6. DOMAIN questions' = 1 .. Len(questions') /\ DOMAIN questions' = 1 .. Len(qs)
  <2>1. DOMAIN questions' = DOMAIN qs
    BY <1>1
  <2> QED
    BY <1>4, <1>5, <2>1
<1>7. ASSUME NEW i \in 1 .. Len(questions')
      PROVE  AskedAt(buf, PastQuestions(buf, i - 1), questions'[i])
  <2>1. i \in 1 .. Len(qs)
    BY <1>6
  <2>2. qs[i] \in Asking /\ FoundAt(buf, PastQuestions(buf, i - 1), qs[i])
    BY <1>2, <1>3, <2>1
  <2>3. questions'[i] = [qs[i] EXCEPT !.qname = ToUpper(@)]
    BY <1>1, <1>4, <2>1
  <2> QED
    BY <2>2, <2>3 DEF Asking, FoundAt, AskedAt
<1>8. ASSUME status' = "up", NEW i \in 1 .. Len(questions')
      PROVE  questions'[i].qname # <<>>
  <2> DEFINE at == PastQuestions(buf, i - 1)
  <2>1. AskedAt(buf, at, questions'[i])
    BY <1>7, Zenon
  <2>2. i - 1 \in 0 .. Header(buf).qdcount - 1
    <3>1. i \in 1 .. Len(qs)
      BY <1>6
    <3> QED
      BY <1>3, <1>4, <3>1
  <2>3. NameFits(buf, at)
    BY <1>1, <1>2, <1>8, <2>2, QuestionsFitting, Zenon
  <2>4. buf \in Seq(Nat) /\ at \in Nat
    BY <1>2, <2>1, Widened, OctetsAreNumbers, Zenon DEF AskedAt
  <2> HIDE DEF at
  <2>5. ToUpper(ParseQname(buf, at).name) # <<>>
    BY <2>3, <2>4, FittingName, Zenon
  <2> QED
    BY <2>1, <2>5, Zenon DEF AskedAt
<1> QED
  BY <1>1, <1>7, <1>8 DEF QuestionsKept

\* The steps, one by one.
LEMMA NextKeepsQuestions == RulesFollowed /\ QuestionsKept /\ [Next]_vars => QuestionsKept'
<1> SUFFICES ASSUME RulesFollowed, QuestionsKept, [Next]_vars PROVE QuestionsKept'
  OBVIOUS
<1>1. CASE ParseRequest
  BY <1>1, ParseKeepsQuestions
<1>2. CASE ParseResponse \/ Refuse \/ SearchOutside \/ GiveUp \/ ReplyFailure \/ ReplyAnswers
  <2>1. /\ UNCHANGED <<questions, buf>> /\ pc' \notin {"recv", "parse"}
        /\ status' = "up" => status = "up"
    BY <1>2 DEF ParseResponse, Refuse, SearchOutside, GiveUp, ReplyFailure, ReplyAnswers, Goto
  <2> QED
    BY <2>1, LeavingKeepsQuestions
<1>3. CASE AnswerByRule
  <2>1. PICK answer : Collect(answer, NULL)
    BY <1>3, Zenon DEF AnswerByRule
  <2>2. /\ UNCHANGED <<questions, buf>> /\ pc' \notin {"recv", "parse"}
        /\ status' = "up" => status = "up"
    BY <2>1 DEF Collect, Goto
  <2> QED
    BY <2>2, LeavingKeepsQuestions
<1>4. CASE Ask
  <2>1. /\ pc' = "recv" /\ status = "up" /\ query' = QueryBuf(Current, 258)
        /\ UNCHANGED <<questions, buf, answers, status>>
    BY <1>4 DEF Ask, Resolving, Goto
  <2> QED
    BY <2>1 DEF QuestionsKept, AskedAt, Current
<1>5. ASSUME NEW a \in Answers, Receive(a) PROVE QuestionsKept'
  <2>1. /\ UNCHANGED <<questions, buf>> /\ pc' \notin {"recv", "parse"}
        /\ status' = "up" => status = "up"
    BY <1>5 DEF Receive, Collect, Goto
  <2> QED
    BY <2>1, LeavingKeepsQuestions
<1>6. CASE UNCHANGED vars
  BY <1>6 DEF vars, QuestionsKept, AskedAt, Current
<1> QED
  BY <1>1, <1>2, <1>3, <1>4, <1>5, <1>6, Zenon DEF Next

\* While an answer is awaited, the server was asked what the client asked.
LEMMA KeptAsks == RulesFollowed /\ QuestionsKept => QueryAsksTheQuestion
<1> DEFINE n == Len(answers)
           at == PastQuestions(buf, (n + 1) - 1)
           asked == QuestionOf(buf, n + 1)
<1> SUFFICES ASSUME RulesFollowed, QuestionsKept, pc = "recv", ~HasDot(asked)
             PROVE  /\ Header(query).qdcount = 1
                    /\ QuestionOf(query, 1) = asked
                    /\ PastQuestions(query, 1) = Len(query)
  BY Zenon DEF QueryAsksTheQuestion
<1>1. n + 1 \in 1 .. Len(questions) /\ n < Len(questions)
  BY AppendAnything DEF RulesFollowed
<1>2. Current \in Asking /\ Current = questions[n + 1] /\ buf \in Seq(Octet)
  BY <1>1, CurrentRule DEF Current, RulesFollowed
<1>3. /\ AskedAt(buf, at, Current) /\ Current.qname # <<>> /\ query = QueryBuf(Current, 258)
  BY <1>1, <1>2 DEF QuestionsKept
<1> HIDE DEF n
<1>4. asked = [name |-> Name(buf, at), qtype |-> U16(buf, PastName(buf, at))]
  BY Zenon DEF QuestionOf
<1> HIDE DEF at, asked
<1>5. Plain(Name(buf, at))
  <2> DEFINE name == Name(buf, at)
  <2>1. name \in Labels
    <3>1. buf \in Seq(Nat) /\ at \in Nat
      BY <1>2, <1>3, Widened, OctetsAreNumbers, Zenon DEF AskedAt
    <3> QED
      BY <3>1, NameTyped, Zenon
  <2>2. asked.name = name
    BY <1>4
  <2> HIDE DEF name
  <2>3. ASSUME NEW i \in 1 .. Len(name) PROVE NoDots(name[i])
    <3>1. name[i] \in Seq(Nat) /\ name[i] \in ToSet(name)
      BY <2>1 DEF Labels, ToSet
    <3>2. Dot \notin ToSet(name[i])
      BY <2>2, <3>1, Zenon DEF HasDot
    <3>3. DOMAIN name[i] = 1 .. Len(name[i])
      BY <3>1
    <3> QED
      BY <3>2, <3>3, Zenon DEF NoDots, ToSet
  <2> QED
    BY <2>3, Zenon DEF Plain, name
<1>6. QueryLaid(query, Current)
  <2>1. 258 \in Nat
    OBVIOUS
  <2> QED
    BY <1>2, <1>3, <2>1, QueryParts, Zenon
<1>7. AsksFor(query, buf, at, Current)
  BY <1>2, <1>3, <1>5, <1>6, QueryRead, Zenon DEF AskedAt
<1> QED
  BY <1>4, <1>7, Zenon DEF AsksFor

\* dns_query_buf_new and what it is given, the names that dns_parse_qname reads: whatever
\* the client's packet is, however its names are compressed, the server is asked one
\* question, the current one of the client's, and nothing is behind it.
THEOREM ClientsQuestionAsked == Spec => []QueryAsksTheQuestion
BY KeptAsks, InitFollows, NextFollows, InitKeepsQuestions, NextKeepsQuestions, PTL DEF Spec
-----------------------------------------------------------------------------
(***************************************************************************)
(* Types: what is sent is octets.                                          *)
(***************************************************************************)
\* Two octets read are a word, and a word is written as two octets.
LEMMA WordPut ==
    ASSUME NEW n \in Word
    PROVE  Put16(n) \in Seq(Octet) /\ Len(Put16(n)) = 2 /\ n \in Nat
<1>1. n \in Nat /\ n \div 256 \in 0 .. 255 /\ n % 256 \in 0 .. 255
  BY DEF Word
<1>2. n \div 256 \in Octet /\ n % 256 \in Octet
  BY <1>1 DEF Octet
<1> HIDE DEF Octet
<1> QED
  BY <1>1, <1>2 DEF Put16

LEMMA WordOfOctets ==
    ASSUME NEW high \in Octet, NEW low \in Octet
    PROVE  256 * high + low \in Word
<1>1. high \in Nat /\ high <= 255 /\ low \in Nat /\ low <= 255
  BY DEF Octet
<1>2. 256 * high + low \in Nat /\ 256 * high + low < 65536
  BY <1>1
<1> QED
  BY <1>2 DEF Word

LEMMA WordRead ==
    ASSUME NEW p \in Seq(Octet), NEW k \in Nat
    PROVE  U16(p, k) \in Word
<1>1. k + 1 \in Nat /\ Readable(Octet)
  BY OctetsAreNumbers
<1>2. U8(p, k) \in Octet /\ U8(p, k + 1) \in Octet
  BY <1>1, OctetsOfPacket, Zenon
<1> QED
  BY <1>2, WordOfOctets, Zenon DEF U16

\* The header of a packet, whose fields fit it, and with which a packet may begin.
LEMMA HeaderTyped ==
    ASSUME NEW p \in Seq(Octet)
    PROVE  /\ Header(p).id \in Word /\ Header(p).qdcount \in Word /\ Header(p).ancount \in Word
           /\ Header(p).nscount \in Word /\ Header(p).arcount \in Word
<1>1. 0 \in Nat /\ 4 \in Nat /\ 6 \in Nat /\ 8 \in Nat /\ 10 \in Nat
  OBVIOUS
<1>2. /\ U16(p, 0) \in Word /\ U16(p, 4) \in Word /\ U16(p, 6) \in Word
      /\ U16(p, 8) \in Word /\ U16(p, 10) \in Word
  BY <1>1, WordRead, Zenon
<1> QED
  BY <1>2 DEF Header

LEMMA PairAdded ==
    ASSUME NEW S, NEW s \in Seq(S), NEW t \in Seq(S), Len(t) = 2
    PROVE  s \o t \in Seq(S) /\ Len(s \o t) = Len(s) + 2
BY PlacedConcat, Zenon

LEMMA HeaderWritten ==
    ASSUME NEW h, h.id \in Word, h.qr \in {0, 1}, h.rcode \in Octet, h.qdcount \in Word,
           h.ancount \in Word, h.nscount \in Word, h.arcount \in Word
    PROVE  PutHeader(h) \in Seq(Octet) /\ Len(PutHeader(h)) = 12
<1> DEFINE id == Put16(h.id)
           flags == <<128 * h.qr, h.rcode>>
           qd == Put16(h.qdcount)
           an == Put16(h.ancount)
           ns == Put16(h.nscount)
           ar == Put16(h.arcount)
<1>1. flags \in Seq(Octet) /\ Len(flags) = 2
  <2>1. 128 * h.qr \in Octet
    BY DEF Octet
  <2> HIDE DEF Octet
  <2> QED
    BY <2>1
<1>2. /\ id \in Seq(Octet) /\ qd \in Seq(Octet) /\ an \in Seq(Octet) /\ ns \in Seq(Octet)
      /\ ar \in Seq(Octet)
      /\ Len(id) = 2 /\ Len(qd) = 2 /\ Len(an) = 2 /\ Len(ns) = 2 /\ Len(ar) = 2
  BY WordPut, Zenon
<1>3. PutHeader(h) = id \o flags \o qd \o an \o ns \o ar
  BY Zenon DEF PutHeader
<1> HIDE DEF id, flags, qd, an, ns, ar
<1>4. /\ id \o flags \o qd \o an \o ns \o ar \in Seq(Octet)
      /\ Len(id \o flags \o qd \o an \o ns \o ar) = 12
  <2> DEFINE a == id \o flags
             b == a \o qd
             c == b \o an
             d == c \o ns
             e == d \o ar
  <2>1. a \in Seq(Octet) /\ Len(a) = Len(id) + 2
    BY <1>1, <1>2, PairAdded, Zenon
  <2> HIDE DEF a
  <2>2. b \in Seq(Octet) /\ Len(b) = Len(a) + 2
    BY <1>1, <1>2, <2>1, PairAdded, Zenon
  <2> HIDE DEF b
  <2>3. c \in Seq(Octet) /\ Len(c) = Len(b) + 2
    BY <1>1, <1>2, <2>2, PairAdded, Zenon
  <2> HIDE DEF c
  <2>4. d \in Seq(Octet) /\ Len(d) = Len(c) + 2
    BY <1>1, <1>2, <2>3, PairAdded, Zenon
  <2> HIDE DEF d
  <2>5. e \in Seq(Octet) /\ Len(e) = Len(d) + 2
    BY <1>1, <1>2, <2>4, PairAdded, Zenon
  <2> HIDE DEF e
  <2>6. Len(e) = 12
    BY <1>2, <2>1, <2>2, <2>3, <2>4, <2>5
  <2> QED
    BY <2>5, <2>6, Zenon DEF a, b, c, d, e
<1> QED
  BY <1>3, <1>4, Zenon

-----------------------------------------------------------------------------
(***************************************************************************)
(* What a name that was read is made of.                                   *)
(***************************************************************************)
\* From each place of s up to last a dot, or the end behind s, is less than 192 places away.
DotsNear(s, last) ==
    \A i \in 1 .. last : \E e \in i .. last : e < i + 192 /\ (e = Len(s) + 1 \/ s[e] = Dot)

\* In upper case every letter of it has a child of its own in the trie.
Searchable(s) == \A i \in 1 .. Len(s) : Up(s[i]) \in Alphabet

\* r, with a dot behind each label, is what dns_parse_qname reads of the labels.
ReadOf(labels, r) ==
    /\ r \in Seq(Nat) /\ DotsNear(r, Len(r))
    /\ labels = <<>> \/ Len(r) <= 1 => labels = <<>> /\ r = <<>>
    /\ (\A i \in 1 .. Len(labels) : InAlphabet(labels[i])) => Searchable(r)

LEMMA NothingRead == ReadOf(<<>>, <<>>)
<1>1. <<>> \in Seq(Nat) /\ Len(<<>>) = 0
  OBVIOUS
<1>2. DotsNear(<<>>, 0) /\ Searchable(<<>>)
  BY <1>1 DEF DotsNear, Searchable
<1> QED
  BY <1>1, <1>2, Zenon DEF ReadOf

\* Reading one label more.
LEMMA DotBehindLabel ==
    ASSUME NEW label \in Seq(Nat), Len(label) < 192, NEW rest \in Seq(Nat),
           DotsNear(rest, Len(rest)), NEW r, r = label \o <<Dot>> \o rest
    PROVE  DotsNear(r, Len(r))
<1> DEFINE n == Len(label)
           l == Len(rest)
<1>1. /\ r \in Seq(Nat) /\ Len(r) = n + 1 + l
      /\ r[n + 1] = Dot
      /\ \A j \in 1 .. l : r[n + 1 + j] = rest[j]
  BY LabelParts
<1>2. n \in Nat /\ l \in Nat /\ n < 192
  OBVIOUS
<1>3. \A i \in 1 .. l : \E e \in i .. l : e < i + 192 /\ rest[e] = Dot
  BY <1>2 DEF DotsNear
<1> HIDE DEF n, l
<1> SUFFICES ASSUME NEW i \in 1 .. n + 1 + l
             PROVE  \E e \in i .. n + 1 + l : e < i + 192 /\ r[e] = Dot
  BY <1>1, Zenon DEF DotsNear
<1>4. CASE i <= n + 1
  <2>1. n + 1 \in i .. n + 1 + l /\ n + 1 < i + 192
    BY <1>2, <1>4
  <2> QED
    BY <1>1, <2>1
<1>5. CASE ~(i <= n + 1)
  <2>1. i - (n + 1) \in 1 .. l
    BY <1>2, <1>5
  <2>2. PICK e \in i - (n + 1) .. l : e < i - (n + 1) + 192 /\ rest[e] = Dot
    BY <1>3, <2>1
  <2>3. e \in 1 .. l /\ n + 1 + e \in i .. n + 1 + l /\ n + 1 + e < i + 192
    BY <1>2, <2>1, <2>2
  <2> QED
    BY <1>1, <2>2, <2>3
<1> QED
  BY <1>4, <1>5

LEMMA LettersOfLabel ==
    ASSUME NEW label \in Seq(Nat), InAlphabet(ToUpper(label)), NEW rest \in Seq(Nat),
           Searchable(rest), NEW r, r = label \o <<Dot>> \o rest
    PROVE  Searchable(r)
<1> DEFINE n == Len(label)
           l == Len(rest)
<1>1. /\ r \in Seq(Nat) /\ Len(r) = n + 1 + l
      /\ \A j \in 1 .. n : r[j] = label[j]
      /\ r[n + 1] = Dot
      /\ \A j \in 1 .. l : r[n + 1 + j] = rest[j]
  BY LabelParts
<1>2. n \in Nat /\ l \in Nat
  OBVIOUS
<1>3. \A j \in 1 .. n : Up(label[j]) \in Alphabet
  <2>1. /\ ToUpper(label) \in Seq(Nat) /\ Len(ToUpper(label)) = n
        /\ \A j \in 1 .. n : ToUpper(label)[j] = Up(label[j])
    BY UpperPlaces
  <2>2. DOMAIN ToUpper(label) = 1 .. n
    BY <2>1, LenProperties
  <2> QED
    BY <2>1, <2>2, Zenon DEF InAlphabet
<1>4. Up(Dot) \in Alphabet
  BY DEF Up, Dot, Alphabet
<1>5. \A j \in 1 .. l : Up(rest[j]) \in Alphabet
  BY Zenon DEF Searchable
<1> HIDE DEF n, l
<1> SUFFICES ASSUME NEW i \in 1 .. n + 1 + l PROVE Up(r[i]) \in Alphabet
  BY <1>1, Zenon DEF Searchable
<1>6. CASE i \in 1 .. n
  BY <1>1, <1>3, <1>6, Zenon
<1>7. CASE i = n + 1
  BY <1>1, <1>4, <1>7, Zenon
<1>8. CASE i > n + 1
  <2>1. i - (n + 1) \in 1 .. l /\ n + 1 + (i - (n + 1)) = i
    BY <1>2, <1>8
  <2> QED
    BY <1>1, <1>5, <2>1, Zenon
<1>9. i \in 1 .. n \/ i = n + 1 \/ i > n + 1
  BY <1>2
<1> QED
  BY <1>6, <1>7, <1>8, <1>9, Zenon

LEMMA LabelMore ==
    ASSUME NEW label \in Seq(Nat), Len(label) > 0, Len(label) < 192,
           NEW labels \in Labels, NEW rest, ReadOf(labels, rest)
    PROVE  ReadOf(<<ToUpper(label)>> \o labels, label \o <<Dot>> \o rest)
<1> DEFINE r == label \o <<Dot>> \o rest
           upper == ToUpper(label)
           all == <<upper>> \o labels
<1>1. /\ rest \in Seq(Nat) /\ DotsNear(rest, Len(rest))
      /\ (\A i \in 1 .. Len(labels) : InAlphabet(labels[i])) => Searchable(rest)
  BY Zenon DEF ReadOf
<1>2. r \in Seq(Nat) /\ Len(r) = Len(label) + 1 + Len(rest) /\ Len(rest) \in Nat /\ Len(label) \in Nat
  BY <1>1, LabelParts, LenProperties, Zenon
<1>3. upper \in Seq(Nat)
  BY UpperPlaces, Zenon
<1> HIDE DEF upper
<1>4. /\ Len(all) = 1 + Len(labels) /\ Len(labels) \in Nat /\ all[1] = upper
      /\ \A i \in 1 .. Len(labels) : all[i + 1] = labels[i]
  BY <1>3, OneAndLabels, Zenon
<1> HIDE DEF all
<1>5. all # <<>>
  BY <1>4
<1>6. DotsNear(r, Len(r))
  BY <1>1, DotBehindLabel, Zenon
<1>7. ASSUME \A i \in 1 .. Len(all) : InAlphabet(all[i]) PROVE Searchable(r)
  <2>1. 1 \in 1 .. Len(all) /\ \A i \in 1 .. Len(labels) : i + 1 \in 1 .. Len(all)
    BY <1>4
  <2>2. InAlphabet(upper) /\ \A i \in 1 .. Len(labels) : InAlphabet(labels[i])
    BY <1>4, <1>7, <2>1, Zenon
  <2> QED
    BY <1>1, <2>2, LettersOfLabel, Zenon DEF upper
<1> HIDE DEF r
<1>8. ~(Len(r) <= 1)
  BY <1>2
<1> QED
  BY <1>2, <1>5, <1>6, <1>7, <1>8, Zenon DEF ReadOf, r, all, upper

\* The labels of a name, and the characters read of it.
LabelsRead(p, at, name) ==
    \E r : ReadOf(Name(p, at), r) /\ name = SubSeq(r, 1, Len(r) - 1)

LEMMA NameReads ==
    ASSUME NEW p \in Seq(Octet), NEW at \in Nat
    PROVE  LabelsRead(p, at, ParseQname(p, at).name)
<1>1. p \in Seq(Nat)
  BY Widened, OctetsAreNumbers, Zenon
<1>2. PICK parse : ParsesNumbers(p, parse)
  BY <1>1, NumbersUnroll, Zenon
<1>3. PICK name : /\ \A left \in 0 .. Len(p) :
                         /\ name[left] \in [Nat -> Labels]
                         /\ \A k \in Nat : name[left][k] = NameLeft(p, name[left - 1], left, k)
                  /\ \A k \in Nat : Name(p, k) = name[Len(p)][k]
  BY <1>1, NameUnrolls, Zenon
<1>4. \A left \in 0 .. Len(p) :
          /\ parse[left] \in [Nat -> Parsed(Nat)]
          /\ \A k \in Nat : parse[left][k] = LabelsLeft(p, parse[left - 1], left, k)
  BY <1>2, Zenon DEF ParsesNumbers, ParsesNames
<1> DEFINE Sound(left) == \A k \in Nat : ReadOf(name[left][k], parse[left][k].name)
           T == {left \in 0 .. Len(p) : Sound(left)}
<1>5. Len(p) \in Nat
  BY <1>1, LenProperties
<1>6. 0 \in T
  <2>1. 0 \in 0 .. Len(p)
    BY <1>5
  <2>2. ASSUME NEW k \in Nat PROVE ReadOf(name[0][k], parse[0][k].name)
    <3>1. parse[0][k] = [name |-> <<>>, next |-> k + 1]
      <4>1. parse[0][k] = LabelsLeft(p, parse[0 - 1], 0, k)
        BY <1>4, <2>1, Zenon
      <4> QED
        BY <4>1 DEF LabelsLeft
    <3>2. name[0][k] = <<>>
      BY <1>3, <2>1, Zenon DEF NameLeft
    <3>3. parse[0][k].name = <<>>
      BY <3>1
    <3> QED
      BY <3>2, <3>3, NothingRead, Zenon
  <2> QED
    BY <2>1, <2>2
<1>7. ASSUME NEW left \in 1 .. Len(p), left - 1 \in T PROVE left \in T
  <2>1. left \in 0 .. Len(p) /\ left - 1 \in 0 .. Len(p) /\ left # 0
    BY <1>5
  <2>2. \A k \in Nat : ReadOf(name[left - 1][k], parse[left - 1][k].name)
    BY <1>7
  <2> HIDE DEF T
  <2>3. ASSUME NEW k \in Nat PROVE ReadOf(name[left][k], parse[left][k].name)
    <3> DEFINE n == U8(p, k)
               next == k + n + 1
               label == Octets(p, k + 1, k + n + 1)
    <3>1. n \in Nat /\ (Compressed(p, k) => Elsewhere(p, k) \in Nat)
      BY <1>1, OffsetOfPair, Zenon
    <3>2. next \in Nat
      BY <3>1
    <3>3. parse[left - 1][next] \in Parsed(Nat)
      BY <1>4, <2>1, <3>2
    <3>4. name[left][k] = NameLeft(p, name[left - 1], left, k)
      BY <1>3, <2>1, Zenon
    <3>5. OneLabel(p, parse[left - 1], left, k, parse[left][k].name)
      <4>1. parse[left][k].name = LabelsLeft(p, parse[left - 1], left, k).name
        BY <1>4, <2>1, Zenon
      <4> QED
        BY <3>3, <4>1, NameOfLabels, Zenon
    <3>6. CASE n = 0
      <4>1. parse[left][k].name = <<>> /\ name[left][k] = <<>>
        BY <3>4, <3>5, <3>6, Zenon DEF OneLabel, NameLeft
      <4> QED
        BY <4>1, NothingRead, Zenon
    <3>7. CASE n # 0 /\ Compressed(p, k)
      <4>1. /\ parse[left][k].name = parse[left - 1][Elsewhere(p, k)].name
            /\ name[left][k] = name[left - 1][Elsewhere(p, k)]
        BY <2>1, <3>4, <3>5, <3>7, Zenon DEF OneLabel, NameLeft
      <4> QED
        BY <2>2, <3>1, <3>7, <4>1, Zenon
    <3>8. CASE n # 0 /\ ~Compressed(p, k)
      <4>1. /\ parse[left][k].name = label \o <<Dot>> \o parse[left - 1][next].name
            /\ name[left][k] = <<ToUpper(label)>> \o name[left - 1][next]
        BY <2>1, <3>4, <3>5, <3>8, Zenon DEF OneLabel, NameLeft
      <4>2. label \in Seq(Nat) /\ Len(label) = n
        BY <1>1, <3>1, LabelLength, Zenon
      <4> HIDE DEF n
      <4>3. Len(label) > 0 /\ Len(label) < 192
        <5>1. ~(n >= 192)
          BY <3>8, Zenon DEF Compressed, n
        <5> HIDE DEF label
        <5> QED
          BY <3>1, <3>8, <4>2, <5>1
      <4>4. name[left - 1][next] \in Labels
        BY <1>3, <2>1, <3>2
      <4>5. ReadOf(name[left - 1][next], parse[left - 1][next].name)
        BY <2>2, <3>2, Zenon
      <4> QED
        BY <4>1, <4>2, <4>3, <4>4, <4>5, LabelMore, Zenon
    <3> QED
      BY <3>6, <3>7, <3>8, Zenon
  <2> QED
    BY <2>1, <2>3 DEF T
<1> HIDE DEF T
<1>8. 0 .. Len(p) \subseteq T
  BY <1>5, <1>6, <1>7, UpTo
<1>9. ReadOf(Name(p, at), parse[Len(p)][at].name)
  <2>1. Len(p) \in T
    BY <1>5, <1>8
  <2>2. Sound(Len(p))
    BY <2>1 DEF T
  <2> QED
    BY <1>3, <2>2, Zenon
<1>10. ParseQname(p, at).name = SubSeq(parse[Len(p)][at].name, 1, Len(parse[Len(p)][at].name) - 1)
  <2>1. parse[Len(p)][at] \in Parsed(Nat)
    BY <1>4, <1>5
  <2>2. ParseQname(p, at) = [parse[Len(p)][at] EXCEPT !.name = SubSeq(@, 1, Len(@) - 1)]
    BY <1>2, Zenon DEF ParsesNumbers
  <2> QED
    BY <2>1, <2>2 DEF Parsed
<1> QED
  BY <1>9, <1>10, Zenon DEF LabelsRead

\* In upper case and without the last dot: no label is longer than a length can say, and
\* what is not searchable, or is no name at all, was read so.
Qname(labels, name) ==
    /\ name \in Seq(Nat) /\ DotsNear(name, Len(name) + 1)
    /\ name = <<>> => labels = <<>>
    /\ (\A i \in 1 .. Len(labels) : InAlphabet(labels[i])) => InAlphabet(name)

LEMMA NoQname == Qname(<<>>, <<>>)
<1>1. <<>> \in Seq(Nat) /\ Len(<<>>) = 0 /\ DOMAIN <<>> = {}
  OBVIOUS
<1>2. DotsNear(<<>>, 0 + 1)
  BY <1>1 DEF DotsNear
<1>3. InAlphabet(<<>>)
  BY <1>1, Zenon DEF InAlphabet
<1> QED
  BY <1>1, <1>2, <1>3, Zenon DEF Qname

\* Behind the last label there is the end instead of a dot.
LEMMA LastDotIsEnd ==
    ASSUME NEW r \in Seq(Nat), DotsNear(r, Len(r)), NEW name \in Seq(Nat),
           Len(r) = Len(name) + 1, \A i \in 1 .. Len(name) : name[i] = Up(r[i])
    PROVE  DotsNear(name, Len(name) + 1)
<1> DEFINE n == Len(name)
<1>1. n \in Nat
  BY LenProperties
<1>2. \A i \in 1 .. n + 1 : \E e \in i .. n + 1 : e < i + 192 /\ (e = n + 1 + 1 \/ r[e] = Dot)
  BY Zenon DEF DotsNear
<1> HIDE DEF n
<1>3. ASSUME NEW i \in 1 .. n + 1
      PROVE  \E e \in i .. n + 1 : e < i + 192 /\ (e = n + 1 \/ name[e] = Dot)
  <2>1. PICK e \in i .. n + 1 : e < i + 192 /\ (e = n + 1 + 1 \/ r[e] = Dot)
    BY <1>2, Zenon
  <2>2. r[e] = Dot /\ (e = n + 1 \/ e \in 1 .. n)
    BY <1>1, <2>1
  <2>3. CASE e = n + 1
    BY <2>1, <2>3, Zenon
  <2>4. CASE e \in 1 .. n
    <3>1. name[e] = Up(Dot)
      BY <2>2, <2>4, Zenon DEF n
    <3>2. Up(Dot) = Dot
      BY UpTwice, Zenon
    <3> QED
      BY <2>1, <3>1, <3>2, Zenon
  <2> QED
    BY <2>2, <2>3, <2>4, Zenon
<1> QED
  BY <1>3, Zenon DEF DotsNear, n

LEMMA QnameRead ==
    ASSUME NEW p \in Seq(Octet), NEW at \in Nat, NEW name,
           name = ToUpper(ParseQname(p, at).name)
    PROVE  Qname(Name(p, at), name)
<1> DEFINE labels == Name(p, at)
<1>1. PICK r : ReadOf(labels, r) /\ ParseQname(p, at).name = SubSeq(r, 1, Len(r) - 1)
  BY NameReads, Zenon DEF LabelsRead
<1> HIDE DEF labels
<1>2. r \in Seq(Nat) /\ name = ToUpper(SubSeq(r, 1, Len(r) - 1))
  BY <1>1, Zenon DEF ReadOf
<1>3. CASE name = <<>>
  <2>1. Len(r) <= 1
    <3>1. SUFFICES ASSUME ~(Len(r) <= 1) PROVE FALSE
      OBVIOUS
    <3> DEFINE n == Len(r)
               l == n - 1
    <3>2. 1 \in 1 .. n + 1 /\ l \in 1 - 1 .. n /\ l - 1 + 1 = l /\ l # 0
      <4>1. n \in Nat
        BY <1>2, LenProperties
      <4> HIDE DEF n
      <4>2. n > 1
        BY <3>1, <4>1 DEF n
      <4> QED
        BY <4>1, <4>2
    <3> HIDE DEF l
    <3>3. SubSeq(r, 1, l) \in Seq(Nat) /\ Len(SubSeq(r, 1, l)) = l
      BY <1>2, <3>2, PlacedSubSeq, Zenon
    <3>4. Len(name) = l
      BY <1>2, <3>3, UpperPlaces, Zenon DEF l
    <3> QED
      BY <1>3, <3>2, <3>4
  <2>2. labels = <<>>
    BY <1>1, <2>1, Zenon DEF ReadOf
  <2> QED
    BY <1>3, <2>2, NoQname, Zenon DEF labels
<1>4. CASE name # <<>>
  <2>1. WithDot(name, r)
    BY <1>2, <1>4, LastDotDropped, Zenon
  <2> DEFINE d == ToUpper(r)
  <2>2. /\ name \in Seq(Nat) /\ Len(d) = Len(name) + 1 /\ Len(name) \in Nat
        /\ \A i \in 1 .. Len(name) : name[i] = d[i]
    BY <2>1, Zenon DEF WithDot
  <2>3. d \in Seq(Nat) /\ Len(d) = Len(r) /\ \A i \in 1 .. Len(r) : d[i] = Up(r[i])
    BY <1>2, UpperPlaces, Zenon
  <2> HIDE DEF d
  <2>4. Len(r) = Len(name) + 1 /\ \A i \in 1 .. Len(name) : i \in 1 .. Len(r)
    BY <2>2, <2>3
  <2>5. \A i \in 1 .. Len(name) : name[i] = Up(r[i])
    BY <2>2, <2>3, <2>4, Zenon
  <2>6. DotsNear(name, Len(name) + 1)
    BY <1>1, <1>2, <2>2, <2>4, <2>5, LastDotIsEnd, Zenon DEF ReadOf
  <2>7. Searchable(r) => InAlphabet(name)
    <3>1. DOMAIN name = 1 .. Len(name)
      BY <2>2, LenProperties
    <3> QED
      BY <2>4, <2>5, <3>1, Zenon DEF Searchable, InAlphabet
  <2> QED
    BY <1>1, <1>4, <2>2, <2>6, <2>7, Zenon DEF ReadOf, Qname, labels
<1> QED
  BY <1>3, <1>4, Zenon

\* The length of a label fits an octet, so that what dns_to_qname writes does.
LEMMA LabelFits ==
    ASSUME NEW name \in Seq(Octet), DotsNear(name, Len(name) + 1),
           NEW s \in 1 .. Len(name) + 1, s = 1 \/ name[s - 1] = Dot
    PROVE  ToQname(name)[s] \in Octet
<1> DEFINE n == Len(name)
           U == {e \in s .. n + 1 : e = n + 1 \/ name[e] = Dot}
<1>1. n \in Nat /\ s \in Nat /\ name \in Seq(Nat)
  <2>1. name \in Seq(Nat)
    BY Widened, OctetsAreNumbers, Zenon
  <2> QED
    BY <2>1, LenProperties
<1>2. PICK e \in s .. n + 1 : e < s + 192 /\ (e = n + 1 \/ name[e] = Dot)
  BY Zenon DEF DotsNear
<1> HIDE DEF n
<1>3. e \in U /\ U \in SUBSET Nat
  BY <1>1, <1>2
<1>4. PICK m \in U : \A k \in U : m <= k
  <2> HIDE DEF U
  <2>1. U # {}
    BY <1>3
  <2> QED
    BY <1>3, <2>1, LeastNumber, Zenon
<1>5. m \in s .. n + 1 /\ (m = n + 1 \/ name[m] = Dot) /\ m <= e
  BY <1>3, <1>4
<1>6. \A j \in s .. m - 1 : name[j] # Dot
  <2>1. SUFFICES ASSUME NEW j \in s .. m - 1, name[j] = Dot PROVE FALSE
    OBVIOUS
  <2>2. j \in U /\ ~(m <= j)
    BY <1>1, <1>5, <2>1
  <2> QED
    BY <1>4, <2>2
<1>7. LabelIn(name, s, m)
  BY <1>5, <1>6, Zenon DEF LabelIn, n
<1>8. ToQname(name)[s] = m - s
  BY <1>1, <1>7, LabelWritten, Zenon DEF Spelled
<1>9. m - s \in Nat /\ m - s < 192
  BY <1>1, <1>2, <1>5
<1> DEFINE length == m - s
<1> HIDE DEF length
<1>10. length \in Nat /\ length < 192 => length \in Octet
  BY DEF Octet
<1> QED
  BY <1>8, <1>9, <1>10 DEF length

LEMMA QnameOctets ==
    ASSUME NEW name \in Seq(Octet), DotsNear(name, Len(name) + 1)
    PROVE  ToQname(name) \in Seq(Octet) /\ Len(ToQname(name)) = Len(name) + 2
<1> DEFINE n == Len(name)
           q == ToQname(name)
<1>1. name \in Seq(Nat) /\ n \in Nat
  <2>1. name \in Seq(Nat)
    BY Widened, OctetsAreNumbers, Zenon
  <2> QED
    BY <2>1, LenProperties
<1>2. q \in Seq(Nat) /\ Len(q) = n + 2
  BY QnameTyped, Zenon
<1>3. ASSUME NEW i \in 1 .. n + 2 PROVE q[i] \in Octet
  <2>1. CASE i = n + 2
    <3>1. q[n + 2] = 0
      BY <1>1, QnameEnds, Zenon
    <3>2. 0 \in Octet
      BY OctetsAreNumbers DEF Readable
    <3> QED
      BY <2>1, <3>1, <3>2, Zenon
  <2>2. CASE i # n + 2 /\ (i = 1 \/ name[i - 1] = Dot)
    <3>1. i \in 1 .. n + 1
      BY <1>1, <2>2
    <3> QED
      BY <2>2, <3>1, LabelFits, Zenon
  <2>3. CASE i # n + 2 /\ ~(i = 1 \/ name[i - 1] = Dot)
    <3>1. i - 1 \in 1 .. n /\ i \in 1 .. n + 2
      BY <1>1, <2>3
    <3>2. q[i] = name[i - 1]
      BY <2>3, <3>1 DEF ToQname
    <3>3. name[i - 1] \in Octet
      BY <3>1, ElementOfSeq, Zenon
    <3> QED
      BY <3>2, <3>3, Zenon
  <2> QED
    BY <2>1, <2>2, <2>3, Zenon
<1> HIDE DEF n, q
<1>4. q = [i \in 1 .. n + 2 |-> q[i]] /\ n + 2 \in Nat
  BY <1>1, <1>2
<1> QED
  BY <1>2, <1>3, <1>4, AnySequence, Zenon DEF n, q

-----------------------------------------------------------------------------
(***************************************************************************)
(* Where the questions of a client's datagram are.                         *)
(***************************************************************************)
\* A question behind the header, before its own length is known.
QuestionPart(q) == q.name \o Put16(q.qtype) \o Put16(1)

LEMMA QuestionParts ==
    ASSUME NEW q \in [name : Seq(Octet), qtype : Word]
    PROVE  /\ QuestionPart(q) \in Seq(Octet) /\ Len(QuestionPart(q)) = Len(q.name) + 4
           /\ q.name \in Seq(Octet) /\ Len(q.name) \in Nat
           /\ Placed(QuestionPart(q), 0, q.name)
<1> DEFINE name == q.name
           type == Put16(q.qtype)
           class == Put16(1)
<1>1. name \in Seq(Octet) /\ q.qtype \in Word /\ 1 \in Word
  BY DEF Word
<1>2. /\ type \in Seq(Octet) /\ Len(type) = 2
      /\ class \in Seq(Octet) /\ Len(class) = 2
  BY <1>1, WordPut, Zenon
<1> HIDE DEF type, class
<1> DEFINE s == name \o type
           t == s \o class
<1>3. QuestionPart(q) = t
  BY DEF QuestionPart, type, class
<1> HIDE DEF name
<1>4. s \in Seq(Octet) /\ Len(s) = Len(name) + 2 /\ Len(name) \in Nat /\ Placed(s, 0, name)
  BY <1>1, <1>2, PlacedConcat, Zenon
<1> HIDE DEF s
<1>5. t \in Seq(Octet) /\ Len(t) = Len(s) + 2 /\ Placed(t, 0, name)
  <2>1. t \in Seq(Octet) /\ Len(t) = Len(s) + 2
    BY <1>2, <1>4, PlacedConcat, Zenon
  <2>2. 0 \in Nat
    OBVIOUS
  <2> QED
    BY <1>1, <1>2, <1>4, <2>1, <2>2, PlacedFront, Zenon
<1> HIDE DEF t
<1>6. Len(t) = Len(name) + 4
  BY <1>4, <1>5
<1> QED
  BY <1>1, <1>3, <1>4, <1>5, <1>6, Zenon DEF name

\* Question i of a datagram ends behind ends[i].
AskedWhere(p, qs, ends) ==
    /\ ends \in [0 .. Len(qs) -> Nat]
    /\ ends[0] = 12 /\ ends[Len(qs)] = Len(p)
    /\ \A i \in 1 .. Len(qs) : /\ ends[i] = ends[i - 1] + Len(qs[i].name) + 4
                               /\ Placed(p, ends[i - 1], qs[i].name)

LEMMA MessageGiven ==
    ASSUME NEW m \in Messages
    PROVE  /\ m.id \in Word /\ m.qr \in {0, 1} /\ m.arcount \in Word
           /\ m.questions \in Seq([name : Seq(Octet), qtype : Word])
           /\ ClientPacket(m) \in Seq(Octet) /\ Len(ClientPacket(m)) <= ReplyRoom
           /\ \A i \in DOMAIN m.questions : NameInPacket(m.questions[i].name, i # 1)
<1>1. m \in [id : Word, qr : {0, 1}, arcount : Word,
             questions : Seq([name : Seq(Octet), qtype : Word])]
  BY QuestionsAssumption, Zenon
<1>2. /\ ClientPacket(m) \in Seq(Octet) /\ Len(ClientPacket(m)) <= ReplyRoom
      /\ \A i \in DOMAIN m.questions : NameInPacket(m.questions[i].name, i # 1)
  BY MessagesAssumption, QuestionsAssumption, Zenon
<1>3. /\ m.id \in Word /\ m.qr \in {0, 1} /\ m.arcount \in Word
      /\ m.questions \in Seq([name : Seq(Octet), qtype : Word])
  BY <1>1
<1> QED
  BY <1>2, <1>3, Zenon

LEMMA ClientLaid ==
    ASSUME NEW m \in Messages, NEW p, p = ClientPacket(m)
    PROVE  /\ Header(p).qdcount = Len(m.questions)
           /\ Header(p).ancount = 0 /\ Header(p).nscount = 0
           /\ \E ends : AskedWhere(p, m.questions, ends)
<1> DEFINE qs == m.questions
           n == Len(qs)
           h == [id |-> m.id, qr |-> m.qr, rcode |-> 0, qdcount |-> n,
                 ancount |-> 0, nscount |-> 0, arcount |-> m.arcount]
           parts == [i \in DOMAIN qs |->
                        qs[i].name \o Put16(qs[i].qtype) \o Put16(1)]
           front == PutHeader(h)
           body == FlattenSeq(parts)
<1>1. p = front \o body
  BY Zenon DEF ClientPacket
<1>2. /\ qs \in Seq([name : Seq(Octet), qtype : Word]) /\ n \in Nat /\ DOMAIN qs = 1 .. n
      /\ m.id \in Nat /\ m.qr \in Nat /\ m.arcount \in Nat
  <2>1. /\ m.id \in Word /\ m.qr \in {0, 1} /\ m.arcount \in Word
        /\ qs \in Seq([name : Seq(Octet), qtype : Word])
    BY MessageGiven, Zenon
  <2>2. m.id \in Nat /\ m.arcount \in Nat
    BY <2>1 DEF Word
  <2>3. n \in Nat /\ DOMAIN qs = 1 .. n
    BY <2>1, LenProperties, Zenon
  <2>4. m.qr \in Nat
    BY <2>1
  <2> QED
    BY <2>1, <2>2, <2>3, <2>4, Zenon
<1> HIDE DEF qs
<1>3. \A i \in 1 .. n : /\ QuestionPart(qs[i]) \in Seq(Octet)
                        /\ Len(QuestionPart(qs[i])) = Len(qs[i].name) + 4
                        /\ qs[i].name \in Seq(Octet) /\ Len(qs[i].name) \in Nat
                        /\ Placed(QuestionPart(qs[i]), 0, qs[i].name)
  <2>1. \A i \in 1 .. n : qs[i] \in [name : Seq(Octet), qtype : Word]
    BY <1>2, ElementOfSeq, Zenon
  <2> QED
    BY <2>1, QuestionParts, Zenon
<1>4. parts = [i \in 1 .. n |-> QuestionPart(qs[i])]
  BY <1>2 DEF QuestionPart
<1> HIDE DEF parts
<1>5. parts = [i \in 1 .. n |-> parts[i]] /\ \A i \in 1 .. n : parts[i] = QuestionPart(qs[i])
  BY <1>4
<1> HIDE DEF n
<1>6. parts \in Seq(Seq(Octet)) /\ Len(parts) = n
  <2>1. \A i \in 1 .. n : parts[i] \in Seq(Octet)
    BY <1>3, <1>5, Zenon
  <2> QED
    BY <1>2, <1>5, <2>1, AnySequence, Zenon
<1>7. body \in Seq(Octet) /\ \E e : Joined(parts, body, e)
  BY <1>6, Flattened, Zenon
<1>8. PICK e : Joined(parts, body, e)
  BY <1>7, Zenon
<1> HIDE DEF body
<1>9. LaidPairs(front, Put16(n), Put16(0), Put16(0))
  <2>1. /\ h.id \in Nat /\ h.qr \in Nat /\ h.rcode \in Nat /\ h.qdcount \in Nat
        /\ h.ancount \in Nat /\ h.nscount \in Nat /\ h.arcount \in Nat
        /\ h.qdcount = n /\ h.ancount = 0 /\ h.nscount = 0
    BY <1>2
  <2> HIDE DEF h
  <2> QED
    BY <2>1, HeaderPut, Zenon
<1> HIDE DEF front
<1>10. /\ front \in Seq(Nat) /\ Len(front) = 12
       /\ Placed(front, 4, Put16(n)) /\ Placed(front, 6, Put16(0)) /\ Placed(front, 8, Put16(0))
  BY <1>9, Zenon DEF LaidPairs
<1>11. body \in Seq(Nat)
  BY <1>7, Widened, OctetsAreNumbers, Zenon
<1>12. /\ p \in Seq(Nat) /\ Len(p) = Len(front) + Len(body)
       /\ Placed(p, 0, front) /\ Placed(p, Len(front), body)
  BY <1>1, <1>10, <1>11, PlacedConcat, Zenon
<1>13. U16(p, 4) = n /\ U16(p, 6) = 0 /\ U16(p, 8) = 0
  <2>1. 0 \in Nat /\ 4 \in Nat /\ 6 \in Nat /\ 8 \in Nat
    OBVIOUS
  <2>2. Put16(n) \in Seq(Nat) /\ Put16(0) \in Seq(Nat)
    BY <1>2, <2>1, Put16Number, Zenon
  <2>3. Placed(p, 4, Put16(n)) /\ Placed(p, 6, Put16(0)) /\ Placed(p, 8, Put16(0))
    BY <1>1, <1>10, <1>11, <2>1, <2>2, PlacedFront, Zenon
  <2> QED
    BY <1>2, <1>12, <2>1, <2>3, Put16Read, Zenon
<1>14. Header(p).qdcount = n /\ Header(p).ancount = 0 /\ Header(p).nscount = 0
  BY <1>13 DEF Header
<1> DEFINE ends == [i \in 0 .. n |-> 12 + e[i]]
<1>15. /\ e \in [0 .. n -> Nat] /\ e[0] = 0 /\ e[n] = Len(body)
       /\ \A i \in 1 .. n : e[i] = e[i - 1] + Len(parts[i]) /\ Placed(body, e[i - 1], parts[i])
  BY <1>6, <1>8, Zenon DEF Joined
<1>16. /\ ends \in [0 .. n -> Nat] /\ ends[0] = 12
       /\ \A i \in 0 .. n : ends[i] = 12 + e[i]
  BY <1>2, <1>15
<1> HIDE DEF ends
<1>17. ends[n] = Len(p)
  BY <1>2, <1>10, <1>12, <1>15, <1>16
<1>18. ASSUME NEW i \in 1 .. n
       PROVE  /\ ends[i] = ends[i - 1] + Len(qs[i].name) + 4
              /\ Placed(p, ends[i - 1], qs[i].name)
  <2>1. /\ parts[i] \in Seq(Octet) /\ Len(parts[i]) = Len(qs[i].name) + 4
        /\ qs[i].name \in Seq(Octet) /\ Len(qs[i].name) \in Nat
        /\ Placed(parts[i], 0, qs[i].name)
    BY <1>3, <1>5, Zenon
  <2>2. i - 1 \in 0 .. n /\ i \in 0 .. n
    BY <1>2
  <2> DEFINE at == e[i - 1]
  <2>3. at \in Nat /\ e[i] = at + Len(parts[i]) /\ Placed(body, at, parts[i])
    BY <1>15, <2>2
  <2>4. ends[i - 1] = 12 + at /\ ends[i] = 12 + e[i]
    BY <1>16, <2>2, Zenon
  <2> HIDE DEF at
  <2>5. ends[i] = ends[i - 1] + Len(qs[i].name) + 4
    <3> DEFINE name == Len(qs[i].name)
    <3>1. name \in Nat /\ Len(parts[i]) = name + 4
      BY <2>1, Zenon
    <3> HIDE DEF name
    <3>2. ends[i] = 12 + (at + (name + 4)) /\ ends[i - 1] = 12 + at
      BY <2>3, <2>4, <3>1, Zenon
    <3>3. 12 + (at + (name + 4)) = 12 + at + name + 4
      BY <2>3, <3>1
    <3> QED
      BY <3>2, <3>3, Zenon DEF name
  <2>6. parts[i] \in Seq(Nat) /\ qs[i].name \in Seq(Nat)
    BY <2>1, Widened, OctetsAreNumbers, Zenon
  <2>7. Placed(p, 12, body) /\ 12 \in Nat /\ 0 \in Nat /\ 12 + at \in Nat /\ (12 + at) + 0 = 12 + at
    BY <1>10, <1>12, <2>3
  <2>8. Placed(p, 12 + at, parts[i])
    BY <1>11, <1>12, <2>3, <2>6, <2>7, PlacedInside, Zenon
  <2>9. Placed(p, (12 + at) + 0, qs[i].name)
    BY <1>12, <2>1, <2>6, <2>7, <2>8, PlacedInside, Zenon
  <2> QED
    BY <2>4, <2>5, <2>7, <2>9, Zenon
<1>19. AskedWhere(p, qs, ends)
  BY <1>16, <1>17, <1>18, Zenon DEF AskedWhere, n
<1> QED
  BY <1>14, <1>19, Zenon DEF qs, n

\* So dns_parse_questions reads it to its end.
LEMMA ClientRead ==
    ASSUME NEW m \in Messages, NEW p, p = ClientPacket(m)
    PROVE  /\ p \in Seq(Octet) /\ Len(p) \in Nat /\ Len(p) <= ReplyRoom
           /\ Len(ParseQuestions(p).questions) = Len(m.questions)
           /\ ParseQuestions(p).offset = Len(p)
           /\ 12 + 4 * Len(m.questions) <= Len(p)
           /\ Len(m.questions) = 1 => /\ Len(p) = Len(m.questions[1].name) + 16
                                      /\ Placed(p, 12, m.questions[1].name)
<1> DEFINE qs == m.questions
           n == Len(qs)
<1>1. /\ p \in Seq(Octet) /\ Len(p) \in Nat /\ Len(p) <= ReplyRoom
      /\ p \in Seq(Nat) /\ n \in Nat /\ DOMAIN qs = 1 .. n
      /\ qs \in Seq([name : Seq(Octet), qtype : Word])
      /\ \A i \in DOMAIN qs : NameInPacket(qs[i].name, i # 1)
  <2>1. /\ p \in Seq(Octet) /\ Len(p) <= ReplyRoom
        /\ qs \in Seq([name : Seq(Octet), qtype : Word])
        /\ \A i \in DOMAIN qs : NameInPacket(qs[i].name, i # 1)
    BY MessageGiven, Zenon
  <2>2. p \in Seq(Nat)
    BY <2>1, Widened, OctetsAreNumbers, Zenon
  <2> QED
    BY <2>1, <2>2, LenProperties, Zenon
<1>2. Header(p).qdcount = n /\ \E ends : AskedWhere(p, qs, ends)
  BY ClientLaid, Zenon
<1>3. PICK ends : AskedWhere(p, qs, ends)
  BY <1>2, Zenon
<1> HIDE DEF qs
<1>4. /\ ends \in [0 .. n -> Nat] /\ ends[0] = 12 /\ ends[n] = Len(p)
      /\ \A i \in 1 .. n : /\ ends[i] = ends[i - 1] + Len(qs[i].name) + 4
                           /\ Placed(p, ends[i - 1], qs[i].name)
  BY <1>3, Zenon DEF AskedWhere
<1> HIDE DEF n
<1>5. \A i \in 1 .. n : /\ qs[i].name \in Seq(Octet) /\ Len(qs[i].name) \in Nat
                        /\ qs[i].name \in Seq(Nat)
                        /\ WireName(qs[i].name)
                        /\ i - 1 \in 0 .. n /\ i \in 0 .. n /\ ends[i - 1] \in Nat
  <2>1. SUFFICES ASSUME NEW i \in 1 .. n
                 PROVE  /\ qs[i].name \in Seq(Octet) /\ Len(qs[i].name) \in Nat
                        /\ qs[i].name \in Seq(Nat)
                        /\ WireName(qs[i].name)
                        /\ i - 1 \in 0 .. n /\ i \in 0 .. n /\ ends[i - 1] \in Nat
    OBVIOUS
  <2>2. qs[i] \in [name : Seq(Octet), qtype : Word]
    BY <1>1, ElementOfSeq, Zenon DEF n
  <2>3. qs[i].name \in Seq(Octet)
    BY <2>2
  <2>4. qs[i].name \in Seq(Nat)
    BY <2>3, Widened, OctetsAreNumbers, Zenon
  <2>5. WireName(qs[i].name)
    <3>1. NameInPacket(qs[i].name, i # 1)
      BY <1>1, Zenon
    <3> QED
      BY <3>1, Zenon DEF WireName, NameInPacket
  <2>6. i - 1 \in 0 .. n /\ i \in 0 .. n
    BY <1>1
  <2> QED
    BY <1>4, <2>3, <2>4, <2>5, <2>6, LenProperties, Zenon
<1>6. PassesQuestions(p, ends, n)
  <2>1. ASSUME NEW k \in 1 .. n PROVE ends[k] = PastName(p, ends[k - 1]) + 4
    <3> DEFINE at == ends[k - 1]
               name == qs[k].name
    <3>1. /\ at \in Nat /\ name \in Seq(Nat) /\ WireName(name) /\ Placed(p, at, name)
          /\ ends[k] = at + Len(name) + 4
      BY <1>4, <1>5, Zenon
    <3> HIDE DEF at, name
    <3>2. ParseQname(p, at).next = at + Len(name)
      BY <1>1, <3>1, NamePassed, OctetsAreNumbers, Zenon
    <3>3. ParseQname(p, at).next = PastName(p, at)
      BY <1>1, <3>1, SameEnd, Zenon
    <3> QED
      BY <3>1, <3>2, <3>3, Zenon DEF at
  <2>2. \A k \in 0 .. n : ends[k] \in Nat
    BY <1>4
  <2> QED
    BY <1>4, <2>1, <2>2, Zenon DEF PassesQuestions, HeaderLen
<1>7. PastQuestions(p, n) = Len(p)
  <2>1. n \in 0 .. n
    BY <1>1
  <2>2. p \in Seq(Nat) /\ n \in Nat
    BY <1>1, Zenon
  <2>3. PastQuestions(p, n) = ends[n]
    BY <1>6, <2>1, <2>2, SameOffsets, Zenon
  <2> QED
    BY <1>4, <2>3, Zenon
<1>8. Len(ParseQuestions(p).questions) = n /\ ParseQuestions(p).offset = Len(p)
  BY <1>1, <1>2, <1>7, AllFound, Zenon DEF n, qs
<1> DEFINE T == {k \in 0 .. n : 12 + 4 * k <= ends[k]}
<1>9. n \in T
  <2>1. 0 \in T
    BY <1>1, <1>4
  <2>2. ASSUME NEW k \in 1 .. n, k - 1 \in T PROVE k \in T
    <3> DEFINE length == Len(qs[k].name)
               at == ends[k - 1]
    <3>1. length \in Nat /\ at \in Nat /\ ends[k] = at + length + 4
      BY <1>4, <1>5, Zenon
    <3>2. 12 + 4 * (k - 1) <= at
      BY <2>2
    <3> HIDE DEF length, at
    <3>3. 12 + 4 * k <= at + length + 4 /\ k \in 0 .. n
      BY <1>1, <3>1, <3>2
    <3> QED
      BY <3>1, <3>3
  <2> HIDE DEF T
  <2>3. 0 .. n \subseteq T
    BY <1>1, <2>1, <2>2, UpTo
  <2> QED
    BY <1>1, <2>3
<1>10. 12 + 4 * n <= Len(p)
  BY <1>4, <1>9
<1>11. n = 1 => Len(p) = Len(qs[1].name) + 16 /\ Placed(p, 12, qs[1].name)
  <2>1. SUFFICES ASSUME n = 1 PROVE Len(p) = Len(qs[1].name) + 16 /\ Placed(p, 12, qs[1].name)
    OBVIOUS
  <2>2. 1 \in 1 .. n /\ 1 - 1 = 0
    BY <2>1
  <2>3. ends[1] = 12 + Len(qs[1].name) + 4 /\ Placed(p, 12, qs[1].name) /\ Len(qs[1].name) \in Nat
    BY <1>4, <1>5, <2>2, Zenon
  <2> DEFINE length == Len(qs[1].name)
  <2> HIDE DEF length
  <2>4. 12 + length + 4 = length + 16
    BY <2>3 DEF length
  <2> QED
    BY <1>4, <2>1, <2>3, <2>4, Zenon DEF length
<1> QED
  BY <1>1, <1>8, <1>10, <1>11, Zenon DEF n, qs

-----------------------------------------------------------------------------
(***************************************************************************)
(* What the answers add to a reply.                                        *)
(***************************************************************************)
\* The octets are the numbers up to 255, and the arrays have their lengths.
LEMMA IsOctet ==
    ASSUME NEW n
    PROVE  n \in Octet <=> n \in Nat /\ n <= 255
BY DEF Octet

LEMMA Lengths ==
    /\ BufLen \in Nat /\ BufLen <= 1024
    /\ ReplyRoom \in Nat /\ 2 * ReplyRoom <= BufLen
<1>1. \A n \in Nat : BufLen \in 0 .. n => BufLen \in Nat /\ BufLen <= n
  OBVIOUS
<1>2. BufLen \in Nat /\ BufLen <= 1024
  <2>1. 1024 \in Nat
    OBVIOUS
  <2> QED
    BY <1>1, <2>1, LengthsAssumption, Zenon
<1> QED
  BY <1>2, LengthsAssumption, Zenon

\* Each record takes ten octets at least.
LEMMA ManyRecords ==
    ASSUME NEW records \in Seq(GivenRecord)
    PROVE  Len(records) \in Nat /\ 10 * Len(records) <= Len(Section(records))
<1> DEFINE n == Len(records)
           length == Len(Section(records))
<1>1. n \in Nat /\ \A i \in 1 .. n : records[i] \in GivenRecord
  BY ElementOfSeq, LenProperties, Zenon
<1>2. PICK ends : SectionEnds(records, ends)
  BY SectionPlaced, Zenon
<1>3. /\ ends \in [0 .. n -> Nat] /\ ends[0] = 0 /\ ends[n] = length
      /\ \A i \in 1 .. n : ends[i] = ends[i - 1] + Len(RecordBuf(records[i]))
  BY <1>2, Zenon DEF SectionEnds
<1> HIDE DEF n, length
<1>4. ASSUME NEW i \in 1 .. n
      PROVE  Len(RecordBuf(records[i])) \in Nat /\ Len(RecordBuf(records[i])) >= 10
  <2> DEFINE r == records[i]
             b == RecordBuf(r)
  <2>1. r \in GivenRecord
    BY <1>1, Zenon
  <2> HIDE DEF r
  <2>2. Laid(b, r.name, Put16(r.type), Put32(r.ttl), r.data) /\ Len(r.data) \in Nat
    BY <2>1, RecordParts, Zenon
  <2> HIDE DEF b
  <2>3. Len(r.name) \in Nat /\ Len(b) = Len(r.name) + 10 + Len(r.data)
    BY <2>2, Zenon DEF Laid
  <2>4. Len(b) \in Nat /\ Len(b) >= 10
    <3> DEFINE name == Len(r.name)
               data == Len(r.data)
    <3>1. name \in Nat /\ data \in Nat /\ Len(b) = name + 10 + data
      BY <2>2, <2>3, Zenon
    <3> HIDE DEF name, data
    <3> QED
      BY <3>1
  <2> QED
    BY <2>4, Zenon DEF b, r
<1> DEFINE T == {k \in 0 .. n : 10 * k <= ends[k]}
<1>5. 0 \in T
  BY <1>1, <1>3
<1>6. ASSUME NEW k \in 1 .. n, k - 1 \in T PROVE k \in T
  <2> DEFINE size == Len(RecordBuf(records[k]))
             at == ends[k - 1]
  <2>1. size \in Nat /\ size >= 10 /\ ends[k] = at + size
    BY <1>3, <1>4, Zenon
  <2>2. 10 * (k - 1) <= at /\ at \in Nat /\ k \in 0 .. n
    BY <1>1, <1>3, <1>6
  <2> HIDE DEF size, at
  <2>3. 10 * k <= at + size
    BY <2>1, <2>2
  <2> QED
    BY <2>1, <2>2, <2>3
<1> HIDE DEF T
<1>7. 0 .. n \subseteq T
  BY <1>1, <1>5, <1>6, UpTo
<1>8. 10 * n <= length
  BY <1>1, <1>3, <1>7 DEF T
<1> QED
  BY <1>1, <1>8, Zenon DEF n, length

\* htonl, of what has no sign.
LEMMA LongPut ==
    ASSUME NEW n \in Nat, n <= MaxTtl
    PROVE  Put32(n) \in Seq(Octet) /\ Len(Put32(n)) = 4
<1> DEFINE high == n \div 65536
           low == n % 65536
<1>1. high \in Word /\ low \in Word
  BY DEF Word, MaxTtl
<1>2. Put32(n) = Put16(high) \o Put16(low)
  BY SMT DEF Put32
<1> HIDE DEF high, low
<1> DEFINE s == Put16(high)
           t == Put16(low)
<1>3. s \in Seq(Octet) /\ Len(s) = 2 /\ t \in Seq(Octet) /\ Len(t) = 2
  BY <1>1, WordPut, Zenon
<1> HIDE DEF s, t
<1>4. s \o t \in Seq(Octet) /\ Len(s \o t) = Len(s) + 2
  BY <1>3, PairAdded, Zenon
<1>5. Len(s \o t) = 4
  BY <1>3, <1>4
<1> QED
  BY <1>2, <1>4, <1>5, Zenon DEF s, t

\* The records of an answer are octets, as their fields fit what they are written to.
LEMMA RecordOctets ==
    ASSUME NEW r \in GivenRecord, Len(r.data) \in Word
    PROVE  RecordBuf(r) \in Seq(Octet)
<1> DEFINE name == r.name
           data == r.data
           type == Put16(r.type)
           class == Put16(1)
           ttl == Put32(r.ttl)
           length == Put16(Len(r.data))
<1>1. name \in Seq(Octet) /\ data \in Seq(Octet)
  BY GivenTypes, Zenon
<1>2. /\ type \in Seq(Octet) /\ Len(type) = 2 /\ class \in Seq(Octet) /\ Len(class) = 2
      /\ length \in Seq(Octet) /\ Len(length) = 2
  <2>1. 1 \in Word
    BY DEF Word
  <2> QED
    BY <2>1, GivenTypes, WordPut, Zenon
<1>3. ttl \in Seq(Octet)
  BY GivenTypes, LongPut, Zenon
<1>4. RecordBuf(r) = name \o type \o class \o ttl \o length \o data
  BY Zenon DEF RecordBuf
<1> HIDE DEF name, data, type, class, ttl, length
<1>5. name \o type \o class \o ttl \o length \o data \in Seq(Octet)
  BY <1>1, <1>2, <1>3, PlacedConcat, Zenon
<1> QED
  BY <1>4, <1>5, Zenon

LEMMA SectionOctets ==
    ASSUME NEW records \in Seq(GivenRecord),
           \A i \in 1 .. Len(records) : Len(records[i].data) \in Word
    PROVE  Section(records) \in Seq(Octet)
<1> DEFINE n == Len(records)
           parts == [i \in DOMAIN records |-> RecordBuf(records[i])]
<1>1. n \in Nat /\ DOMAIN records = 1 .. n /\ \A i \in 1 .. n : records[i] \in GivenRecord
  BY ElementOfSeq, LenProperties
<1>2. \A i \in 1 .. n : RecordBuf(records[i]) \in Seq(Octet)
  BY <1>1, RecordOctets, Zenon
<1>3. parts = [i \in 1 .. n |-> parts[i]] /\ \A i \in 1 .. n : parts[i] = RecordBuf(records[i])
  BY <1>1
<1>4. Section(records) = FlattenSeq(parts)
  BY DEF Section
<1> HIDE DEF parts
<1>5. \A i \in 1 .. n : parts[i] \in Seq(Octet)
  BY <1>2, <1>3
<1> HIDE DEF n
<1>6. parts \in Seq(Seq(Octet))
  BY <1>1, <1>3, <1>5, AnySequence, Zenon
<1> QED
  BY <1>4, <1>6, Flattened, Zenon

\* An answer that may be collected: octets, and counts that fit one.
AnswerTyped(answer) ==
    /\ answer.answer_buf \in Seq(Octet) /\ answer.authority_buf \in Seq(Octet)
    /\ answer.answer_rr \in Octet /\ answer.authority_rr \in Octet

\* What dns_query returns is such an answer: its packet has room for that many records.
LEMMA AnswerOfPacket ==
    ASSUME NEW q \in Seq(Nat), Len(q) >= 12, NEW a \in Answers,
           Len(UpstreamPacket(q, a)) <= BufLen,
           NEW answer, answer = ReadAnswer(UpstreamPacket(q, a), Len(q)), answer.ok
    PROVE  /\ AnswerTyped(answer)
           /\ Len(q) + Len(answer.answer_buf) + Len(answer.authority_buf) <= BufLen
<1> DEFINE p == UpstreamPacket(q, a)
           x == Section(a.an)
           y == Section(a.ns)
           z == Section(a.ar)
<1>1. /\ Header(p).ancount = Len(a.an) /\ Header(p).nscount = Len(a.ns)
      /\ p \in Seq(Nat) /\ Len(p) = Len(q) + Len(x) + Len(y \o z)
  BY SectionsOfPacket, Zenon
<1>2. CutOf(answer, a)
  BY AnswerRead, Zenon
<1>3. answer.answer_rr = Len(a.an) /\ answer.authority_rr = Len(a.ns)
  BY <1>1, Zenon DEF ReadAnswer
<1> HIDE DEF p
<1>4. x \in Seq(Octet) /\ y \in Seq(Octet) /\ z \in Seq(Octet)
  BY AnswersGiven, SectionOctets, Zenon DEF GivenAnswers
<1>5. /\ Len(a.an) \in Nat /\ 10 * Len(a.an) <= Len(x)
      /\ Len(a.ns) \in Nat /\ 10 * Len(a.ns) <= Len(y)
  BY AnswersGiven, ManyRecords, Zenon DEF GivenAnswers
<1>6. answer.answer_buf = x /\ answer.authority_buf = y \o z
  BY <1>2, Zenon DEF CutOf
<1> HIDE DEF x, y, z
<1>7. /\ y \o z \in Seq(Octet) /\ Len(y \o z) = Len(y) + Len(z)
      /\ Len(x) \in Nat /\ Len(y) \in Nat /\ Len(z) \in Nat /\ Len(q) \in Nat
  BY <1>4, PlacedConcat, LenProperties, Zenon
<1>8. Len(p) <= 1024 /\ Len(p) <= BufLen
  <2>1. Len(p) \in Nat /\ Len(p) <= BufLen
    BY <1>1, LenProperties, Zenon DEF p
  <2> HIDE DEF p
  <2> QED
    BY <2>1, Lengths
<1>9. Len(a.an) <= 255 /\ Len(a.ns) <= 255
  <2> DEFINE total == Len(p)
             lx == Len(x)
             ly == Len(y)
             lz == Len(z)
             ca == Len(a.an)
             cn == Len(a.ns)
             lq == Len(q)
  <2>1. /\ total = lq + lx + (ly + lz) /\ total <= 1024
        /\ lx \in Nat /\ ly \in Nat /\ lz \in Nat /\ lq \in Nat
        /\ ca \in Nat /\ 10 * ca <= lx /\ cn \in Nat /\ 10 * cn <= ly
    BY <1>1, <1>5, <1>7, <1>8, Zenon DEF x, y, z, p
  <2> HIDE DEF total, lx, ly, lz, ca, cn, lq
  <2>2. ca <= 255 /\ cn <= 255
    BY <2>1
  <2> QED
    BY <2>2, Zenon DEF ca, cn
<1>10. Len(a.an) \in Octet /\ Len(a.ns) \in Octet
  BY <1>5, <1>9, IsOctet, Zenon
<1>11. AnswerTyped(answer)
  BY <1>3, <1>4, <1>6, <1>7, <1>10, Zenon DEF AnswerTyped
<1>12. Len(q) + Len(x) + Len(y \o z) <= BufLen
  BY <1>1, <1>8, Zenon DEF x, y, z, p
<1> QED
  BY <1>6, <1>11, <1>12, Zenon

\* Such counts of no more than 255 answers are a word together.
LEMMA TotalTyped ==
    ASSUME NEW field, Len(answers) \in Nat, Len(answers) <= 255,
           \A i \in 1 .. Len(answers) : answers[i][field] \in Octet
    PROVE  Total(field) \in Word
<1> DEFINE N == Len(answers)
           total[n \in 0 .. N] == IF n = 0 THEN 0 ELSE total[n - 1] + answers[n][field]
           Rec(g) == [n \in 0 .. N |-> IF n = 0 THEN 0 ELSE g[n - 1] + answers[n][field]]
           step == [f \in (1 .. N) \X Nat |-> f[2] + answers[f[1]][field]]
<1>1. Total(field) = total[N]
  BY DEF Total
<1>2. \A i \in 1 .. N : answers[i][field] \in Nat /\ answers[i][field] <= 255
  BY IsOctet, Zenon
<1>3. step \in [(1 .. N) \X Nat -> Nat]
  <2>1. ASSUME NEW f \in (1 .. N) \X Nat PROVE f[2] + answers[f[1]][field] \in Nat
    BY <1>2
  <2> QED
    BY <2>1, Zenon
<1>4. PICK f \in [0 .. N -> Nat] : Unrolls(f, 0, step, N)
  <2> HIDE DEF step
  <2> QED
    BY <1>3, Recursion
<1>5. ASSUME NEW n \in 1 .. N PROVE f[n] = f[n - 1] + answers[n][field] /\ f[n - 1] \in Nat
  <2>1. n - 1 \in 0 .. N
    OBVIOUS
  <2>2. f[n - 1] \in Nat /\ <<n, f[n - 1]>> \in (1 .. N) \X Nat
    BY <2>1
  <2>3. f[n] = step[<<n, f[n - 1]>>]
    BY <1>4 DEF Unrolls
  <2> QED
    BY <2>2, <2>3
<1>6. f[0] = 0
  BY <1>4 DEF Unrolls
<1>7. f = Rec(f)
  BY <1>5, <1>6
<1>8. total = Rec(total)
  <2>1. total = CHOOSE g : g = Rec(g)
    OBVIOUS
  <2> HIDE DEF total, Rec
  <2> QED
    BY <1>7, <2>1
<1> HIDE DEF total
<1>9. total[0] = 0 /\ \A n \in 1 .. N : total[n] = total[n - 1] + answers[n][field]
  <2>1. 0 \in 0 .. N /\ \A n \in 1 .. N : n \in 0 .. N /\ n # 0
    OBVIOUS
  <2> QED
    BY <1>8, <2>1
<1> DEFINE T == {n \in 0 .. N : total[n] \in Nat /\ total[n] <= 255 * n}
<1>10. 0 \in T
  BY <1>9
<1>11. ASSUME NEW n \in 1 .. N, n - 1 \in T PROVE n \in T
  <2> DEFINE before == total[n - 1]
             more == answers[n][field]
  <2>1. before \in Nat /\ before <= 255 * (n - 1) /\ n \in 0 .. N
    BY <1>11
  <2>2. more \in Nat /\ more <= 255 /\ total[n] = before + more
    BY <1>2, <1>9, Zenon
  <2> HIDE DEF before, more
  <2>3. before + more \in Nat /\ before + more <= 255 * n
    BY <2>1, <2>2
  <2> QED
    BY <2>1, <2>2, <2>3
<1> HIDE DEF T, N
<1>12. 0 .. N \subseteq T /\ N \in Nat
  BY <1>10, <1>11, UpTo DEF N
<1>13. total[N] \in Nat /\ total[N] <= 255 * N
  BY <1>12 DEF T
<1>14. total[N] < 65536 /\ N <= 255
  <2>1. N <= 255 /\ N \in Nat
    BY DEF N
  <2> HIDE DEF N
  <2> QED
    BY <1>13, <2>1
<1> QED
  BY <1>1, <1>13, <1>14 DEF Word

\* A question that is resolved: its name can be written, and its type and its class too.
QuestionTyped(q) ==
    /\ q.qname \in Seq(Octet) /\ DotsNear(q.qname, Len(q.qname) + 1)
    /\ q.qtype \in Word /\ q.qclass \in Word

LEMMA QueryOctets ==
    ASSUME NEW q, QuestionTyped(q)
    PROVE  QueryBuf(q, 258) \in Seq(Octet) /\ Len(QueryBuf(q, 258)) = Len(q.qname) + 18
<1> DEFINE h == [id |-> 258, qr |-> 0, rcode |-> 0, qdcount |-> 1, ancount |-> 0,
                 nscount |-> 0, arcount |-> 0]
           front == PutHeader(h)
           name == ToQname(q.qname)
           type == Put16(q.qtype)
           class == Put16(q.qclass)
<1>1. front \in Seq(Octet) /\ Len(front) = 12
  <2>1. 258 \in Word /\ 0 \in Word /\ 1 \in Word
    BY DEF Word
  <2>2. 0 \in Octet
    BY IsOctet
  <2>3. /\ h.id \in Word /\ h.qr \in {0, 1} /\ h.rcode \in Octet /\ h.qdcount \in Word
        /\ h.ancount \in Word /\ h.nscount \in Word /\ h.arcount \in Word
    BY <2>1, <2>2, Zenon
  <2> HIDE DEF h
  <2> QED
    BY <2>3, HeaderWritten, Zenon
<1>2. name \in Seq(Octet) /\ Len(name) = Len(q.qname) + 2 /\ Len(q.qname) \in Nat
  BY QnameOctets, LenProperties, Zenon DEF QuestionTyped
<1>3. type \in Seq(Octet) /\ Len(type) = 2 /\ class \in Seq(Octet) /\ Len(class) = 2
  BY WordPut, Zenon DEF QuestionTyped
<1>4. QueryBuf(q, 258) = front \o name \o type \o class
  BY Zenon DEF QueryBuf
<1> HIDE DEF front, name, type, class
<1> DEFINE s == front \o name
           t == s \o type
           u == t \o class
<1>5. s \in Seq(Octet) /\ Len(s) = Len(front) + Len(name)
  BY <1>1, <1>2, PlacedConcat, Zenon
<1> HIDE DEF s
<1>6. t \in Seq(Octet) /\ Len(t) = Len(s) + 2
  BY <1>3, <1>5, PairAdded, Zenon
<1> HIDE DEF t
<1>7. u \in Seq(Octet) /\ Len(u) = Len(t) + 2
  BY <1>3, <1>6, PairAdded, Zenon
<1>8. QueryBuf(q, 258) = u
  BY <1>4, Zenon DEF s, t
<1> HIDE DEF u
<1>9. Len(u) = Len(q.qname) + 18
  BY <1>1, <1>2, <1>5, <1>6, <1>7
<1> QED
  BY <1>7, <1>8, <1>9, Zenon

\* The record of a rule.
LEMMA RuleOctets ==
    ASSUME NEW name \in Seq(Octet), DotsNear(name, Len(name) + 1), NEW address \in Address
    PROVE  /\ ResourceToBuf(name, address) \in Seq(Octet)
           /\ Len(ResourceToBuf(name, address)) = Len(name) + 16
<1> DEFINE qname == ToQname(name)
           one == Put16(1)
           ttl == Put32(600)
           four == Put16(4)
<1>1. qname \in Seq(Octet) /\ Len(qname) = Len(name) + 2 /\ Len(name) \in Nat
  BY QnameOctets, LenProperties, Zenon
<1>2. /\ one \in Seq(Octet) /\ Len(one) = 2 /\ four \in Seq(Octet) /\ Len(four) = 2
      /\ ttl \in Seq(Octet) /\ Len(ttl) = 4
  <2>1. ttl \in Seq(Octet) /\ Len(ttl) = 4
    <3>1. \A n \in Nat : n <= MaxTtl => Put32(n) \in Seq(Octet) /\ Len(Put32(n)) = 4
      BY LongPut, Zenon
    <3>2. 600 \in Nat /\ 600 <= MaxTtl
      BY DEF MaxTtl
    <3> QED
      BY <3>1, <3>2
  <2>2. 1 \in Word /\ 4 \in Word
    BY DEF Word
  <2>3. \A n \in {1, 4} : Put16(n) \in Seq(Octet) /\ Len(Put16(n)) = 2
    BY <2>2, WordPut, Zenon
  <2> QED
    BY <2>1, <2>3, Zenon
<1>3. ResourceToBuf(name, address) = qname \o one \o one \o ttl \o four \o address
  BY Zenon DEF ResourceToBuf
<1>4. address \in Seq(Octet) /\ Len(address) = 4
  <2>1. 4 \in Nat /\ address = [i \in 1 .. 4 |-> address[i]]
    BY DEF Address
  <2>2. \A i \in 1 .. 4 : address[i] \in Octet
    BY Zenon DEF Address
  <2> QED
    BY <2>1, <2>2, AnySequence, Zenon
<1> HIDE DEF qname, one, ttl, four
<1> DEFINE s == qname \o one
           t == s \o one
           u == t \o ttl
           v == u \o four
           w == v \o address
<1>5. s \in Seq(Octet) /\ Len(s) = Len(qname) + 2
  BY <1>1, <1>2, PairAdded, Zenon
<1> HIDE DEF s
<1>6. t \in Seq(Octet) /\ Len(t) = Len(s) + 2
  BY <1>2, <1>5, PairAdded, Zenon
<1> HIDE DEF t
<1>7. u \in Seq(Octet) /\ Len(u) = Len(t) + Len(ttl)
  BY <1>2, <1>6, PlacedConcat, Zenon
<1> HIDE DEF u
<1>8. v \in Seq(Octet) /\ Len(v) = Len(u) + 2
  BY <1>2, <1>7, PairAdded, Zenon
<1> HIDE DEF v
<1>9. w \in Seq(Octet) /\ Len(w) = Len(v) + Len(address)
  BY <1>4, <1>8, PlacedConcat, Zenon
<1>10. ResourceToBuf(name, address) = w
  BY <1>3, Zenon DEF s, t, u, v
<1> HIDE DEF w
<1>11. Len(w) = Len(name) + 16
  BY <1>1, <1>2, <1>4, <1>5, <1>6, <1>7, <1>8, <1>9
<1> QED
  BY <1>9, <1>10, <1>11, Zenon

-----------------------------------------------------------------------------
(***************************************************************************)
(* Every packet is octets.                                                 *)
(***************************************************************************)
\* The client's questions end where its datagram does, and fit into it; each answer and
\* each packet on its way is octets.
PacketsTyped ==
    /\ message \in Messages /\ buf = ClientPacket(message)
    /\ pc \in {"parse", "resolve", "recv", "fail", "reply", "done"}
    /\ offset \in 0 .. Len(buf)
    /\ pc \in {"resolve", "recv", "fail", "reply"} => offset = Len(buf)
    /\ Len(answers) <= Len(questions) /\ Len(questions) <= 255
    /\ \A i \in 1 .. Len(questions) : QuestionTyped(questions[i])
    /\ \A i \in 1 .. Len(answers) : AnswerTyped(answers[i])
    /\ \A packet \in {sent, query} : packet = NULL \/ packet \in Seq(Octet)
    /\ status \in {"up", "undefined"}

LEMMA InitTyped == Init => PacketsTyped
<1> SUFFICES ASSUME Init PROVE PacketsTyped
  OBVIOUS
<1>1. Len(<<>>) = 0 /\ 1 .. 0 = {}
  OBVIOUS
<1>2. message \in Messages /\ buf = ClientPacket(message) /\ Len(buf) \in Nat
  BY ClientRead DEF Init
<1>3. 0 \in 0 .. Len(buf) /\ 0 <= 0 /\ 0 <= 255
  BY <1>2
<1> QED
  BY <1>1, <1>2, <1>3, Zenon DEF Init, PacketsTyped

\* The client's packet, while the worker is at it.
LEMMA ClientOffset ==
    ASSUME PacketsTyped
    PROVE  /\ buf \in Seq(Octet) /\ Len(buf) \in Nat /\ Len(buf) <= BufLen
           /\ offset \in 0 .. BufLen
<1>1. message \in Messages /\ buf = ClientPacket(message) /\ offset \in 0 .. Len(buf)
  BY Zenon DEF PacketsTyped
<1>2. buf \in Seq(Octet) /\ Len(buf) \in Nat /\ Len(buf) <= ReplyRoom
  BY <1>1, ClientRead, Zenon
<1> DEFINE length == Len(buf)
<1> HIDE DEF length
<1>3. length \in Nat /\ length <= ReplyRoom /\ offset \in 0 .. length
  BY <1>1, <1>2, Zenon DEF length
<1>4. length <= BufLen /\ offset \in 0 .. BufLen
  BY <1>3, Lengths
<1> QED
  BY <1>2, <1>4, Zenon DEF length

\* ParseRequest finds the questions up to the end.
LEMMA ParseTyped ==
    ASSUME RulesFollowed, PacketsTyped, ParseRequest
    PROVE  PacketsTyped'
<1> DEFINE parsed == ParseQuestions(buf)
           qs == parsed.questions
<1>1. /\ questions' = [i \in DOMAIN qs |-> [qs[i] EXCEPT !.qname = ToUpper(@)]]
      /\ offset' = parsed.offset
      /\ status' \in {"undefined", status} /\ pc' \in {"reply", "resolve"} /\ pc = "parse"
      /\ UNCHANGED <<message, buf, answers, sent, query>>
  BY DEF ParseRequest, Goto
<1>2. /\ message \in Messages /\ buf = ClientPacket(message)
      /\ Len(answers) = 0
      /\ status \in {"up", "undefined"}
      /\ \A i \in 1 .. Len(answers) : AnswerTyped(answers[i])
      /\ \A packet \in {sent, query} : packet = NULL \/ packet \in Seq(Octet)
  <2>1. answers = <<>> /\ Len(<<>>) = 0
    BY <1>1 DEF RulesFollowed
  <2> QED
    BY <2>1, Zenon DEF PacketsTyped
<1>3. /\ buf \in Seq(Octet) /\ Len(buf) \in Nat /\ Len(buf) <= BufLen
  BY ClientOffset, Zenon
<1>4. /\ Len(qs) = Len(message.questions) /\ parsed.offset = Len(buf)
      /\ 12 + 4 * Len(message.questions) <= Len(buf)
  BY <1>2, ClientRead, Zenon
<1>5. qs \in Seq(Asking)
  BY <1>3, ParsedQuestions DEF Questioned
<1>6. \A i \in 1 .. Len(qs) : FoundAt(buf, PastQuestions(buf, i - 1), qs[i])
  BY <1>3, AllFound, Zenon
<1> HIDE DEF qs, parsed
<1>7. DOMAIN qs = 1 .. Len(qs) /\ Len(qs) \in Nat
  BY <1>5, LenProperties, Zenon
<1>8. ASSUME NEW i \in 1 .. Len(qs) PROVE QuestionTyped(questions'[i])
  <2> DEFINE q == questions'[i]
             at == PastQuestions(buf, i - 1)
  <2>1. q = [qs[i] EXCEPT !.qname = ToUpper(@)] /\ qs[i] \in Asking
    BY <1>1, <1>5, <1>7, ElementOfSeq, Zenon
  <2>2. FoundAt(buf, at, qs[i])
    BY <1>6, Zenon
  <2> HIDE DEF q, at
  <2>3. /\ q.qname = ToUpper(qs[i].qname) /\ q.qtype = qs[i].qtype /\ q.qclass = qs[i].qclass
        /\ qs[i].qname \in Seq(Octet)
    BY <2>1 DEF Asking
  <2>4. /\ at \in Nat /\ qs[i].qname = ParseQname(buf, at).name
        /\ qs[i].qtype = U16(buf, PastName(buf, at))
        /\ qs[i].qclass = U16(buf, PastName(buf, at) + 2)
    BY <2>2, Zenon DEF FoundAt
  <2>5. PastName(buf, at) \in Nat /\ PastName(buf, at) + 2 \in Nat
    <3>1. PastName(buf, at) \in Nat
      <4>1. buf \in Seq(Nat)
        BY <1>3, Widened, OctetsAreNumbers, Zenon
      <4> QED
        BY <2>4, <4>1, PastNameTyped, Zenon
    <3> QED
      BY <3>1
  <2>6. q.qtype \in Word /\ q.qclass \in Word
    BY <1>3, <2>3, <2>4, <2>5, WordRead, Zenon
  <2>7. q.qname \in Seq(Octet)
    BY <2>3, UpperTyped, Zenon
  <2>8. DotsNear(q.qname, Len(q.qname) + 1)
    BY <1>3, <2>3, <2>4, QnameRead, Zenon DEF Qname
  <2> QED
    BY <2>6, <2>7, <2>8, Zenon DEF QuestionTyped, q
<1>9. Len(questions') = Len(qs)
  <2>1. questions' = [i \in 1 .. Len(qs) |-> questions'[i]]
    BY <1>1, <1>7
  <2>2. \A i \in 1 .. Len(qs) : questions'[i] \in {questions'[j] : j \in 1 .. Len(qs)}
    OBVIOUS
  <2> QED
    BY <1>7, <2>1, <2>2, AnySequence, Zenon
<1>10. Len(qs) <= 255 /\ 0 <= Len(qs) /\ Len(buf) \in 0 .. Len(buf)
  <2> DEFINE n == Len(qs)
             length == Len(buf)
  <2>1. n \in Nat /\ length \in Nat /\ 12 + 4 * n <= length /\ length <= BufLen
    BY <1>3, <1>4, <1>7, Zenon
  <2> HIDE DEF n, length
  <2>2. n <= 255 /\ 0 <= n /\ length \in 0 .. length
    BY <2>1, Lengths
  <2> QED
    BY <2>2, Zenon DEF n, length
<1> QED
  <2>1. \A i \in 1 .. Len(questions') : QuestionTyped(questions'[i])
    BY <1>8, <1>9, Zenon
  <2>2. /\ offset' \in 0 .. Len(buf') /\ offset' = Len(buf')
        /\ Len(answers') <= Len(questions') /\ Len(questions') <= 255
        /\ status' \in {"up", "undefined"}
        /\ pc' \in {"parse", "resolve", "recv", "fail", "reply", "done"}
    BY <1>1, <1>2, <1>4, <1>9, <1>10, Zenon
  <2> QED
    BY <1>1, <1>2, <2>1, <2>2, Zenon DEF PacketsTyped, QuestionTyped, AnswerTyped

\* Where the questions and the answers stay, a packet may be sent.
LEMMA LeavingTyped ==
    ASSUME PacketsTyped, UNCHANGED <<message, buf, questions, answers, offset>>,
           pc' \in {"parse", "resolve", "recv", "fail", "reply", "done"},
           pc' \in {"resolve", "recv", "fail", "reply"} =>
              pc \in {"resolve", "recv", "fail", "reply"},
           status' \in {"undefined", status},
           sent' = sent \/ sent' \in Seq(Octet), query' = query \/ query' \in Seq(Octet)
    PROVE  PacketsTyped'
<1>1. \A packet \in {sent, query}' : packet = NULL \/ packet \in Seq(Octet)
  BY Zenon DEF PacketsTyped
<1>2. status' \in {"up", "undefined"}
  BY Zenon DEF PacketsTyped
<1>3. /\ message' \in Messages /\ buf' = ClientPacket(message') /\ offset' \in 0 .. Len(buf')
      /\ pc' \in {"resolve", "recv", "fail", "reply"} => offset' = Len(buf')
      /\ Len(answers') <= Len(questions') /\ Len(questions') <= 255
  BY Zenon DEF PacketsTyped
<1>4. /\ \A i \in 1 .. Len(questions') : QuestionTyped(questions'[i])
      /\ \A i \in 1 .. Len(answers') : AnswerTyped(answers'[i])
  BY Zenon DEF PacketsTyped
<1> QED
  BY <1>1, <1>2, <1>3, <1>4, Zenon DEF PacketsTyped, QuestionTyped, AnswerTyped

\* An answer of octets is appended.
LEMMA CollectTyped ==
    ASSUME RulesFollowed, PacketsTyped, pc \in {"resolve", "recv"}, NEW answer, NEW source,
           Collect(answer, source), AnswerTyped(answer)
    PROVE  PacketsTyped'
<1> DEFINE n == Len(answers)
<1>1. /\ answers' = Append(answers, answer) /\ query' = NULL
      /\ pc' \in {"resolve", "reply"}
      /\ UNCHANGED <<message, buf, questions, offset, sent, status>>
  BY DEF Collect, Goto
<1>2. IsSequence(answers) /\ n < Len(questions) /\ Len(questions) \in Nat
  BY LenProperties DEF RulesFollowed
<1>3. /\ Len(answers') = n + 1 /\ n \in Nat
      /\ \A i \in 1 .. n : answers'[i] = answers[i]
      /\ answers'[n + 1] = answer
  BY <1>1, <1>2, AppendAnything
<1>4. \A i \in 1 .. n : AnswerTyped(answers[i])
  BY Zenon DEF PacketsTyped
<1> HIDE DEF n
<1>5. ASSUME NEW i \in 1 .. n + 1 PROVE AnswerTyped(answers'[i])
  <2>1. CASE i = n + 1
    BY <1>3, <2>1, Zenon
  <2>2. CASE i # n + 1
    <3>1. i \in 1 .. n
      BY <1>3, <2>2
    <3> QED
      BY <1>3, <1>4, <3>1, Zenon
  <2> QED
    BY <2>1, <2>2, Zenon
<1>6. Len(answers') <= Len(questions')
  <2> DEFINE m == Len(questions)
  <2>1. m \in Nat /\ n < m
    BY <1>2, Zenon
  <2> HIDE DEF m
  <2>2. n + 1 <= m
    BY <1>3, <2>1
  <2> QED
    BY <1>1, <1>3, <2>2, Zenon DEF m
<1>7. /\ message' \in Messages /\ buf' = ClientPacket(message') /\ offset' \in 0 .. Len(buf')
      /\ offset' = Len(buf') /\ Len(questions') <= 255
      /\ \A i \in 1 .. Len(questions') : QuestionTyped(questions'[i])
      /\ \A packet \in {sent', NULL} : packet = NULL \/ packet \in Seq(Octet)
      /\ status' \in {"up", "undefined"}
  BY <1>1, Zenon DEF PacketsTyped
<1>8. \A i \in 1 .. Len(answers') : AnswerTyped(answers'[i])
  BY <1>3, <1>5, Zenon
<1>9. \A packet \in {sent', query'} : packet = NULL \/ packet \in Seq(Octet)
  BY <1>1, <1>7, Zenon
<1> QED
  BY <1>1, <1>6, <1>7, <1>8, <1>9, Zenon DEF PacketsTyped, QuestionTyped, AnswerTyped

\* A question that is resolved has a name and a type to write.
LEMMA CurrentTyped ==
    ASSUME RulesFollowed, PacketsTyped, Len(answers) < Len(questions)
    PROVE  QuestionTyped(Current)
<1>1. Len(answers) + 1 \in 1 .. Len(questions)
  BY AppendAnything DEF RulesFollowed
<1> QED
  BY <1>1, Zenon DEF PacketsTyped, Current

\* AnswerByRule makes a record of octets.
LEMMA AnswerByRuleTyped ==
    ASSUME RulesFollowed, PacketsTyped, AnswerByRule
    PROVE  PacketsTyped'
<1> DEFINE address == Table!SearchTrie(Rules, Current.qname)
           record == ResourceToBuf(Current.qname, address)
           answer == [ok |-> TRUE, answer_rr |-> 1, authority_rr |-> 0,
                      answer_buf |-> record, authority_buf |-> <<>>, ttl |-> 600]
<1>1. pc = "resolve" /\ address # NULL /\ Collect(answer, NULL)
  BY DEF AnswerByRule, Resolving
<1>2. Len(answers) < Len(questions)
  BY <1>1 DEF RulesFollowed
<1>3. Says(file, Len(file), Current.qname, address) /\ QuestionTyped(Current)
  BY <1>2, CurrentRule, CurrentTyped, Zenon
<1> HIDE DEF address
<1>4. address \in Address
  <2>1. file \in Seq(RuleLine)
    BY FilesAssumption DEF RulesFollowed, RuleLine, Address
  <2> QED
    BY <1>1, <1>3, <2>1, SaysAddress
<1>5. record \in Seq(Octet)
  BY <1>3, <1>4, RuleOctets, Zenon DEF QuestionTyped
<1> HIDE DEF record
<1>6. AnswerTyped(answer)
  <2>1. 1 \in Octet /\ 0 \in Octet /\ <<>> \in Seq(Octet)
    BY IsOctet
  <2>2. /\ answer.answer_buf = record /\ answer.authority_buf = <<>>
        /\ answer.answer_rr = 1 /\ answer.authority_rr = 0
    BY Zenon
  <2> QED
    BY <1>5, <2>1, <2>2, Zenon DEF AnswerTyped
<1> HIDE DEF answer
<1> QED
  BY <1>1, <1>6, CollectTyped, Zenon

\* Ask writes octets.
LEMMA AskTyped ==
    ASSUME RulesFollowed, PacketsTyped, Ask
    PROVE  PacketsTyped'
<1>1. /\ pc = "resolve" /\ pc' = "recv" /\ query' = QueryBuf(Current, 258)
      /\ UNCHANGED <<message, buf, questions, answers, offset, sent, status>>
  BY DEF Ask, Resolving, Goto
<1>2. Len(answers) < Len(questions)
  BY <1>1 DEF RulesFollowed
<1>3. query' \in Seq(Octet)
  BY <1>1, <1>2, CurrentTyped, QueryOctets, Zenon
<1> QED
  BY <1>1, <1>3, LeavingTyped, Zenon

\* Receive cuts octets out of what it was sent.
LEMMA ReceiveTyped ==
    ASSUME RulesFollowed, SectionsKept, PacketsTyped, NEW a \in Answers, Receive(a)
    PROVE  PacketsTyped'
<1> DEFINE answer == ReadAnswer(UpstreamPacket(query, a), Len(query))
           source == [query |-> query, given |-> a]
<1>1. /\ pc = "recv" /\ Len(UpstreamPacket(query, a)) <= BufLen
      /\ \/ answer.ok /\ Collect(answer, source)
         \/ /\ pc' \in {"fail", "done"} /\ status' \in {"undefined", status}
            /\ UNCHANGED <<message, buf, questions, answers, offset, sent, query>>
  BY DEF Receive, Goto
<1>2. query \in Seq(Nat) /\ Len(query) >= 12
  BY <1>1 DEF SectionsKept
<1> HIDE DEF source
<1>3. CASE answer.ok /\ Collect(answer, source)
  <2>1. AnswerTyped(answer)
    BY <1>1, <1>2, <1>3, AnswerOfPacket, Zenon
  <2> HIDE DEF answer
  <2> QED
    BY <1>1, <1>3, <2>1, CollectTyped, Zenon
<1>4. CASE /\ pc' \in {"fail", "done"} /\ status' \in {"undefined", status}
           /\ UNCHANGED <<message, buf, questions, answers, offset, sent, query>>
  BY <1>1, <1>4, LeavingTyped, Zenon
<1> QED
  BY <1>1, <1>3, <1>4, Zenon

\* The header of the reply and the questions behind it.
LEMMA ReplyFront ==
    ASSUME RulesFollowed, PacketsTyped, pc \in {"fail", "reply"}, NEW rcode \in Octet
    PROVE  ReplyHeader(rcode) \o Asked \in Seq(Octet)
<1> DEFINE h == [Header(buf) EXCEPT !.qr = 1, !.rcode = rcode,
                                    !.ancount = @ + Total("answer_rr"),
                                    !.nscount = @ + Total("authority_rr")]
<1>1. message \in Messages /\ buf = ClientPacket(message) /\ offset = Len(buf)
  BY Zenon DEF PacketsTyped
<1>2. /\ buf \in Seq(Octet) /\ Len(buf) \in Nat
      /\ 12 + 4 * Len(message.questions) <= Len(buf)
      /\ Len(message.questions) \in Nat
      /\ Header(buf).ancount = 0 /\ Header(buf).nscount = 0
  <2>1. message.questions \in Seq([name : Seq(Octet), qtype : Word])
    BY <1>1, MessageGiven, Zenon
  <2> QED
    BY <1>1, <2>1, ClientRead, ClientLaid, LenProperties, Zenon
<1>3. /\ Header(buf).id \in Word /\ Header(buf).qdcount \in Word /\ Header(buf).arcount \in Word
  BY <1>2, HeaderTyped, Zenon
<1>4. Total("answer_rr") \in Word /\ Total("authority_rr") \in Word
  <2>1. Len(answers) \in Nat /\ Len(answers) <= 255
    <3>1. Len(answers) \in Nat /\ Len(questions) \in Nat
      BY AppendAnything, LenProperties, Zenon DEF RulesFollowed
    <3>2. Len(answers) <= Len(questions) /\ Len(questions) <= 255
      BY Zenon DEF PacketsTyped
    <3> QED
      BY <3>1, <3>2
  <2>2. \A i \in 1 .. Len(answers) : /\ answers[i].answer_rr \in Octet
                                     /\ answers[i].authority_rr \in Octet
    BY Zenon DEF PacketsTyped, AnswerTyped
  <2>3. \A i \in 1 .. Len(answers) : /\ answers[i]["answer_rr"] \in Octet
                                     /\ answers[i]["authority_rr"] \in Octet
    BY <2>2
  <2> QED
    BY <2>1, <2>3, TotalTyped, Zenon
<1>5. /\ h.id = Header(buf).id /\ h.qr = 1 /\ h.rcode = rcode /\ h.qdcount = Header(buf).qdcount
      /\ h.ancount = Header(buf).ancount + Total("answer_rr")
      /\ h.nscount = Header(buf).nscount + Total("authority_rr")
      /\ h.arcount = Header(buf).arcount
  BY DEF Header
<1>6. h.ancount = Total("answer_rr") /\ h.nscount = Total("authority_rr")
  <2>1. \A n \in Word : 0 + n = n
    BY DEF Word
  <2> QED
    BY <1>2, <1>4, <1>5, <2>1, Zenon
<1>7. ReplyHeader(rcode) = PutHeader(h)
  BY Zenon DEF ReplyHeader
<1> HIDE DEF h
<1>8. PutHeader(h) \in Seq(Octet)
  <2>1. h.qr \in {0, 1}
    BY <1>5, Zenon
  <2> QED
    BY <1>3, <1>4, <1>5, <1>6, <2>1, HeaderWritten, Zenon
<1>9. Asked \in Seq(Octet)
  <2>1. 13 \in 1 .. Len(buf) + 1 /\ Len(buf) \in 13 - 1 .. Len(buf)
    BY <1>2
  <2>2. SubSeq(buf, 13, Len(buf)) \in Seq(Octet)
    BY <1>2, <2>1, PlacedSubSeq, Zenon
  <2>3. Asked = SubSeq(buf, 13, Len(buf))
    BY <1>1 DEF Asked, HeaderLen
  <2> QED
    BY <2>2, <2>3, Zenon
<1> QED
  BY <1>7, <1>8, <1>9, PlacedConcat, Zenon

\* What is written behind them.
LEMMA BodyTyped ==
    ASSUME RulesFollowed, PacketsTyped
    PROVE  /\ Body \in Seq(Seq(Octet)) /\ Len(Body) = 2 * Len(answers)
           /\ FlattenSeq(Body) \in Seq(Octet)
<1> DEFINE n == Len(answers)
           front == [i \in DOMAIN answers |->
                        IF answers[i].answer_rr > 0 THEN answers[i].answer_buf ELSE <<>>]
           back == [i \in DOMAIN answers |->
                        IF answers[i].authority_rr > 0 THEN answers[i].authority_buf ELSE <<>>]
<1>1. n \in Nat /\ DOMAIN answers = 1 .. n
  BY AppendAnything DEF RulesFollowed
<1>2. \A i \in 1 .. n : answers[i].answer_buf \in Seq(Octet) /\ answers[i].authority_buf \in Seq(Octet)
  BY Zenon DEF PacketsTyped, AnswerTyped
<1>3. Body = front \o back
  BY Zenon DEF Body
<1>4. \A i \in 1 .. n : front[i] \in Seq(Octet) /\ back[i] \in Seq(Octet)
  <2>1. <<>> \in Seq(Octet)
    OBVIOUS
  <2>2. \A i \in 1 .. n : /\ front[i] \in {answers[i].answer_buf, <<>>}
                          /\ back[i] \in {answers[i].authority_buf, <<>>}
    BY <1>1
  <2> QED
    BY <1>2, <2>1, <2>2, Zenon
<1>5. front = [i \in 1 .. n |-> front[i]] /\ back = [i \in 1 .. n |-> back[i]]
  BY <1>1
<1> HIDE DEF n, front, back
<1>6. front \in Seq(Seq(Octet)) /\ Len(front) = n
  <2>1. \A i \in 1 .. n : front[i] \in Seq(Octet)
    BY <1>4, Zenon
  <2> QED
    BY <1>1, <1>5, <2>1, AnySequence, Zenon
<1>7. back \in Seq(Seq(Octet)) /\ Len(back) = n
  <2>1. \A i \in 1 .. n : back[i] \in Seq(Octet)
    BY <1>4, Zenon
  <2> QED
    BY <1>1, <1>5, <2>1, AnySequence, Zenon
<1>8. Body \in Seq(Seq(Octet)) /\ Len(Body) = Len(front) + Len(back)
  BY <1>3, <1>6, <1>7, PlacedConcat, Zenon
<1>9. Len(Body) = 2 * n
  BY <1>1, <1>6, <1>7, <1>8
<1> QED
  BY <1>8, <1>9, Flattened, Zenon DEF n

LEMMA ReplyTyped ==
    ASSUME RulesFollowed, PacketsTyped, ReplyFailure \/ ReplyAnswers
    PROVE  PacketsTyped'
<1>1. /\ pc \in {"fail", "reply"} /\ pc' = "done" /\ status' \in {"undefined", status}
      /\ UNCHANGED <<message, buf, questions, answers, offset, query>>
  BY DEF ReplyFailure, ReplyAnswers, Goto
<1>2. sent' = sent \/ sent' \in Seq(Octet)
  <2>1. CASE ReplyFailure
    <3>1. 3 \in Octet
      BY IsOctet
    <3> QED
      BY <1>1, <2>1, <3>1, ReplyFront, Zenon DEF ReplyFailure
  <2>2. CASE ReplyAnswers
    <3> DEFINE rcode == IF \E i \in DOMAIN answers : answers[i].answer_rr = 0 THEN 3 ELSE 0
               front == ReplyHeader(rcode) \o Asked
               body == FlattenSeq(Body)
    <3>1. sent' = sent \/ sent' = ReplyHeader(rcode) \o Asked \o body
      BY <2>2, Zenon DEF ReplyAnswers
    <3>2. rcode \in Octet
      <4>1. 3 \in Octet /\ 0 \in Octet /\ rcode \in {0, 3}
        BY IsOctet
      <4> QED
        BY <4>1, Zenon
    <3> HIDE DEF rcode
    <3>3. front \in Seq(Octet) /\ body \in Seq(Octet)
      BY <1>1, <3>2, ReplyFront, BodyTyped, Zenon
    <3>4. front \o body \in Seq(Octet)
      BY <3>3, PlacedConcat, Zenon
    <3> QED
      BY <3>1, <3>4, Zenon
  <2> QED
    BY <2>1, <2>2, Zenon
<1> QED
  BY <1>1, <1>2, LeavingTyped, Zenon

\* The steps, one by one.
LEMMA NextTyped == RulesFollowed /\ SectionsKept /\ PacketsTyped /\ [Next]_vars => PacketsTyped'
<1> SUFFICES ASSUME RulesFollowed, SectionsKept, PacketsTyped, [Next]_vars PROVE PacketsTyped'
  OBVIOUS
<1>1. CASE ParseResponse \/ Refuse \/ SearchOutside \/ GiveUp
  <2>1. /\ pc' \in {"fail", "done"} /\ status' \in {"undefined", status}
        /\ pc' = "fail" => pc \in {"resolve", "recv"}
        /\ UNCHANGED <<message, buf, questions, answers, offset, sent, query>>
    BY <1>1 DEF ParseResponse, Refuse, SearchOutside, GiveUp, Resolving, Goto
  <2> QED
    BY <2>1, LeavingTyped, Zenon
<1>2. CASE ParseRequest
  BY <1>2, ParseTyped
<1>3. CASE AnswerByRule
  BY <1>3, AnswerByRuleTyped
<1>4. CASE Ask
  BY <1>4, AskTyped
<1>5. ASSUME NEW a \in Answers, Receive(a) PROVE PacketsTyped'
  BY <1>5, ReceiveTyped
<1>6. CASE ReplyFailure \/ ReplyAnswers
  BY <1>6, ReplyTyped
<1>7. CASE UNCHANGED vars
  BY <1>7 DEF vars, PacketsTyped, QuestionTyped, AnswerTyped
<1> QED
  BY <1>1, <1>2, <1>3, <1>4, <1>5, <1>6, <1>7, Zenon DEF Next

\* What the types promise is part of it.
LEMMA TypedIsOK == RulesFollowed /\ PacketsTyped => TypeOK
<1> SUFFICES ASSUME RulesFollowed, PacketsTyped PROVE TypeOK
  OBVIOUS
<1>1. buf \in Seq(Octet) /\ offset \in 0 .. BufLen
  BY ClientOffset, Zenon
<1>2. \A packet \in {buf, sent, query} \ {NULL} : packet \in Seq(Octet)
  BY <1>1, Zenon DEF PacketsTyped
<1>3. \A i \in DOMAIN questions : questions[i].qname \in Seq(Octet)
  <2>1. DOMAIN questions = 1 .. Len(questions)
    BY LenProperties, Zenon DEF RulesFollowed
  <2> QED
    BY <2>1, Zenon DEF PacketsTyped, QuestionTyped
<1>4. \A i \in DOMAIN answers : answers[i].answer_buf \o answers[i].authority_buf \in Seq(Octet)
  <2>1. DOMAIN answers = 1 .. Len(answers)
    BY AppendAnything, Zenon DEF RulesFollowed
  <2>2. \A i \in 1 .. Len(answers) : /\ answers[i].answer_buf \in Seq(Octet)
                                     /\ answers[i].authority_buf \in Seq(Octet)
    BY Zenon DEF PacketsTyped, AnswerTyped
  <2> QED
    BY <2>1, <2>2, PlacedConcat, Zenon
<1>5. file \in Files /\ Len(sources) = Len(answers)
  BY Zenon DEF RulesFollowed
<1> QED
  BY <1>1, <1>2, <1>3, <1>4, <1>5, Zenon DEF TypeOK, PacketsTyped

\* Every packet that a request makes is octets: no count, length or number that the code
\* puts into one is too large for its field, whatever the client asks and whatever the
\* rules and the server answer.
THEOREM PacketsTypeCorrect == Spec => []TypeOK
BY InitFollows, NextFollows, InitKeeps, NextKeeps, InitTyped, NextTyped, TypedIsOK,
   PTL DEF Spec

-----------------------------------------------------------------------------
(***************************************************************************)
(* What is undefined behaviour.                                            *)
(***************************************************************************)
\* Of a name that is not compressed dns_parse_qname reads as many characters, with a dot
\* behind each label, as it has octets before the root.
LEMMA NameSpans ==
    ASSUME NEW p \in Seq(Nat), NEW at \in Nat, NEW name \in Seq(Nat),
           NameInPacket(name, FALSE), Placed(p, at, name)
    PROVE  \E r \in Seq(Nat) : /\ ParseQname(p, at).name = SubSeq(r, 1, Len(r) - 1)
                               /\ Len(r) = Len(name) - 1
<1>1. PICK places \in SUBSET DOMAIN name :
          /\ 1 \in places
          /\ \A k \in places : \/ name[k] = 0 /\ k = Len(name)
                               \/ name[k] \in 1 .. 63 /\ k + name[k] + 1 \in places
  BY DEF NameInPacket
<1>2. PICK parse : /\ ParsesNames(Nat, p, parse)
                   /\ \A i \in Nat :
                         ParseQname(p, i) =
                             [parse[Len(p)][i] EXCEPT !.name = SubSeq(@, 1, Len(@) - 1)]
  BY NamesUnroll, OctetsAreNumbers, Zenon
<1>3. Len(name) \in Nat /\ Len(p) \in Nat /\ DOMAIN name = 1 .. Len(name)
  OBVIOUS
<1> DEFINE Spans(left) == \A k \in places :
               Len(name) - k <= left => Len(parse[left][at + k - 1].name) = Len(name) - k
           T == {left \in 0 .. Len(p) : Spans(left)}
<1>4. ASSUME NEW left \in 0 .. Len(p), left # 0 => Spans(left - 1), NEW k \in places,
             Len(name) - k <= left
      PROVE  Len(parse[left][at + k - 1].name) = Len(name) - k
  <2> DEFINE j == at + k - 1
             n == U8(p, j)
             rest == parse[left - 1]
  <2>1. k \in 1 .. Len(name) /\ k \in Nat /\ j \in Nat
    BY <1>3
  <2>2. n = name[k] /\ n \in Nat
    <3>1. n = name[k] /\ name[k] \in Nat
      BY <2>1, PlacedReads DEF n
    <3> QED
      BY <3>1
  <2>3. parse[left][j] = LabelsLeft(p, rest, left, j)
    BY <1>2, <2>1 DEF ParsesNames
  <2> HIDE DEF n
  <2>4. (n = 0 /\ k = Len(name)) \/ (n \in 1 .. 63 /\ k + n + 1 \in places)
    BY <1>1, <2>2, Zenon
  <2>5. CASE n = 0 /\ k = Len(name)
    <3>1. parse[left][j].name = <<>>
      BY <2>3, <2>5 DEF LabelsLeft, n
    <3> QED
      BY <1>3, <2>5, <3>1
  <2>6. CASE n \in 1 .. 63 /\ k + n + 1 \in places
    <3> DEFINE r == rest[j + n + 1]
               label == Octets(p, j + 1, j + n + 1)
               l == Len(name)
    <3>1. k + n + 1 \in 1 .. l /\ left # 0 /\ left - 1 \in 0 .. Len(p) /\ left \in Nat
          /\ n # 0 /\ ~(n >= 192)
      BY <1>3, <1>4, <2>1, <2>6
    <3>2. parse[left][j] = [r EXCEPT !.name = label \o <<Dot>> \o @]
      BY <2>3, <3>1 DEF LabelsLeft, n
    <3>3. r \in Parsed(Nat)
      <4>1. j + n + 1 \in Nat
        BY <2>1, <2>2
      <4>2. rest \in [Nat -> Parsed(Nat)]
        BY <1>2, <3>1 DEF ParsesNames
      <4> QED
        BY <4>1, <4>2
    <3>4. j + n + 1 = at + (k + n + 1) - 1 /\ l - (k + n + 1) <= left - 1
      <4>1. l \in Nat /\ l - k <= left
        BY <1>3, <1>4
      <4> HIDE DEF l
      <4>2. left \in Nat /\ k \in Nat /\ n \in Nat
        BY <2>1, <2>2, <3>1, Zenon
      <4>3. l - (k + n + 1) <= left - 1
        BY <4>1, <4>2
      <4>4. j + n + 1 = at + (k + n + 1) - 1
        BY <4>2
      <4> QED
        BY <4>3, <4>4, Zenon
    <3>5. Len(r.name) = l - (k + n + 1)
      BY <1>4, <2>6, <3>1, <3>4
    <3>6. label \in Seq(Nat) /\ Len(label) = n
      BY <2>1, <2>2, LabelLength, Zenon
    <3> HIDE DEF r, label
    <3>7. parse[left][j].name = label \o <<Dot>> \o r.name /\ r.name \in Seq(Nat)
      BY <3>2, <3>3 DEF Parsed
    <3>8. Len(label \o <<Dot>> \o r.name) = Len(label) + 1 + Len(r.name)
      BY <3>6, <3>7, LabelParts, Zenon
    <3>9. Len(parse[left][j].name) = n + 1 + (l - (k + n + 1))
      BY <3>5, <3>6, <3>7, <3>8, Zenon
    <3>10. n + 1 + (l - (k + n + 1)) = l - k
      BY <1>3, <2>1, <2>2
    <3> QED
      BY <3>9, <3>10, Zenon
  <2> QED
    BY <2>4, <2>5, <2>6
<1>5. 0 \in T
  <2>1. 0 \in 0 .. Len(p)
    BY <1>3
  <2> QED
    BY <1>4, <2>1
<1>6. ASSUME NEW n \in 1 .. Len(p), n - 1 \in T PROVE n \in T
  <2>1. n \in 0 .. Len(p)
    BY <1>3
  <2> QED
    BY <1>4, <1>6, <2>1
<1> HIDE DEF T
<1>7. 0 .. Len(p) \subseteq T
  BY <1>3, <1>5, <1>6, UpTo
<1>8. Spans(Len(p))
  <2>1. Len(p) \in 0 .. Len(p)
    BY <1>3
  <2> HIDE DEF Spans
  <2> QED
    BY <1>7, <2>1, Zenon DEF T
<1> DEFINE r == parse[Len(p)][at].name
<1>9. Len(r) = Len(name) - 1
  <2>1. 1 \in places /\ at + 1 - 1 = at /\ Len(name) - 1 <= Len(p)
    BY <1>1, <1>3 DEF Placed
  <2>2. Len(parse[Len(p)][at + 1 - 1].name) = Len(name) - 1
    BY <1>8, <2>1
  <2> QED
    BY <2>1, <2>2
<1>10. parse[Len(p)][at] \in Parsed(Nat)
  <2>1. Len(p) \in 0 .. Len(p)
    BY <1>3
  <2>2. parse[Len(p)] \in [Nat -> Parsed(Nat)]
    BY <1>2, <2>1 DEF ParsesNames
  <2> QED
    BY <2>2
<1>11. r \in Seq(Nat) /\ ParseQname(p, at).name = SubSeq(r, 1, Len(r) - 1)
  BY <1>2, <1>10 DEF Parsed
<1> HIDE DEF r
<1> QED
  BY <1>9, <1>11, Zenon

\* So many does QnameLen say.
LEMMA QnameSpans ==
    ASSUME NEW p \in Seq(Nat), NEW at \in Nat, NEW name \in Seq(Nat),
           NameInPacket(name, FALSE), Placed(p, at, name)
    PROVE  QnameLen(p, at) = Len(name) - 1
<1>1. PICK places \in SUBSET DOMAIN name :
          /\ 1 \in places
          /\ \A k \in places : \/ name[k] = 0 /\ k = Len(name)
                               \/ name[k] \in 1 .. 63 /\ k + name[k] + 1 \in places
  BY DEF NameInPacket
<1>2. PICK len : Lengthens(p, len)
  BY LenUnrolls, Zenon
<1> DEFINE l == Len(name)
           size == Len(p)
<1>3. l \in Nat /\ size \in Nat /\ DOMAIN name = 1 .. l /\ at + l <= size
  BY DEF Placed
<1>4. ASSUME NEW k \in places
      PROVE  /\ k \in 1 .. l /\ at + k - 1 \in Nat /\ at + k - 1 < size
             /\ U8(p, at + k - 1) = name[k]
  <2>1. k \in 1 .. l
    BY <1>3
  <2>2. U8(p, at + k - 1) = name[k]
    BY <2>1, PlacedReads
  <2> HIDE DEF l, size
  <2>3. at + k - 1 \in Nat /\ at + k - 1 < size
    BY <1>3, <2>1
  <2> QED
    BY <2>1, <2>2, <2>3, Zenon
<1> DEFINE Spans(left) == \A k \in places : l - k < left => len[left][at + k - 1] = l - k
           T == {left \in 0 .. size : Spans(left)}
<1>5. ASSUME NEW left \in 0 .. size, left # 0 => Spans(left - 1), NEW k \in places,
             l - k < left
      PROVE  len[left][at + k - 1] = l - k
  <2> DEFINE j == at + k - 1
             n == name[k]
             rest == len[left - 1]
             jump == U16(p, j) % 16384
  <2>1. k \in 1 .. l /\ j \in Nat /\ j < size /\ U8(p, j) = n
    BY <1>4, Zenon
  <2>2. len[left][j] = LenLeft(p, rest, left, j)
    BY <1>2, <2>1, Zenon DEF Lengthens
  <2> HIDE DEF j, n, rest
  <2>3. len[left][j] = IF left = 0 \/ j >= size THEN MaxDomainLen + 1
                       ELSE IF n = 0 THEN 0
                       ELSE IF n >= 192 THEN rest[jump] ELSE n + 1 + rest[j + n + 1]
    BY <2>1, <2>2 DEF LenLeft
  <2>4. (n = 0 /\ k = l) \/ (n \in 1 .. 63 /\ k + n + 1 \in places)
    BY <1>1, Zenon DEF n
  <2> HIDE DEF l, size, jump
  <2>5. left # 0 /\ ~(j >= size) /\ left - 1 \in 0 .. size /\ left \in Nat
    BY <1>3, <1>5, <2>1
  <2>6. CASE n = 0 /\ k = l
    <3>1. len[left][j] = 0 /\ l - k = 0
      BY <1>3, <2>3, <2>5, <2>6
    <3> QED
      BY <3>1, Zenon DEF j
  <2>7. CASE n \in 1 .. 63 /\ k + n + 1 \in places
    <3>1. len[left][j] = n + 1 + rest[j + n + 1]
      BY <2>3, <2>5, <2>7
    <3>2. j + n + 1 = at + (k + n + 1) - 1 /\ k + n + 1 \in 1 .. l
      BY <1>4, <2>1, <2>7 DEF j
    <3>3. l - (k + n + 1) < left - 1
      BY <1>3, <1>5, <2>1, <2>5, <2>7
    <3>4. rest[at + (k + n + 1) - 1] = l - (k + n + 1)
      BY <1>5, <2>5, <2>7, <3>3, Zenon DEF rest
    <3>5. n + 1 + (l - (k + n + 1)) = l - k
      BY <1>3, <2>1, <2>7
    <3> QED
      BY <3>1, <3>2, <3>4, <3>5, Zenon DEF j
  <2> QED
    BY <2>4, <2>6, <2>7, Zenon DEF j
<1>6. 0 \in T
  <2>1. 0 \in 0 .. size
    BY <1>3
  <2> QED
    BY <1>5, <2>1
<1>7. ASSUME NEW n \in 1 .. size, n - 1 \in T PROVE n \in T
  <2>1. n \in 0 .. size
    BY <1>3
  <2> QED
    BY <1>5, <1>7, <2>1
<1> HIDE DEF T
<1>8. 0 .. size \subseteq T
  BY <1>3, <1>6, <1>7, UpTo
<1>9. Spans(size)
  <2>1. size \in 0 .. size
    BY <1>3
  <2> HIDE DEF Spans
  <2> QED
    BY <1>8, <2>1, Zenon DEF T
<1>10. QnameLen(p, at) = len[size][at]
  BY <1>2, Zenon DEF Lengthens
<1> HIDE DEF l, size
<1>11. 1 \in places /\ at + 1 - 1 = at /\ l - 1 < size
  BY <1>1, <1>3, <1>4
<1>12. len[size][at] = l - 1
  BY <1>9, <1>11
<1> QED
  BY <1>10, <1>12, Zenon DEF l

\* The only question of a datagram, and the name that is asked.
LEMMA OneQuestion ==
    ASSUME NEW m \in Messages, Len(m.questions) = 1, NEW p, p = ClientPacket(m),
           NEW name, name = ToUpper(ParseQname(p, 12).name), name # <<>>
    PROVE  /\ Len(p) = Len(name) + 18 /\ Len(m.questions[1].name) = Len(name) + 2
           /\ QnameLen(p, 12) = Len(name) + 1 /\ Len(name) \in Nat
<1> DEFINE w == m.questions[1].name
<1>1. p \in Seq(Octet) /\ Len(p) = Len(w) + 16 /\ Placed(p, 12, w)
  BY ClientRead, Zenon
<1>2. w \in Seq(Octet) /\ NameInPacket(w, FALSE)
  <2>1. /\ m.questions \in Seq([name : Seq(Octet), qtype : Word])
        /\ \A i \in DOMAIN m.questions : NameInPacket(m.questions[i].name, i # 1)
    BY MessageGiven, Zenon
  <2>2. 1 \in 1 .. Len(m.questions) /\ DOMAIN m.questions = 1 .. Len(m.questions)
    BY <2>1, LenProperties
  <2>3. m.questions[1] \in [name : Seq(Octet), qtype : Word]
    BY <2>1, <2>2, ElementOfSeq, Zenon
  <2>4. NameInPacket(w, 1 # 1) /\ (1 # 1) = FALSE
    BY <2>1, <2>2
  <2> QED
    BY <2>3, <2>4
<1> HIDE DEF w
<1>3. p \in Seq(Nat) /\ w \in Seq(Nat) /\ 12 \in Nat
  BY <1>1, <1>2, Widened, OctetsAreNumbers
<1>4. PICK r \in Seq(Nat) : /\ ParseQname(p, 12).name = SubSeq(r, 1, Len(r) - 1)
                            /\ Len(r) = Len(w) - 1
  BY <1>1, <1>2, <1>3, NameSpans, Zenon
<1>5. name = ToUpper(SubSeq(r, 1, Len(r) - 1))
  BY <1>4, Zenon
<1>6. Len(ToUpper(r)) = Len(name) + 1 /\ Len(ToUpper(r)) = Len(r) /\ Len(name) \in Nat
  <2>1. WithDot(name, r)
    BY <1>5, LastDotDropped, Zenon
  <2> QED
    BY <2>1, UpperPlaces, Zenon DEF WithDot
<1>7. Len(w) \in Nat /\ Len(r) = Len(w) - 1
  BY <1>3, <1>4, LenProperties, Zenon
<1>8. QnameLen(p, 12) = Len(w) - 1
  BY <1>1, <1>2, <1>3, QnameSpans, Zenon
<1> DEFINE l == Len(w)
           n == Len(name)
<1>9. Len(p) = l + 16 /\ l \in Nat /\ n \in Nat /\ l - 1 = n + 1 /\ QnameLen(p, 12) = l - 1
  BY <1>1, <1>6, <1>7, <1>8, Zenon
<1> HIDE DEF l, n
<1>10. l + 16 = n + 18 /\ l = n + 2 /\ l - 1 = n + 1
  BY <1>9
<1> QED
  BY <1>9, <1>10, Zenon DEF l, n, w

LEMMA FirstAsked ==
    ASSUME NEW p \in Seq(Octet), NEW q, AskedAt(p, PastQuestions(p, 0), q)
    PROVE  /\ Qname(QuestionOf(p, 1).name, q.qname) /\ QuestionOf(p, 1).name \in Labels
           /\ q.qname = ToUpper(ParseQname(p, 12).name)
<1>1. p \in Seq(Nat)
  BY Widened, OctetsAreNumbers, Zenon
<1>2. PastQuestions(p, 0) = 12 /\ 12 \in Nat /\ 1 - 1 = 0
  BY <1>1, FirstQuestion
<1>3. q.qname = ToUpper(ParseQname(p, 12).name)
  BY <1>2, Zenon DEF AskedAt
<1>4. QuestionOf(p, 1).name = Name(p, 12)
  BY <1>2, Zenon DEF QuestionOf
<1> QED
  BY <1>1, <1>2, <1>3, <1>4, QnameRead, NameTyped, Zenon

\* With the questions in front there is room for an answer.
RoomFor(answer) == Len(buf) + Len(answer.answer_buf) + Len(answer.authority_buf) <= BufLen

\* To a single question, whose name has as many octets in a record as in the datagram.
RoomKept ==
    /\ Len(questions) = 1 =>
          /\ questions[1].qname # <<>> =>
                /\ Len(buf) = Len(questions[1].qname) + 18
                /\ Len(message.questions[1].name) = Len(questions[1].qname) + 2
          /\ \A i \in 1 .. Len(answers) : RoomFor(answers[i])
    /\ UndefinedNeedsOddity

LEMMA InitKeepsRoom == Init => RoomKept
<1>1. Len(<<>>) = 0 /\ 0 # 1 /\ "up" # "undefined"
  OBVIOUS
<1> QED
  BY <1>1, Zenon DEF Init, RoomKept, UndefinedNeedsOddity

\* Where nothing more is undefined and no answer is appended, the room stays.
LEMMA LeavingKeepsRoom ==
    ASSUME RoomKept, UNCHANGED <<message, file, buf, questions, answers, status>>,
           status = "up" \/ query' = query
    PROVE  RoomKept'
<1>1. "up" # "undefined"
  OBVIOUS
<1>2. UndefinedNeedsOddity'
  BY <1>1, Zenon DEF RoomKept, UndefinedNeedsOddity
<1> QED
  BY <1>2, Zenon DEF RoomKept, RoomFor

\* ParseRequest reads names that do not fit, a root name among them.
LEMMA ParseKeepsRoom ==
    ASSUME RulesFollowed, PacketsTyped, RoomKept, QuestionsKept', ParseRequest
    PROVE  RoomKept'
<1> DEFINE qs == ParseQuestions(buf).questions
<1>1. /\ questions' = [i \in DOMAIN qs |-> [qs[i] EXCEPT !.qname = ToUpper(@)]]
      /\ status' = IF QuestionsFit(buf) THEN "up" ELSE "undefined"
      /\ pc = "parse" /\ UNCHANGED <<message, buf, answers>>
  BY DEF ParseRequest, Goto
<1>2. message \in Messages /\ buf = ClientPacket(message)
  BY Zenon DEF PacketsTyped
<1>3. buf \in Seq(Octet) /\ Len(qs) = Len(message.questions)
  BY <1>2, ClientRead, Zenon
<1>4. qs \in Seq(Asking) /\ Len(qs) = Header(buf).qdcount
  <2>1. ParseQuestions(buf) \in Questioned
    BY <1>3, ParsedQuestions, Zenon
  <2>2. Len(qs) = Header(buf).qdcount
    BY <1>3, AllFound, Zenon
  <2> QED
    BY <2>1, <2>2 DEF Questioned
<1> HIDE DEF qs
<1>5. Len(questions') = Len(qs) /\ DOMAIN questions' = 1 .. Len(qs)
  <2>1. DOMAIN qs = 1 .. Len(qs) /\ Len(qs) \in Nat
    BY <1>4, LenProperties, Zenon
  <2>2. questions' = [i \in 1 .. Len(qs) |-> questions'[i]]
    BY <1>1, <2>1
  <2>3. \A i \in 1 .. Len(qs) : questions'[i] \in {questions'[j] : j \in 1 .. Len(qs)}
    OBVIOUS
  <2> QED
    BY <2>1, <2>2, <2>3, AnySequence
<1>6. answers = <<>>
  BY <1>1 DEF RulesFollowed
<1>7. Len(questions') > 1 \/ Len(questions') = 1 \/ Len(questions') = 0
  BY <1>4, <1>5
<1>8. CASE Len(questions') > 1
  <2>1. Len(questions') # 1
    <3>1. \A n : n > 1 => n # 1
      OBVIOUS
    <3> QED
      BY <1>8, <3>1
  <2> QED
    BY <1>1, <1>8, <2>1, Zenon DEF RoomKept, UndefinedNeedsOddity
<1>9. CASE Len(questions') = 0
  <2>1. Len(questions') # 1 /\ "up" # "undefined"
    BY <1>9
  <2>2. status' = "up"
    <3>1. Header(buf).qdcount = 0 /\ \A n \in 0 .. 0 - 1 : FALSE
      BY <1>4, <1>5, <1>9
    <3>2. QuestionsFit(buf)
      BY <1>3, <3>1, QuestionsFitting, Zenon
    <3> QED
      BY <1>1, <3>2, Zenon
  <2> QED
    BY <1>1, <2>1, <2>2, Zenon DEF RoomKept, UndefinedNeedsOddity
<1>10. CASE Len(questions') = 1
  <2> DEFINE q == questions'[1]
             name == QuestionOf(buf, 1).name
  <2>1. 1 \in 1 .. Len(questions') /\ 1 - 1 = 0 /\ DOMAIN questions' = {1}
    BY <1>5, <1>10
  <2>2. AskedAt(buf, PastQuestions(buf, 0), q)
    <3>1. AskedAt(buf', PastQuestions(buf', 1 - 1), q)
      BY <2>1, Zenon DEF QuestionsKept
    <3> QED
      BY <1>1, <2>1, <3>1, Zenon
  <2>3. Qname(name, q.qname) /\ q.qname = ToUpper(ParseQname(buf, 12).name)
    BY <1>3, <2>2, FirstAsked, Zenon
  <2> DEFINE w == message.questions[1].name
  <2>4. q.qname # <<>> => /\ Len(buf) = Len(q.qname) + 18 /\ Len(w) = Len(q.qname) + 2
                          /\ QnameLen(buf, 12) = Len(q.qname) + 1 /\ Len(q.qname) \in Nat
    <3>1. Len(message.questions) = 1
      BY <1>3, <1>5, <1>10, Zenon
    <3> QED
      BY <1>2, <2>3, <3>1, OneQuestion, Zenon
  <2>5. q.qname = <<>> => name = <<>>
    BY <2>3, Zenon DEF Qname
  <2>6. status' = "undefined" => ~NameFits(buf, 12)
    <3>1. "up" # "undefined"
      OBVIOUS
    <3>2. Header(buf).qdcount = 1 /\ \A n \in 0 .. 1 - 1 : n = 0
      BY <1>4, <1>5, <1>10
    <3>3. PastQuestions(buf, 0) = 12
      <4>1. buf \in Seq(Nat)
        BY <1>3, Widened, OctetsAreNumbers, Zenon
      <4> QED
        BY <4>1, FirstQuestion, Zenon
    <3> QED
      BY <1>1, <1>3, <3>1, <3>2, <3>3, QuestionsFitting, Zenon
  <2>7. status' = "undefined" => q.qname = <<>> \/ Len(w) > MaxDomainLen - 4
    <3> DEFINE l == Len(q.qname)
    <3> HIDE DEF l
    <3>1. SUFFICES ASSUME q.qname # <<>>, ~NameFits(buf, 12)
                   PROVE  Len(w) > MaxDomainLen - 4
      BY <2>6, Zenon
    <3>2. ~(l + 1 \in 1 .. MaxDomainLen) /\ l \in Nat /\ Len(w) = l + 2
      BY <2>4, <3>1, Zenon DEF NameFits, l
    <3>3. MaxDomainLen \in Nat
      BY LengthsAssumption, Zenon
    <3> HIDE DEF w
    <3> QED
      BY <3>2, <3>3
  <2>8. questions' # <<>>
    <3>1. Len(<<>>) = 0 /\ 0 # 1
      OBVIOUS
    <3> QED
      BY <1>10, <3>1, Zenon
  <2>9. UndefinedNeedsOddity'
    BY <1>1, <2>5, <2>7, <2>8, Zenon DEF UndefinedNeedsOddity
  <2>10. Len(answers') = 0 /\ 1 .. 0 = {}
    BY <1>1, <1>6
  <2> QED
    BY <1>1, <2>4, <2>9, <2>10, Zenon DEF RoomKept
<1> QED
  BY <1>7, <1>8, <1>9, <1>10, Zenon

\* The single question, while it is resolved: its name is as long as the datagram says.
LEMMA SingleQuestion ==
    ASSUME RulesFollowed, PacketsTyped, QuestionsKept, RoomKept, pc \in {"resolve", "recv"},
           status = "up", Len(questions) = 1
    PROVE  /\ Len(buf) = Len(Current.qname) + 18 /\ QuestionTyped(Current)
           /\ Len(Current.qname) \in Nat
           /\ Len(buf) \in Nat /\ 2 * Len(buf) <= BufLen
<1>1. Len(answers) < Len(questions) /\ Len(answers) \in Nat
  BY AppendAnything DEF RulesFollowed
<1>2. Len(answers) = 0 /\ 1 \in 1 .. Len(questions)
  <2>1. \A n \in Nat : n < 1 => n = 0
    OBVIOUS
  <2> QED
    BY <1>1, <2>1
<1>3. Current = questions[1]
  BY <1>2 DEF Current
<1>4. questions[1].qname # <<>>
  BY <1>2, Zenon DEF QuestionsKept
<1>5. Len(buf) = Len(Current.qname) + 18
  BY <1>3, <1>4, Zenon DEF RoomKept
<1>6. QuestionTyped(Current)
  BY <1>1, CurrentTyped, Zenon
<1>7. Len(Current.qname) \in Nat
  BY <1>6, LenProperties, Zenon DEF QuestionTyped
<1>8. Len(buf) \in Nat /\ Len(buf) <= ReplyRoom
  <2>1. message \in Messages /\ buf = ClientPacket(message)
    BY Zenon DEF PacketsTyped
  <2> QED
    BY <2>1, ClientRead, Zenon
<1>9. 2 * Len(buf) <= BufLen
  <2> DEFINE length == Len(buf)
  <2> HIDE DEF length
  <2>1. length \in Nat /\ length <= ReplyRoom
    BY <1>8, Zenon DEF length
  <2>2. 2 * length <= BufLen
    BY <2>1, Lengths
  <2> QED
    BY <2>2, Zenon DEF length
<1> QED
  BY <1>5, <1>6, <1>7, <1>8, <1>9, Zenon

\* SearchOutside has a letter outside of the array of children, or a name that is too long
\* for the key of the cache.
LEMMA OutsideKeepsRoom ==
    ASSUME RulesFollowed, PacketsTyped, QuestionsKept, RoomKept, SearchOutside
    PROVE  RoomKept'
<1>1. /\ pc = "resolve" /\ status = "up"
      /\ ~InAlphabet(Current.qname) \/ ~KeyFits(Current.qname)
      /\ UNCHANGED <<message, buf, questions, answers>>
  BY DEF SearchOutside, Resolving, Goto
<1>2. /\ Len(answers) < Len(questions) /\ Len(answers) \in Nat /\ Len(questions) \in Nat
  BY <1>1, AppendAnything, LenProperties DEF RulesFollowed
<1> DEFINE w == message.questions[1].name
           name == QuestionOf(buf, 1).name
<1>3. ASSUME ~(Len(questions) > 1)
      PROVE  \/ \E i \in DOMAIN name : ~InAlphabet(name[i])
             \/ questions # <<>> /\ Len(w) > MaxDomainLen - 4
  <2>1. Len(questions) = 1 /\ Len(answers) = 0 /\ 1 \in 1 .. Len(questions) /\ 1 - 1 = 0
    <3>1. \A m \in Nat : \A n \in Nat :
             n < m /\ ~(m > 1) => m = 1 /\ n = 0 /\ 1 \in 1 .. m /\ 1 - 1 = 0
      OBVIOUS
    <3> QED
      BY <1>2, <1>3, <3>1, Zenon
  <2>2. Current = questions[1]
    BY <2>1 DEF Current
  <2>3. CASE ~InAlphabet(Current.qname)
    <3>1. AskedAt(buf, PastQuestions(buf, 0), questions[1])
      <4>1. AskedAt(buf, PastQuestions(buf, 1 - 1), questions[1])
        BY <2>1, Zenon DEF QuestionsKept
      <4> QED
        BY <2>1, <4>1, Zenon
    <3>2. Qname(name, questions[1].qname) /\ name \in Labels
      BY <3>1, ClientOffset, FirstAsked, Zenon
    <3> HIDE DEF name
    <3>3. DOMAIN name = 1 .. Len(name)
      BY <3>2, LenProperties, Zenon DEF Labels
    <3> QED
      BY <2>2, <2>3, <3>2, <3>3, Zenon DEF Qname
  <2>4. CASE ~KeyFits(Current.qname)
    <3> DEFINE l == Len(Current.qname)
    <3>1. l \in Nat /\ ~(5 + l < MaxDomainLen)
      BY <1>1, <2>1, <2>4, SingleQuestion, Zenon DEF KeyFits
    <3>2. Len(w) = l + 2
      BY <1>1, <2>1, <2>2, Zenon DEF RoomKept, QuestionsKept
    <3>3. MaxDomainLen \in Nat
      BY LengthsAssumption, Zenon
    <3>4. questions # <<>>
      <4>1. Len(<<>>) = 0 /\ 0 # 1
        OBVIOUS
      <4> QED
        BY <2>1, <4>1, Zenon
    <3> HIDE DEF l, w
    <3>5. Len(w) > MaxDomainLen - 4
      BY <3>1, <3>2, <3>3
    <3> QED
      BY <3>4, <3>5, Zenon DEF w
  <2> QED
    BY <1>1, <2>3, <2>4, Zenon
<1>4. UndefinedNeedsOddity'
  BY <1>1, <1>3, Zenon DEF UndefinedNeedsOddity
<1> QED
  BY <1>1, <1>4, Zenon DEF RoomKept, RoomFor

\* An answer for which there is room is collected.
LEMMA CollectKeepsRoom ==
    ASSUME RulesFollowed, RoomKept, NEW answer, NEW source, Collect(answer, source),
           status = "up", Len(questions) = 1 => RoomFor(answer)
    PROVE  RoomKept'
<1> DEFINE n == Len(answers)
<1>1. /\ answers' = Append(answers, answer) /\ status # "undefined"
      /\ UNCHANGED <<message, buf, questions, status>>
  BY DEF Collect, Goto
<1>2. IsSequence(answers)
  BY DEF RulesFollowed
<1>3. /\ Len(answers') = n + 1 /\ n \in Nat
      /\ \A i \in 1 .. n : answers'[i] = answers[i]
      /\ answers'[n + 1] = answer
  BY <1>1, <1>2, AppendAnything
<1>4. Len(questions) = 1 => \A i \in 1 .. n : RoomFor(answers[i])
  BY Zenon DEF RoomKept
<1> HIDE DEF n
<1>5. ASSUME NEW i \in 1 .. n + 1, Len(questions) = 1 PROVE RoomFor(answers'[i])
  <2>1. CASE i = n + 1
    BY <1>3, <1>5, <2>1, Zenon
  <2>2. CASE i # n + 1
    <3>1. i \in 1 .. n
      BY <1>3, <2>2
    <3> QED
      BY <1>3, <1>4, <1>5, <3>1, Zenon
  <2> QED
    BY <2>1, <2>2, Zenon
<1>6. \A i \in 1 .. Len(answers') :
         Len(questions) = 1 =>
            Len(buf) + Len(answers'[i].answer_buf) + Len(answers'[i].authority_buf) <= BufLen
  BY <1>3, <1>5, Zenon DEF RoomFor
<1>7. UndefinedNeedsOddity'
  BY <1>1, Zenon DEF RoomKept, UndefinedNeedsOddity
<1>8. Len(questions') = 1 /\ questions'[1].qname # <<>>
      => /\ Len(buf') = Len(questions'[1].qname) + 18
         /\ Len(message'.questions[1].name) = Len(questions'[1].qname) + 2
  BY <1>1, Zenon DEF RoomKept
<1> QED
  BY <1>1, <1>6, <1>7, <1>8, Zenon DEF RoomKept, RoomFor

\* AnswerByRule makes a record that is shorter than the datagram.
LEMMA RuleKeepsRoom ==
    ASSUME RulesFollowed, PacketsTyped, QuestionsKept, RoomKept, AnswerByRule
    PROVE  RoomKept'
<1> DEFINE address == Table!SearchTrie(Rules, Current.qname)
           record == ResourceToBuf(Current.qname, address)
           answer == [ok |-> TRUE, answer_rr |-> 1, authority_rr |-> 0,
                      answer_buf |-> record, authority_buf |-> <<>>, ttl |-> 600]
<1>1. pc = "resolve" /\ status = "up" /\ address # NULL /\ Collect(answer, NULL)
  BY DEF AnswerByRule, Resolving
<1>2. Len(answers) < Len(questions)
  BY <1>1 DEF RulesFollowed
<1>3. Says(file, Len(file), Current.qname, address)
  BY <1>2, CurrentRule, Zenon
<1> HIDE DEF address
<1>4. address \in Address
  <2>1. file \in Seq(RuleLine)
    BY FilesAssumption DEF RulesFollowed, RuleLine, Address
  <2> QED
    BY <1>1, <1>3, <2>1, SaysAddress
<1>5. ASSUME Len(questions) = 1 PROVE RoomFor(answer)
  <2>1. /\ Len(buf) = Len(Current.qname) + 18 /\ QuestionTyped(Current)
        /\ Len(Current.qname) \in Nat /\ Len(buf) \in Nat /\ 2 * Len(buf) <= BufLen
    BY <1>1, <1>5, SingleQuestion, Zenon
  <2>2. Len(record) = Len(Current.qname) + 16
    BY <1>4, <2>1, RuleOctets, Zenon DEF QuestionTyped
  <2>3. answer.answer_buf = record /\ answer.authority_buf = <<>> /\ Len(<<>>) = 0
    OBVIOUS
  <2> HIDE DEF record, answer
  <2> DEFINE length == Len(buf)
             name == Len(Current.qname)
  <2>4. /\ length = name + 18 /\ name \in Nat /\ length \in Nat /\ 2 * length <= BufLen
        /\ Len(record) = name + 16
    BY <2>1, <2>2, Zenon
  <2> HIDE DEF length, name
  <2>5. length + Len(record) + 0 <= BufLen
    BY <2>4, Lengths
  <2> QED
    BY <2>3, <2>5, Zenon DEF RoomFor, length
<1> HIDE DEF answer
<1> QED
  BY <1>1, <1>5, CollectKeepsRoom, Zenon

\* Receive keeps what is behind a query that is as long as the datagram.
LEMMA ReceiveKeepsRoom ==
    ASSUME RulesFollowed, SectionsKept, PacketsTyped, QuestionsKept, RoomKept,
           NEW a \in Answers, Receive(a)
    PROVE  RoomKept'
<1> DEFINE answer == ReadAnswer(UpstreamPacket(query, a), Len(query))
           source == [query |-> query, given |-> a]
<1>1. /\ pc = "recv" /\ Len(UpstreamPacket(query, a)) <= BufLen
      /\ \/ answer.ok /\ Collect(answer, source)
         \/ UNCHANGED <<message, file, buf, questions, answers, query, status>>
         \/ /\ ~NamesFit(UpstreamPacket(query, a), Len(query))
            /\ UNCHANGED <<message, file, buf, questions, answers, query>>
  BY DEF Receive, Goto
<1>2. query \in Seq(Nat) /\ Len(query) >= 12
  BY <1>1 DEF SectionsKept
<1>3. status = "up"
  BY <1>1, Zenon DEF QuestionsKept
<1> HIDE DEF source
<1>5. CASE answer.ok /\ Collect(answer, source)
  <2>1. Len(query) + Len(answer.answer_buf) + Len(answer.authority_buf) <= BufLen
    BY <1>1, <1>2, <1>5, AnswerOfPacket, Zenon
  <2>2. ASSUME Len(questions) = 1 PROVE Len(query) = Len(buf)
    <3>1. query = QueryBuf(Current, 258)
      BY <1>1, Zenon DEF QuestionsKept
    <3>2. Len(buf) = Len(Current.qname) + 18 /\ QuestionTyped(Current)
      BY <1>1, <1>3, <2>2, SingleQuestion, Zenon
    <3>3. Len(query) = Len(Current.qname) + 18
      BY <3>1, <3>2, QueryOctets, Zenon
    <3> QED
      BY <3>2, <3>3, Zenon
  <2> HIDE DEF answer
  <2>3. Len(questions) = 1 => RoomFor(answer)
    BY <2>1, <2>2, Zenon DEF RoomFor
  <2> QED
    BY <1>3, <1>5, <2>3, CollectKeepsRoom, Zenon
<1>6. CASE UNCHANGED <<message, file, buf, questions, answers, query, status>>
  BY <1>6, LeavingKeepsRoom, Zenon
<1>7. CASE /\ ~NamesFit(UpstreamPacket(query, a), Len(query))
           /\ UNCHANGED <<message, file, buf, questions, answers, query>>
  <2>1. query # NULL
    BY <1>2, NullAssumption, Zenon
  <2>2. UndefinedNeedsOddity'
    BY <1>7, <2>1, Zenon DEF UndefinedNeedsOddity
  <2> QED
    BY <1>7, <2>2, Zenon DEF RoomKept, RoomFor
<1> QED
  BY <1>1, <1>5, <1>6, <1>7, Zenon

\* No more than two parts, put together.
LEMMA FewParts ==
    ASSUME NEW parts \in Seq(Seq(Octet)), NEW x \in Nat, NEW y \in Nat,
           Len(parts) <= 2,
           Len(parts) >= 1 => Len(parts[1]) <= x, Len(parts) >= 2 => Len(parts[2]) <= y
    PROVE  Len(FlattenSeq(parts)) \in Nat /\ Len(FlattenSeq(parts)) <= x + y
<1> DEFINE n == Len(parts)
           length == Len(FlattenSeq(parts))
<1>1. PICK ends : Joined(parts, FlattenSeq(parts), ends)
  BY Flattened, Zenon
<1>2. /\ ends[0] = 0 /\ ends[n] = length
      /\ \A i \in 1 .. n : ends[i] = ends[i - 1] + Len(parts[i])
  BY <1>1, Zenon DEF Joined
<1>3. n \in Nat /\ \A i \in 1 .. n : Len(parts[i]) \in Nat
  <2>1. n \in Nat /\ \A i \in 1 .. n : parts[i] \in Seq(Octet)
    BY ElementOfSeq, LenProperties, Zenon
  <2> QED
    BY <2>1, LenProperties, Zenon
<1> HIDE DEF n, length
<1>4. n = 0 \/ n = 1 \/ n = 2
  <2>1. \A i \in Nat : i <= 2 => i = 0 \/ i = 1 \/ i = 2
    OBVIOUS
  <2> QED
    BY <1>3, <2>1, Zenon DEF n
<1>5. CASE n = 0
  BY <1>2, <1>5 DEF length
<1>6. CASE n = 1
  <2>1. 1 \in 1 .. n /\ 1 - 1 = 0
    BY <1>6
  <2>2. length = 0 + Len(parts[1]) /\ Len(parts[1]) \in Nat
    BY <1>2, <1>3, <1>6, <2>1, Zenon
  <2>3. Len(parts[1]) <= x
    BY <1>6 DEF n
  <2> DEFINE a == Len(parts[1])
  <2> HIDE DEF a
  <2>4. length = 0 + a /\ a \in Nat /\ a <= x
    BY <2>2, <2>3, Zenon DEF a
  <2>5. length \in Nat /\ length <= x + y
    BY <2>4
  <2> QED
    BY <2>5, Zenon DEF length
<1>7. CASE n = 2
  <2>1. 1 \in 1 .. n /\ 1 - 1 = 0 /\ 2 \in 1 .. n /\ 2 - 1 = 1
    BY <1>7
  <2>2. /\ ends[1] = 0 + Len(parts[1]) /\ length = ends[1] + Len(parts[2])
        /\ Len(parts[1]) \in Nat /\ Len(parts[2]) \in Nat
    BY <1>2, <1>3, <1>7, <2>1, Zenon
  <2>3. Len(parts[1]) <= x /\ Len(parts[2]) <= y
    BY <1>7 DEF n
  <2> DEFINE a == Len(parts[1])
             b == Len(parts[2])
  <2> HIDE DEF a, b
  <2>4. length = (0 + a) + b /\ a \in Nat /\ a <= x /\ b \in Nat /\ b <= y
    BY <2>2, <2>3, Zenon DEF a, b
  <2>5. length \in Nat /\ length <= x + y
    BY <2>4
  <2> QED
    BY <2>5, Zenon DEF length
<1> QED
  BY <1>4, <1>5, <1>6, <1>7, Zenon

\* Where writing stops.
LEMMA WrittenIsPart ==
    ASSUME Len(Body) \in Nat, DOMAIN Body = 1 .. Len(Body)
    PROVE  Written \in 0 .. Len(Body)
<1> DEFINE n == Len(Body)
<1>1. CASE TooLong = {}
  <2>1. Written = n
    BY <1>1, Zenon DEF Written
  <2> QED
    BY <2>1
<1>2. CASE TooLong # {}
  <2>1. TooLong \in SUBSET (1 .. n) /\ TooLong \in SUBSET Nat
    BY DEF TooLong
  <2>2. \E k \in TooLong : \A j \in TooLong : k <= j
    BY <1>2, <2>1, LeastNumber, Zenon
  <2>3. Written = CHOOSE k \in TooLong : \A j \in TooLong : k <= j
    BY <1>2, Zenon DEF Written
  <2>4. Written \in TooLong
    BY <2>2, <2>3, Zenon
  <2>5. \A k \in 1 .. n : k \in 0 .. n
    OBVIOUS
  <2> QED
    BY <2>1, <2>4, <2>5, Zenon
<1> QED
  BY <1>1, <1>2

\* A reply to one question, or to none, is put together inside of its array.
LEMMA ReplyInside ==
    ASSUME RulesFollowed, PacketsTyped, RoomKept, pc = "reply", ~(Len(questions) > 1)
    PROVE  End(Written) \in Nat /\ End(Written) <= BufLen
<1> DEFINE n == Len(answers)
           k == Written
           parts == SubSeq(Body, 1, k)
<1>1. n \in Nat /\ DOMAIN answers = 1 .. n /\ Len(questions) \in Nat
  BY AppendAnything, LenProperties, Zenon DEF RulesFollowed
<1>2. n <= Len(questions)
  BY Zenon DEF PacketsTyped
<1>3. n = 0 \/ (n = 1 /\ Len(questions) = 1)
  <2>1. \A i \in Nat : \A j \in Nat : i <= j /\ ~(j > 1) => i = 0 \/ (i = 1 /\ j = 1)
    OBVIOUS
  <2> QED
    BY <1>1, <1>2, <2>1, Zenon
<1>4. Body \in Seq(Seq(Octet)) /\ Len(Body) = 2 * n
  BY BodyTyped, Zenon
<1>5. offset = Len(buf) /\ Len(buf) \in Nat /\ Len(buf) <= BufLen
  BY ClientOffset, Zenon DEF PacketsTyped
<1>6. Len(Body) \in Nat /\ DOMAIN Body = 1 .. Len(Body) /\ k \in 0 .. Len(Body)
  <2>1. Len(Body) \in Nat /\ DOMAIN Body = 1 .. Len(Body)
    BY <1>4, LenProperties, Zenon
  <2> QED
    BY <2>1, WrittenIsPart, Zenon
<1>7. /\ parts \in Seq(Seq(Octet)) /\ Len(parts) = k
      /\ \A i \in 1 .. k : parts[i] = Body[i]
  <2> HIDE DEF k
  <2>1. 1 \in 1 .. Len(Body) + 1 /\ k \in 1 - 1 .. Len(Body) /\ 1 - 1 = 0
    BY <1>6
  <2>2. /\ parts \in Seq(Seq(Octet)) /\ Len(parts) = k - 1 + 1 /\ Placed(Body, 0, parts)
    BY <1>4, <2>1, PlacedSubSeq
  <2>3. k - 1 + 1 = k /\ \A i \in 1 .. k : 0 + i = i
    BY <1>6
  <2> QED
    BY <2>2, <2>3, Zenon DEF Placed
<1>8. End(k) = Len(buf) + Len(FlattenSeq(parts))
  BY <1>5, Zenon DEF End
<1> HIDE DEF k, parts
<1>9. CASE n = 0
  <2>1. k = 0 /\ 0 \in Nat
    BY <1>4, <1>6, <1>9
  <2>2. Len(parts) <= 2 /\ ~(Len(parts) >= 1) /\ ~(Len(parts) >= 2)
    BY <1>7, <2>1
  <2>3. Len(FlattenSeq(parts)) \in Nat /\ Len(FlattenSeq(parts)) <= 0 + 0
    BY <1>7, <2>1, <2>2, FewParts, Zenon
  <2> DEFINE flat == Len(FlattenSeq(parts))
             length == Len(buf)
  <2> HIDE DEF flat, length
  <2>4. flat \in Nat /\ flat <= 0 + 0 /\ length \in Nat /\ length <= BufLen
    BY <1>5, <2>3, Zenon DEF flat, length
  <2>5. length + flat \in Nat /\ length + flat <= BufLen
    BY <2>4, Lengths
  <2> QED
    BY <1>8, <2>5, Zenon DEF k, flat, length
<1>10. CASE n = 1 /\ Len(questions) = 1
  <2> DEFINE x == Len(answers[1].answer_buf)
             y == Len(answers[1].authority_buf)
             flat == Len(FlattenSeq(parts))
             length == Len(buf)
  <2>1. 1 \in 1 .. n
    BY <1>10
  <2>2. x \in Nat /\ y \in Nat
    <3>1. answers[1].answer_buf \in Seq(Octet) /\ answers[1].authority_buf \in Seq(Octet)
      BY <2>1, Zenon DEF PacketsTyped, AnswerTyped
    <3> QED
      BY <3>1, LenProperties, Zenon
  <2>3. length + x + y <= BufLen
    BY <1>10, <2>1, Zenon DEF RoomKept, RoomFor
  <2> DEFINE front == [i \in DOMAIN answers |->
                          IF answers[i].answer_rr > 0 THEN answers[i].answer_buf ELSE <<>>]
             back == [i \in DOMAIN answers |->
                          IF answers[i].authority_rr > 0 THEN answers[i].authority_buf ELSE <<>>]
  <2>4. Body = front \o back
    BY Zenon DEF Body
  <2>5. /\ front = <<front[1]>> /\ back = <<back[1]>>
        /\ front[1] \in {answers[1].answer_buf, <<>>}
        /\ back[1] \in {answers[1].authority_buf, <<>>}
    BY <1>1, <1>10
  <2>6. Len(front[1]) <= x /\ Len(back[1]) <= y
    <3>1. \A i \in Nat : i <= i /\ 0 <= i
      OBVIOUS
    <3>2. Len(<<>>) = 0
      OBVIOUS
    <3> QED
      BY <2>2, <2>5, <3>1, <3>2, Zenon
  <2> HIDE DEF front, back
  <2>7. Body[1] = front[1] /\ Body[2] = back[1]
    <3>1. front[1] \in Seq(Octet) /\ back[1] \in Seq(Octet)
      <4>1. <<>> \in Seq(Octet)
        OBVIOUS
      <4> QED
        BY <2>1, <2>5, <4>1, Zenon DEF PacketsTyped, AnswerTyped
    <3>2. \A u \in Seq(Octet) : <<u>> \in Seq(Seq(Octet)) /\ Len(<<u>>) = 1
      OBVIOUS
    <3>3. /\ front \in Seq(Seq(Octet)) /\ Len(front) = 1
          /\ back \in Seq(Seq(Octet)) /\ Len(back) = 1
      BY <2>5, <3>1, <3>2, Zenon
    <3>4. Placed(Body, 0, front) /\ Placed(Body, 1, back)
      BY <2>4, <3>3, PlacedConcat, Zenon
    <3>5. 1 \in 1 .. 1 /\ 0 + 1 = 1 /\ 1 + 1 = 2
      OBVIOUS
    <3>6. Body[0 + 1] = front[1] /\ Body[1 + 1] = back[1]
      BY <3>3, <3>4, <3>5, Zenon DEF Placed
    <3> QED
      BY <3>5, <3>6, Zenon
  <2>8. k \in Nat /\ k <= 2
    BY <1>4, <1>6, <1>10
  <2>9. k >= 1 => Len(parts[1]) <= x
    <3>1. k >= 1 => 1 \in 1 .. k
      BY <2>8
    <3> QED
      BY <1>7, <2>6, <2>7, <3>1, Zenon
  <2>10. k >= 2 => Len(parts[2]) <= y
    <3>1. k >= 2 => 2 \in 1 .. k
      BY <2>8
    <3> QED
      BY <1>7, <2>6, <2>7, <3>1, Zenon
  <2> HIDE DEF x, y, flat, length
  <2>11. flat \in Nat /\ flat <= x + y
    BY <1>7, <2>2, <2>8, <2>9, <2>10, FewParts, Zenon DEF flat
  <2>12. length + flat \in Nat /\ length + flat <= BufLen
    <3>1. length \in Nat
      BY <1>5, Zenon DEF length
    <3> QED
      BY <2>2, <2>3, <2>11, <3>1, Lengths
  <2> QED
    BY <1>8, <2>12, Zenon DEF k, flat, length
<1> QED
  BY <1>3, <1>9, <1>10, Zenon

\* ReplyAnswers leaves the array only with several questions.
LEMMA ReplyKeepsRoom ==
    ASSUME RulesFollowed, PacketsTyped, RoomKept, ReplyAnswers
    PROVE  RoomKept'
<1>1. /\ pc = "reply" /\ UNCHANGED <<message, file, buf, questions, answers, query>>
      /\ End(Written) > BufLen \/ status' = status
  BY DEF ReplyAnswers, Goto
<1>2. CASE status' = status
  BY <1>1, <1>2, LeavingKeepsRoom, Zenon
<1>3. CASE status' # status
  <2>1. Len(questions) > 1
    <3>1. SUFFICES ASSUME ~(Len(questions) > 1) PROVE FALSE
      OBVIOUS
    <3>2. End(Written) \in Nat /\ End(Written) <= BufLen /\ End(Written) > BufLen
      BY <1>1, <1>3, <3>1, ReplyInside, Zenon
    <3> DEFINE end == End(Written)
    <3> HIDE DEF end
    <3>3. end \in Nat /\ end <= BufLen /\ end > BufLen
      BY <3>2, Zenon DEF end
    <3> QED
      BY <3>3, Lengths
  <2>2. UndefinedNeedsOddity'
    BY <1>1, <2>1, Zenon DEF UndefinedNeedsOddity
  <2> QED
    BY <1>1, <2>2, Zenon DEF RoomKept, RoomFor
<1> QED
  BY <1>2, <1>3, Zenon

\* The steps, one by one.
LEMMA NextKeepsRoom ==
    /\ RulesFollowed /\ SectionsKept /\ PacketsTyped /\ QuestionsKept /\ QuestionsKept'
    /\ RoomKept /\ [Next]_vars
    => RoomKept'
<1> SUFFICES ASSUME RulesFollowed, SectionsKept, PacketsTyped, QuestionsKept, QuestionsKept',
                    RoomKept, [Next]_vars
             PROVE  RoomKept'
  OBVIOUS
<1>1. CASE ParseResponse \/ Refuse \/ Ask \/ GiveUp \/ ReplyFailure
  <2>1. /\ UNCHANGED <<message, file, buf, questions, answers, status>>
        /\ status = "up" \/ query' = query
    BY <1>1 DEF ParseResponse, Refuse, Ask, GiveUp, ReplyFailure, Resolving, Goto
  <2> QED
    BY <2>1, LeavingKeepsRoom, Zenon
<1>2. CASE ParseRequest
  BY <1>2, ParseKeepsRoom
<1>3. CASE SearchOutside
  BY <1>3, OutsideKeepsRoom
<1>4. CASE AnswerByRule
  BY <1>4, RuleKeepsRoom
<1>5. ASSUME NEW a \in Answers, Receive(a) PROVE RoomKept'
  BY <1>5, ReceiveKeepsRoom
<1>6. CASE ReplyAnswers
  BY <1>6, ReplyKeepsRoom
<1>7. CASE UNCHANGED vars
  BY <1>7, Zenon DEF vars, RoomKept, RoomFor, UndefinedNeedsOddity
<1> QED
  BY <1>1, <1>2, <1>3, <1>4, <1>5, <1>6, <1>7, Zenon DEF Next

\* What is undefined behaviour in handling a request, for every packet that clients and
\* the server may send and every rules file: a rule with a long name or an odd letter,
\* several questions, a question with a root name, with an odd letter or with a name that
\* is too long for an array, the cache's key included, or a query to which the server may
\* answer with a root, a long name or one that contains itself.  The reply to a single
\* question stays inside of its array of BufLen octets, although it is checked against the
\* room of a reply only when it has been written.
THEOREM OnlyOddIsUndefined == Spec => []UndefinedNeedsOddity
<1>1. RoomKept => UndefinedNeedsOddity
  BY Zenon DEF RoomKept
<1> QED
  BY <1>1, InitFollows, NextFollows, InitKeeps, NextKeeps, InitTyped, NextTyped,
     InitKeepsQuestions, NextKeepsQuestions, InitKeepsRoom, NextKeepsRoom, PTL DEF Spec
=============================================================================
