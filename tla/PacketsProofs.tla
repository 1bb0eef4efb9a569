--------------------------- MODULE PacketsProofs ---------------------------
(***************************************************************************)
(* What Packets says of the rules, for any rules file, any datagram and    *)
(* any answers of the server.                                              *)
(***************************************************************************)
EXTENDS Packets, SequenceTheorems, WellFoundedInduction, TLAPS

\* The trie, with what is proved of it.
Proved == INSTANCE TrieProofs
              WITH Letter <- Octet, Data <- [1 .. 4 -> Octet], NoData <- NULL

-----------------------------------------------------------------------------
(***************************************************************************)
(* Induction and recursion on numbers, over sets and functions.            *)
(***************************************************************************)
\* A set of numbers has a least one.
LEMMA LeastNumber ==
    ASSUME NEW U \in SUBSET Nat, U # {}
    PROVE  \E m \in U : \A k \in U : m <= k
<1> DEFINE R == OpToRel(<, Nat)
<1>1. IsWellFoundedOn(R, Nat)
  BY NatLessThanWellFounded
<1>2. \A a, b \in Nat : <<a, b>> \in R <=> a < b
  BY DEF OpToRel
<1> HIDE DEF R
<1>3. PICK m \in U : \A k \in U : <<k, m>> \notin R
  BY <1>1, WFMin
<1>4. ASSUME NEW k \in U PROVE m <= k
  <2>1. ~(k < m)
    BY <1>2, <1>3
  <2> QED  BY <2>1
<1> QED
  BY <1>4

\* Induction, over a set in place of a predicate.
LEMMA SetInduction ==
    ASSUME NEW T \in SUBSET Nat, 0 \in T, \A n \in T : n + 1 \in T
    PROVE  T = Nat
<1> DEFINE U == Nat \ T
<1>1. SUFFICES ASSUME U # {} PROVE FALSE
  OBVIOUS
<1>2. PICK m \in U : \A k \in U : m <= k
  BY <1>1, LeastNumber
<1>3. m # 0 /\ m \in Nat
  BY <1>2
<1>4. m - 1 \in Nat /\ ~(m <= m - 1)
  BY <1>3
<1>5. m - 1 \in T
  BY <1>2, <1>4
<1>6. m = (m - 1) + 1
  BY <1>3
<1> QED
  BY <1>2, <1>5, <1>6

\* f is what a recursive definition from start by step says, up to n.
Unrolls(f, start, step, n) ==
    /\ DOMAIN f = 0 .. n
    /\ f[0] = start
    /\ \A k \in 1 .. n : f[k] = step[<<k, f[k - 1]>>]

\* There is a function that a recursive definition defines, if its step stays in a set.
LEMMA Recursion ==
    ASSUME NEW N \in Nat, NEW X, NEW start \in X, NEW step \in [(1 .. N) \X X -> X]
    PROVE  \E f \in [0 .. N -> X] : Unrolls(f, start, step, N)
<1> DEFINE Has(n) == n <= N => \E f \in [0 .. n -> X] : Unrolls(f, start, step, n)
           T == {n \in Nat : Has(n)}
<1>1. Has(0)
  <2>1. [n \in 0 .. 0 |-> start] \in [0 .. 0 -> X]
    OBVIOUS
  <2>2. Unrolls([n \in 0 .. 0 |-> start], start, step, 0)
    BY DEF Unrolls
  <2> QED
    BY <2>1, <2>2
<1>2. ASSUME NEW m \in Nat, Has(m) PROVE Has(m + 1)
  <2>1. SUFFICES ASSUME m + 1 <= N
                 PROVE  \E f \in [0 .. m + 1 -> X] : Unrolls(f, start, step, m + 1)
    OBVIOUS
  <2>2. PICK f \in [0 .. m -> X] : Unrolls(f, start, step, m)
    BY <1>2, <2>1
  <2> DEFINE last == step[<<m + 1, f[m]>>]
             g == [n \in 0 .. m + 1 |-> IF n = m + 1 THEN last ELSE f[n]]
  <2>3. last \in X
    <3>1. m + 1 \in 1 .. N /\ m \in 0 .. m
      BY <2>1
    <3>2. <<m + 1, f[m]>> \in (1 .. N) \X X
      BY <3>1
    <3> QED
      BY <3>2
  <2>4. last = step[<<m + 1, f[m]>>]
    OBVIOUS
  <2> HIDE DEF last
  <2>5. g \in [0 .. m + 1 -> X] /\ DOMAIN g = 0 .. m + 1
    BY <2>3
  <2>6. g[0] = start
    BY <2>2 DEF Unrolls
  <2>7. ASSUME NEW n \in 1 .. m + 1 PROVE g[n] = step[<<n, g[n - 1]>>]
    <3>1. CASE n = m + 1
      <4>1. g[n] = last /\ g[n - 1] = f[m]
        BY <3>1
      <4> QED
        BY <2>4, <3>1, <4>1
    <3>2. CASE n # m + 1
      <4>1. n \in 1 .. m
        BY <3>2
      <4>2. g[n] = f[n] /\ g[n - 1] = f[n - 1]
        BY <4>1
      <4>3. f[n] = step[<<n, f[n - 1]>>]
        BY <2>2, <4>1 DEF Unrolls
      <4> QED
        BY <4>2, <4>3
    <3> QED
      BY <3>1, <3>2
  <2> HIDE DEF g
  <2>8. Unrolls(g, start, step, m + 1)
    BY <2>5, <2>6, <2>7 DEF Unrolls
  <2> QED
    BY <2>5, <2>8
<1> HIDE DEF Has
<1>3. T = Nat
  <2>1. T \in SUBSET Nat /\ 0 \in T /\ \A n \in T : n + 1 \in T
    BY <1>1, <1>2
  <2> HIDE DEF T
  <2> QED
    BY <2>1, SetInduction
<1>4. Has(N)
  BY <1>3
<1> QED
  BY <1>4 DEF Has

\* Induction up to N.
LEMMA UpTo ==
    ASSUME NEW N \in Nat, NEW S, 0 \in S, \A n \in 1 .. N : n - 1 \in S => n \in S
    PROVE  0 .. N \subseteq S
<1> DEFINE T == {n \in Nat : n <= N => n \in S}
<1>1. ASSUME NEW n \in Nat, n <= N => n \in S, n + 1 <= N PROVE n + 1 \in S
  <2>1. n + 1 \in 1 .. N /\ (n + 1) - 1 = n
    BY <1>1
  <2> QED
    BY <1>1, <2>1
<1>2. T \in SUBSET Nat /\ 0 \in T /\ \A n \in T : n + 1 \in T
  BY <1>1
<1> HIDE DEF T
<1>3. T = Nat
  BY <1>2, SetInduction
<1> QED
  BY <1>3 DEF T

-----------------------------------------------------------------------------
(***************************************************************************)
(* Reading names and questions.                                            *)
(***************************************************************************)
\* What dns_parse_qname returns.  The octets of a packet are in S: Octet where it is the
\* client's, any number where it was put together, of which no more need be known.
Parsed(S) == [name : Seq(S), next : Nat]

Readable(S) == S \in SUBSET Nat /\ {0, Dot} \subseteq S

LEMMA OctetsAreNumbers == Octet \subseteq Nat /\ Octet \subseteq Int /\ Readable(Octet) /\ Readable(Nat)
BY DEF Octet, Readable, Dot

\* What is read from a packet are its octets and numbers made of them.
LEMMA OctetsOfPacket ==
    ASSUME NEW S, Readable(S), NEW p \in Seq(S), NEW k \in Nat
    PROVE  /\ U8(p, k) \in S /\ U16(p, k) \in Nat
           /\ \A n \in Nat : Octets(p, k, k + n) \in Seq(S)
<1>1. ASSUME NEW j \in Nat PROVE U8(p, j) \in S
  <2>1. CASE j < Len(p)
    <3>1. j + 1 \in 1 .. Len(p)
      BY <2>1
    <3>2. p[j + 1] \in S
      BY <3>1
    <3> QED
      BY <2>1, <3>2 DEF U8
  <2>2. CASE ~(j < Len(p))
    BY <2>2 DEF U8, Readable
  <2> QED
    BY <2>1, <2>2
<1>2. U16(p, k) \in Nat
  <2>1. k + 1 \in Nat
    OBVIOUS
  <2>2. U8(p, k) \in S /\ U8(p, k + 1) \in S
    BY <1>1, <2>1
  <2> DEFINE high == U8(p, k)
             low == U8(p, k + 1)
  <2>3. high \in Nat /\ low \in Nat
    BY <2>2 DEF Readable
  <2> HIDE DEF high, low
  <2>4. 256 * high + low \in Nat
    BY <2>3
  <2> QED
    BY <2>4 DEF U16, high, low
<1>3. ASSUME NEW n \in Nat PROVE Octets(p, k, k + n) \in Seq(S)
  <2>1. k + n - k = n
    OBVIOUS
  <2>2. ASSUME NEW i \in 1 .. n PROVE U8(p, k + i - 1) \in S
    <3>1. k + i - 1 \in Nat
      OBVIOUS
    <3> QED
      BY <1>1, <3>1
  <2> DEFINE s == [i \in 1 .. n |-> U8(p, k + i - 1)]
  <2>3. s \in [1 .. n -> S]
    BY <2>2
  <2>4. s = Octets(p, k, k + n)
    BY <2>1 DEF Octets
  <2> HIDE DEF s
  <2>5. s \in Seq(S)
    BY <2>3
  <2> QED
    BY <2>4, <2>5
<1> QED
  BY <1>1, <1>2, <1>3

\* One step back in the recursion of dns_parse_qname: what is left of a name at each place.
LabelsLeft(p, rest, left, k) ==
    LET n == U8(p, k) IN
    IF n = 0 \/ left = 0 THEN [name |-> <<>>, next |-> k + 1]
    ELSE IF n >= 192 THEN [name |-> rest[U16(p, k) % 16384].name, next |-> k + 2]
    ELSE LET r == rest[k + n + 1]
         IN  [r EXCEPT !.name = Octets(p, k + 1, k + n + 1) \o <<Dot>> \o @]

LEMMA LabelsLeftTyped ==
    ASSUME NEW S, Readable(S), NEW p \in Seq(S),
           NEW rest \in [Nat -> Parsed(S)], NEW left \in Nat, NEW k \in Nat
    PROVE  LabelsLeft(p, rest, left, k) \in Parsed(S)
<1> DEFINE n == U8(p, k)
           jump == U16(p, k) % 16384
           r == rest[k + n + 1]
           label == Octets(p, k + 1, k + n + 1) \o <<Dot>> \o r.name
<1>1. n \in Nat /\ jump \in Nat
  <2>1. n \in Nat /\ U16(p, k) \in Nat
    BY OctetsOfPacket DEF Readable
  <2> QED
    BY <2>1
<1> HIDE DEF n, jump
<1>2. r \in Parsed(S) /\ rest[jump].name \in Seq(S)
  <2>1. k + n + 1 \in Nat
    BY <1>1
  <2>2. r \in Parsed(S) /\ rest[jump] \in Parsed(S)
    BY <1>1, <2>1
  <2> HIDE DEF r
  <2> QED
    BY <2>2 DEF Parsed
<1>3. label \in Seq(S)
  <2>1. Octets(p, k + 1, k + n + 1) \in Seq(S)
    <3>1. k + 1 \in Nat /\ k + n + 1 = (k + 1) + n
      BY <1>1
    <3> QED
      BY <1>1, <3>1, OctetsOfPacket
  <2>2. <<Dot>> \in Seq(S)
    BY DEF Readable
  <2>3. r.name \in Seq(S)
    BY <1>2 DEF Parsed
  <2> HIDE DEF r
  <2> QED
    BY <2>1, <2>2, <2>3
<1>4. [r EXCEPT !.name = label] \in Parsed(S)
  <2> HIDE DEF r, label
  <2> QED
    BY <1>2, <1>3 DEF Parsed
<1>5. [name |-> <<>>, next |-> k + 1] \in Parsed(S) /\ [name |-> rest[jump].name, next |-> k + 2] \in Parsed(S)
  BY <1>2 DEF Parsed
<1>6. LabelsLeft(p, rest, left, k) =
         IF n = 0 \/ left = 0 THEN [name |-> <<>>, next |-> k + 1]
         ELSE IF n >= 192 THEN [name |-> rest[jump].name, next |-> k + 2]
         ELSE [r EXCEPT !.name = label]
  BY DEF LabelsLeft, n, jump
<1> HIDE DEF r, label
<1> QED
  BY <1>4, <1>5, <1>6

\* parse is the recursion of dns_parse_qname in packet p.
ParsesNames(S, p, parse) ==
    \A left \in 0 .. Len(p) :
        /\ parse[left] \in [Nat -> Parsed(S)]
        /\ \A k \in Nat : parse[left][k] = LabelsLeft(p, parse[left - 1], left, k)

LEMMA NamesUnroll ==
    ASSUME NEW S, Readable(S), NEW p \in Seq(S)
    PROVE  \E parse : /\ ParsesNames(S, p, parse)
                      /\ \A at \in Nat :
                            ParseQname(p, at) =
                                [parse[Len(p)][at] EXCEPT !.name = SubSeq(@, 1, Len(@) - 1)]
<1> DEFINE
      parse[left \in 0 .. Len(p)] == [k \in Nat |-> LabelsLeft(p, parse[left - 1], left, k)]
<1>1. ASSUME NEW at \in Nat
      PROVE  ParseQname(p, at) = [parse[Len(p)][at] EXCEPT !.name = SubSeq(@, 1, Len(@) - 1)]
  BY DEF ParseQname, LabelsLeft
<1> DEFINE start == [k \in Nat |-> [name |-> <<>>, next |-> k + 1]]
           step == [f \in (1 .. Len(p)) \X [Nat -> Parsed(S)] |->
                       [k \in Nat |-> LabelsLeft(p, f[2], f[1], k)]]
<1>2. start \in [Nat -> Parsed(S)]
  BY DEF Parsed
<1>3. step \in [(1 .. Len(p)) \X [Nat -> Parsed(S)] -> [Nat -> Parsed(S)]]
  <2>1. ASSUME NEW f \in (1 .. Len(p)) \X [Nat -> Parsed(S)], NEW k \in Nat
        PROVE  LabelsLeft(p, f[2], f[1], k) \in Parsed(S)
    BY LabelsLeftTyped
  <2> QED
    BY <2>1
<1>4. Len(p) \in Nat
  OBVIOUS
<1>5. PICK f \in [0 .. Len(p) -> [Nat -> Parsed(S)]] : Unrolls(f, start, step, Len(p))
  <2> HIDE DEF start, step
  <2> QED
    BY <1>2, <1>3, <1>4, Recursion
<1> DEFINE Rec(g) == [left \in 0 .. Len(p) |-> [k \in Nat |-> LabelsLeft(p, g[left - 1], left, k)]]
<1>6. f = Rec(f)
  <2>1. ASSUME NEW left \in 0 .. Len(p)
        PROVE  f[left] = [k \in Nat |-> LabelsLeft(p, f[left - 1], left, k)]
    <3>1. CASE left = 0
      <4>1. f[left] = start
        BY <1>5, <3>1 DEF Unrolls
      <4>2. \A k \in Nat : LabelsLeft(p, f[left - 1], left, k) = [name |-> <<>>, next |-> k + 1]
        BY <3>1 DEF LabelsLeft
      <4> QED
        BY <4>1, <4>2
    <3>2. CASE left # 0
      <4>1. left \in 1 .. Len(p) /\ left - 1 \in 0 .. Len(p)
        BY <1>4, <3>2
      <4>2. f[left - 1] \in [Nat -> Parsed(S)]
        BY <4>1
      <4>3. f[left] = step[<<left, f[left - 1]>>]
        BY <1>5, <4>1 DEF Unrolls
      <4>4. <<left, f[left - 1]>> \in (1 .. Len(p)) \X [Nat -> Parsed(S)]
        BY <4>1, <4>2
      <4> QED
        BY <4>3, <4>4
    <3> QED
      BY <3>1, <3>2
  <2> QED
    BY <2>1
<1>7. parse = Rec(parse)
  <2>1. parse = CHOOSE g : g = Rec(g)
    OBVIOUS
  <2> HIDE DEF parse, Rec
  <2> QED
    BY <1>6, <2>1
<1> HIDE DEF parse
<1>8. \A left \in 0 .. Len(p) : parse[left] \in [Nat -> Parsed(S)]
  <2> DEFINE Typed == {left \in 0 .. Len(p) : parse[left] \in [Nat -> Parsed(S)]}
  <2>1. \A left \in 0 .. Len(p) : 
           parse[left] = [k \in Nat |-> LabelsLeft(p, parse[left - 1], left, k)]
    BY <1>7
  <2>2. parse[0] \in [Nat -> Parsed(S)]
    <3>1. \A k \in Nat : LabelsLeft(p, parse[0 - 1], 0, k) = [name |-> <<>>, next |-> k + 1]
      BY DEF LabelsLeft
    <3>2. parse[0] = [k \in Nat |-> LabelsLeft(p, parse[0 - 1], 0, k)]
      BY <1>4, <2>1
    <3>3. parse[0] = start
      BY <3>1, <3>2
    <3> QED
      BY <1>2, <3>3
  <2>3. ASSUME NEW n \in 1 .. Len(p), parse[n - 1] \in [Nat -> Parsed(S)]
        PROVE  parse[n] \in [Nat -> Parsed(S)]
    <3>1. n \in 0 .. Len(p) /\ n \in Nat
      BY <1>4
    <3>2. parse[n] = [k \in Nat |-> LabelsLeft(p, parse[n - 1], n, k)]
      BY <2>1, <3>1
    <3>3. \A k \in Nat : LabelsLeft(p, parse[n - 1], n, k) \in Parsed(S)
      BY <2>3, <3>1, LabelsLeftTyped
    <3> QED
      BY <3>2, <3>3
  <2>4. 0 \in Typed /\ \A n \in 1 .. Len(p) : n - 1 \in Typed => n \in Typed
    BY <1>4, <2>2, <2>3
  <2> HIDE DEF Typed
  <2>5. 0 .. Len(p) \subseteq Typed
    BY <1>4, <2>4, UpTo
  <2> QED
    BY <2>5 DEF Typed
<1>9. ParsesNames(S, p, parse)
  <2>1. ASSUME NEW left \in 0 .. Len(p), NEW k \in Nat
        PROVE  parse[left][k] = LabelsLeft(p, parse[left - 1], left, k)
    <3>1. parse[left] = [j \in Nat |-> LabelsLeft(p, parse[left - 1], left, j)]
      BY <1>7
    <3> QED
      BY <3>1
  <2> QED
    BY <1>8, <2>1 DEF ParsesNames
<1> QED
  BY <1>1, <1>9

\* Whatever octets a packet has, names are read from it.
LEMMA ParsedName ==
    ASSUME NEW S, Readable(S), NEW p \in Seq(S), NEW at \in Nat
    PROVE  ParseQname(p, at) \in Parsed(S)
<1>1. PICK parse : /\ ParsesNames(S, p, parse)
                   /\ ParseQname(p, at) =
                          [parse[Len(p)][at] EXCEPT !.name = SubSeq(@, 1, Len(@) - 1)]
  BY NamesUnroll
<1> DEFINE q == parse[Len(p)][at]
<1>2. q \in Parsed(S)
  <2>1. Len(p) \in 0 .. Len(p)
    OBVIOUS
  <2>2. parse[Len(p)] \in [Nat -> Parsed(S)]
    BY <1>1, <2>1 DEF ParsesNames
  <2> QED
    BY <2>2
<1>3. ParseQname(p, at) = [q EXCEPT !.name = SubSeq(q.name, 1, Len(q.name) - 1)]
  BY <1>1
<1> HIDE DEF q
<1>4. SubSeq(q.name, 1, Len(q.name) - 1) \in Seq(S)
  BY <1>2 DEF Parsed
<1> QED
  BY <1>2, <1>3, <1>4 DEF Parsed

\* What dns_parse_questions returns.
Asking == [qname : Seq(Octet), qtype : Nat, qclass : Nat]
Questioned == [questions : Seq(Asking), offset : Nat]

\* What the loop of dns_parse_questions does for one question.
OneMore(p, acc) ==
    LET name == ParseQname(p, acc.offset)
    IN  [questions |-> Append(acc.questions,
                              [qname |-> name.name,
                               qtype |-> U16(p, name.next),
                               qclass |-> U16(p, name.next + 2)]),
         offset |-> name.next + 4]

LEMMA OneMoreTyped ==
    ASSUME NEW p \in Seq(Octet), NEW acc \in Questioned
    PROVE  OneMore(p, acc) \in Questioned
<1> DEFINE name == ParseQname(p, acc.offset)
           asking == [qname |-> name.name, qtype |-> U16(p, name.next),
                      qclass |-> U16(p, name.next + 2)]
<1>1. name \in Parsed(Octet)
  BY ParsedName, OctetsAreNumbers DEF Questioned
<1> HIDE DEF name
<1>2. name.name \in Seq(Octet) /\ name.next \in Nat /\ name.next + 2 \in Nat
  BY <1>1 DEF Parsed
<1>3. asking \in Asking
  <2>1. U16(p, name.next) \in Nat /\ U16(p, name.next + 2) \in Nat
    BY <1>2, OctetsOfPacket, OctetsAreNumbers
  <2> QED
    BY <1>2, <2>1 DEF Asking
<1>4. OneMore(p, acc) = [questions |-> Append(acc.questions, asking), offset |-> name.next + 4]
  BY DEF OneMore, name
<1> HIDE DEF asking
<1> QED
  BY <1>2, <1>3, <1>4 DEF Questioned

\* That loop, question by question.
ParsesQuestions(p, N, parse) ==
    /\ parse[0] = [questions |-> <<>>, offset |-> HeaderLen]
    /\ \A n \in 1 .. N : parse[n] = OneMore(p, parse[n - 1])
    /\ \A n \in 0 .. N : parse[n] \in Questioned
    /\ FirstQuestions(p, N) = parse[N]

LEMMA QuestionsUnroll ==
    ASSUME NEW p \in Seq(Octet), NEW N \in Nat
    PROVE  \E parse : ParsesQuestions(p, N, parse)
<1> DEFINE start == [questions |-> <<>>, offset |-> HeaderLen]
           parse[n \in 0 .. N] == IF n = 0 THEN start ELSE OneMore(p, parse[n - 1])
           Rec(g) == [n \in 0 .. N |-> IF n = 0 THEN start ELSE OneMore(p, g[n - 1])]
           step == [f \in (1 .. N) \X Questioned |-> OneMore(p, f[2])]
<1>1. FirstQuestions(p, N) = parse[N]
  BY DEF FirstQuestions, OneMore
<1>2. N \in Nat
  OBVIOUS
<1>3. start \in Questioned
  BY DEF Questioned, HeaderLen
<1> HIDE DEF start
<1>4. step \in [(1 .. N) \X Questioned -> Questioned]
  BY OneMoreTyped
<1>5. PICK f \in [0 .. N -> Questioned] : Unrolls(f, start, step, N)
  <2> HIDE DEF step
  <2> QED
    BY <1>2, <1>3, <1>4, Recursion
<1>6. f = Rec(f)
  <2>1. ASSUME NEW n \in 1 .. N PROVE f[n] = OneMore(p, f[n - 1])
    <3>1. n - 1 \in 0 .. N
      BY <1>2
    <3>2. <<n, f[n - 1]>> \in (1 .. N) \X Questioned
      BY <3>1
    <3>3. f[n] = step[<<n, f[n - 1]>>]
      BY <1>5 DEF Unrolls
    <3> QED
      BY <3>2, <3>3
  <2>2. f[0] = start
    BY <1>5 DEF Unrolls
  <2> QED
    BY <1>2, <2>1, <2>2
<1>7. parse = Rec(parse)
  <2>1. parse = CHOOSE g : g = Rec(g)
    OBVIOUS
  <2> HIDE DEF parse, Rec
  <2> QED
    BY <1>6, <2>1
<1> HIDE DEF parse
<1>8. 0 .. N \subseteq {n \in 0 .. N : parse[n] \in Questioned}
  <2> DEFINE S == {n \in 0 .. N : parse[n] \in Questioned}
  <2>1. 0 \in S
    <3>1. parse[0] = start
      BY <1>2, <1>7
    <3> QED
      BY <1>2, <1>3, <3>1
  <2>2. ASSUME NEW n \in 1 .. N, n - 1 \in S PROVE n \in S
    <3>1. parse[n] = OneMore(p, parse[n - 1])
      BY <1>2, <1>7
    <3>2. parse[n - 1] \in Questioned /\ n \in 0 .. N
      BY <1>2, <2>2
    <3> QED
      BY <3>1, <3>2, OneMoreTyped
  <2> HIDE DEF S
  <2>3. 0 .. N \subseteq S
    BY <1>2, <2>1, <2>2, UpTo
  <2> QED
    BY <2>3 DEF S
<1>9. \A n \in 0 .. N : parse[n] \in Questioned
  BY <1>8
<1>10. parse[0] = start /\ \A n \in 1 .. N : parse[n] = OneMore(p, parse[n - 1])
  <2>1. 0 \in 0 .. N /\ \A n \in 1 .. N : n \in 0 .. N /\ n # 0
    BY <1>2
  <2> QED
    BY <1>7, <2>1
<1> QED
  BY <1>1, <1>2, <1>9, <1>10, Zenon DEF ParsesQuestions, start

\* So are questions.
LEMMA ParsedQuestions ==
    ASSUME NEW p \in Seq(Octet)
    PROVE  ParseQuestions(p) \in Questioned /\ Header(p).qdcount \in Nat
<1> DEFINE N == Header(p).qdcount
<1>1. N \in Nat
  BY OctetsOfPacket, OctetsAreNumbers DEF Header
<1>2. ParseQuestions(p) = FirstQuestions(p, N)
  BY Zenon DEF ParseQuestions
<1> HIDE DEF N
<1>3. PICK parse : ParsesQuestions(p, N, parse)
  BY <1>1, QuestionsUnroll, Zenon
<1>4. N \in 0 .. N
  BY <1>1
<1>5. ParseQuestions(p) \in Questioned
  BY <1>2, <1>3, <1>4, Zenon DEF ParsesQuestions
<1> QED
  BY <1>1, <1>5, Zenon DEF N

-----------------------------------------------------------------------------
(***************************************************************************)
(* The rules.                                                              *)
(***************************************************************************)
Address == [1 .. 4 -> Octet]
RuleLine == [name : Seq(Octet), address : Address]

LEMMA UpperTyped ==
    ASSUME NEW name \in Seq(Octet)
    PROVE  ToUpper(name) \in Seq(Octet)
<1> DEFINE u == [i \in 1 .. Len(name) |->
                    IF name[i] \in 97 .. 122 THEN name[i] - 32 ELSE name[i]]
<1>1. ASSUME NEW x \in Octet PROVE (IF x \in 97 .. 122 THEN x - 32 ELSE x) \in Octet
  BY DEF Octet
<1>2. \A i \in 1 .. Len(name) : name[i] \in Octet
  OBVIOUS
<1>3. ASSUME NEW i \in 1 .. Len(name)
      PROVE  (IF name[i] \in 97 .. 122 THEN name[i] - 32 ELSE name[i]) \in Octet
  BY <1>1, <1>2
<1>4. u \in [1 .. Len(name) -> Octet]
  BY <1>3
<1>5. u = ToUpper(name)
  BY DEF ToUpper
<1> HIDE DEF u
<1>6. u \in Seq(Octet)
  BY <1>4
<1> QED
  BY <1>5, <1>6

\* Both instances of Trie are the same.
LEMMA SameTrie ==
    /\ Table!EmptyTrie = Proved!EmptyTrie
    /\ \A t, w, d : Table!InsertTrie(t, w, d) = Proved!InsertTrie(t, w, d)
    /\ \A t, w : Table!SearchTrie(t, w) = Proved!SearchTrie(t, w)
<1>1. \A t, w, d : Table!InsertTrie(t, w, d) = Proved!InsertTrie(t, w, d)
  BY Zenon DEF Table!InsertTrie, Proved!InsertTrie, Table!Path, Proved!Path
<1>2. \A t, w : Table!SearchTrie(t, w) = Proved!SearchTrie(t, w)
  BY Zenon DEF Table!SearchTrie, Proved!SearchTrie, Table!Path, Proved!Path
<1>3. Table!EmptyTrie = Proved!EmptyTrie
  BY Zenon DEF Table!EmptyTrie, Proved!EmptyTrie
<1> QED
  BY <1>1, <1>2, <1>3

Tries ==
    {t \in [nodes : SUBSET Seq(Octet), leaves : SUBSET Seq(Octet),
            data : UNION {[L -> Address \cup {NULL}] : L \in SUBSET Seq(Octet)}] :
        Proved!IsTrie(t)}

LEMMA TrieTyped ==
    ASSUME NEW t, Proved!IsTrie(t)
    PROVE  t \in Tries
<1>1. /\ t = [nodes |-> t.nodes, leaves |-> t.leaves, data |-> t.data]
      /\ t.nodes \in SUBSET Seq(Octet) /\ t.leaves \in SUBSET Seq(Octet)
      /\ t.data \in [t.leaves -> Address \cup {NULL}]
  BY DEF Proved!IsTrie, Proved!Words, Address
<1>2. t.data \in UNION {[L -> Address \cup {NULL}] : L \in SUBSET Seq(Octet)}
  BY <1>1
<1> QED
  BY <1>1, <1>2 DEF Tries

\* One line of the file.
LineRead(f, k, t) == Table!InsertTrie(t, ToUpper(f[k].name), f[k].address)

LEMMA LineReadTyped ==
    ASSUME NEW f \in Seq(RuleLine), NEW k \in 1 .. Len(f), NEW t \in Tries
    PROVE  /\ LineRead(f, k, t) \in Tries
           /\ \A v : Table!SearchTrie(LineRead(f, k, t), v) =
                        IF v = ToUpper(f[k].name) THEN f[k].address
                        ELSE Table!SearchTrie(t, v)
<1> DEFINE w == ToUpper(f[k].name)
           d == f[k].address
<1>1. f[k] \in RuleLine
  OBVIOUS
<1>2. w \in Proved!Words /\ d \in Address
  BY <1>1, UpperTyped DEF RuleLine, Proved!Words
<1>3. d \in [1 .. 4 -> Octet] \cup {NULL}
  BY <1>2 DEF Address
<1>4. Proved!IsTrie(t)
  BY DEF Tries
<1> HIDE DEF w, d
<1>5. Proved!IsTrie(Proved!InsertTrie(t, w, d))
  BY <1>2, <1>3, <1>4, Proved!InsertKeepsShape
<1>6. \A v : Proved!SearchTrie(Proved!InsertTrie(t, w, d), v) =
                IF v = w THEN d ELSE Proved!SearchTrie(t, v)
  BY <1>2, <1>3, <1>4, Proved!SearchAfterInsert
<1>7. LineRead(f, k, t) = Proved!InsertTrie(t, w, d)
  BY SameTrie DEF LineRead, w, d
<1> QED
  BY <1>5, <1>6, <1>7, TrieTyped, SameTrie DEF w, d

\* What the first n lines say of a name: the last that has it, if any does.
Says(f, n, v, found) ==
    \/ found = NULL /\ \A k \in 1 .. n : ToUpper(f[k].name) # v
    \/ \E k \in 1 .. n : /\ ToUpper(f[k].name) = v /\ found = f[k].address
                         /\ \A l \in 1 .. n : ToUpper(f[l].name) = v => l <= k

\* What one more line adds to what those before it say.
LEMMA OneMoreLine ==
    ASSUME NEW f \in Seq(RuleLine), NEW n \in 1 .. Len(f), NEW v, NEW before, NEW found,
           Says(f, n - 1, v, before),
           found = IF v = ToUpper(f[n].name) THEN f[n].address ELSE before
    PROVE  Says(f, n, v, found)
<1> DEFINE Has(k) == ToUpper(f[k].name) = v
           To(k) == f[k].address
<1>1. \/ before = NULL /\ \A k \in 1 .. n - 1 : ~Has(k)
      \/ \E k \in 1 .. n - 1 : /\ Has(k) /\ before = To(k)
                               /\ \A l \in 1 .. n - 1 : Has(l) => l <= k
  BY Zenon DEF Says
<1>2. found = IF Has(n) THEN To(n) ELSE before
  OBVIOUS
<1> HIDE DEF Has, To
<1>3. 1 .. n = (1 .. n - 1) \cup {n} /\ n \in Nat
  OBVIOUS
<1>4. \/ found = NULL /\ \A k \in 1 .. n : ~Has(k)
      \/ \E k \in 1 .. n : /\ Has(k) /\ found = To(k)
                           /\ \A l \in 1 .. n : Has(l) => l <= k
  BY <1>1, <1>2, <1>3
<1> QED
  BY <1>4, Zenon DEF Says, Has, To

\* read_rules_to_trie: a search in the front trie finds what the file says.
LEMMA RulesSay ==
    ASSUME file \in Seq(RuleLine)
    PROVE  \A v : Says(file, Len(file), v, Table!SearchTrie(Rules, v))
<1> DEFINE N == Len(file)
           table[k \in 0 .. N] ==
               IF k = 0 THEN Table!EmptyTrie ELSE LineRead(file, k, table[k - 1])
           Rec(g) == [k \in 0 .. N |-> IF k = 0 THEN Table!EmptyTrie
                                       ELSE LineRead(file, k, g[k - 1])]
           step == [f \in (1 .. N) \X Tries |-> LineRead(file, f[1], f[2])]
<1>1. Rules = table[N]
  BY DEF Rules, LineRead
<1>2. N \in Nat
  OBVIOUS
<1>3. Table!EmptyTrie \in Tries
  BY Proved!EmptyIsTrie, TrieTyped, SameTrie
<1>4. \A k \in 1 .. N, t \in Tries : LineRead(file, k, t) \in Tries
  BY LineReadTyped
<1> HIDE DEF N
<1>5. step \in [(1 .. N) \X Tries -> Tries]
  BY <1>4
<1>6. PICK f \in [0 .. N -> Tries] : Unrolls(f, Table!EmptyTrie, step, N)
  <2> HIDE DEF step
  <2> QED
    BY <1>2, <1>3, <1>5, Recursion
<1>7. f = Rec(f)
  <2>1. ASSUME NEW k \in 1 .. N PROVE f[k] = LineRead(file, k, f[k - 1])
    <3>1. k - 1 \in 0 .. N
      BY <1>2
    <3>2. <<k, f[k - 1]>> \in (1 .. N) \X Tries
      BY <3>1
    <3>3. f[k] = step[<<k, f[k - 1]>>]
      BY <1>6 DEF Unrolls
    <3> QED
      BY <3>2, <3>3
  <2>2. f[0] = Table!EmptyTrie
    BY <1>6 DEF Unrolls
  <2> QED
    BY <1>2, <2>1, <2>2
<1>8. table = Rec(table)
  <2>1. table = CHOOSE g : g = Rec(g)
    OBVIOUS
  <2> HIDE DEF table, Rec
  <2> QED
    BY <1>7, <2>1
<1> HIDE DEF table
<1>9. table[0] = Table!EmptyTrie /\ \A k \in 1 .. N : table[k] = LineRead(file, k, table[k - 1])
  BY <1>2, <1>8
<1> DEFINE Good(k) == /\ table[k] \in Tries
                      /\ \A v : Says(file, k, v, Table!SearchTrie(table[k], v))
           S == {k \in 0 .. N : Good(k)}
<1>10. Good(0)
  <2>1. ASSUME NEW v PROVE Says(file, 0, v, Table!SearchTrie(table[0], v))
    <3>1. Table!SearchTrie(table[0], v) = NULL
      <4>1. Table!EmptyTrie.leaves = {}
        BY DEF Table!EmptyTrie
      <4>2. v \notin table[0].leaves
        BY <1>9, <4>1, Zenon
      <4> QED
        BY <4>2, Zenon DEF Table!SearchTrie
    <3>2. 1 .. 0 = {}
      OBVIOUS
    <3> QED
      BY <3>1, <3>2, Zenon DEF Says
  <2> QED
    BY <1>3, <1>9, <2>1
<1>11. ASSUME NEW n \in 1 .. N, Good(n - 1) PROVE Good(n)
  <2>1. n \in 1 .. Len(file)
    BY DEF N
  <2>2. table[n] = LineRead(file, n, table[n - 1]) /\ table[n - 1] \in Tries
    BY <1>9, <1>11
  <2>3. /\ table[n] \in Tries
        /\ \A v : Table!SearchTrie(table[n], v) =
                     IF v = ToUpper(file[n].name) THEN file[n].address
                     ELSE Table!SearchTrie(table[n - 1], v)
    BY <2>1, <2>2, LineReadTyped
  <2>4. ASSUME NEW v PROVE Says(file, n, v, Table!SearchTrie(table[n], v))
    <3>1. Says(file, n - 1, v, Table!SearchTrie(table[n - 1], v))
      BY <1>11
    <3>2. Table!SearchTrie(table[n], v) =
             IF v = ToUpper(file[n].name) THEN file[n].address
             ELSE Table!SearchTrie(table[n - 1], v)
      BY <2>3
    <3> QED
      BY <2>1, <3>1, <3>2, OneMoreLine
  <2> QED
    BY <2>3, <2>4
<1> HIDE DEF Good
<1>12. N \in S
  <2>1. 0 \in S /\ \A n \in 1 .. N : n - 1 \in S => n \in S
    BY <1>2, <1>10, <1>11
  <2> HIDE DEF S
  <2>2. 0 .. N \subseteq S
    BY <1>2, <2>1, UpTo
  <2> QED
    BY <1>2, <2>2
<1>13. Good(N)
  BY <1>12
<1> QED
  BY <1>1, <1>13 DEF Good, N

-----------------------------------------------------------------------------
(***************************************************************************)
(* Writing names and records.                                              *)
(***************************************************************************)

\* A sequence is what a function on its positions is.
LEMMA AnySequence ==
    ASSUME NEW n \in Nat, NEW s, s = [i \in 1 .. n |-> s[i]], NEW S, \A i \in 1 .. n : s[i] \in S
    PROVE  s \in Seq(S) /\ Len(s) = n
<1>1. s \in [1 .. n -> S]
  OBVIOUS
<1> QED
  BY <1>1

\* dns_to_qname writes numbers: each label has an end.
LEMMA QnameTyped ==
    ASSUME NEW name \in Seq(Octet)
    PROVE  /\ ToQname(name) \in Seq(Int) /\ ToQname(name) \in Seq(Nat)
           /\ Len(ToQname(name)) = Len(name) + 2
<1> DEFINE Ends(i, e) == /\ e = Len(name) + 1 \/ name[e] = Dot
                         /\ \A j \in i .. e - 1 : name[j] # Dot
           labelEnd(i) == CHOOSE e \in i .. Len(name) + 1 : Ends(i, e)
           q == [i \in 1 .. Len(name) + 2 |->
                    IF i = Len(name) + 2 THEN 0
                    ELSE IF i = 1 \/ name[i - 1] = Dot THEN labelEnd(i) - i
                    ELSE name[i - 1]]
<1>1. q = ToQname(name)
  BY DEF ToQname
<1>2. Len(name) \in Nat
  OBVIOUS
<1>3. ASSUME NEW i \in 1 .. Len(name) + 1 PROVE labelEnd(i) - i \in Nat
  <2> DEFINE U == {e \in i .. Len(name) + 1 : e = Len(name) + 1 \/ name[e] = Dot}
  <2>1. Len(name) + 1 \in U /\ U \in SUBSET Nat
    BY <1>2
  <2>2. PICK m \in U : \A k \in U : m <= k
    <3> HIDE DEF U
    <3> QED
      BY <2>1, LeastNumber
  <2>3. ASSUME NEW j \in i .. m - 1 PROVE name[j] # Dot
    <3>1. j \in i .. Len(name) + 1 /\ ~(m <= j)
      BY <1>2, <2>2
    <3> QED
      BY <2>2, <3>1
  <2>4. m \in i .. Len(name) + 1 /\ Ends(i, m)
    BY <2>2, <2>3
  <2> HIDE DEF Ends
  <2>5. labelEnd(i) \in i .. Len(name) + 1
    BY <2>4
  <2> QED
    BY <1>2, <2>5
<1> HIDE DEF labelEnd
<1>4. ASSUME NEW i \in 1 .. Len(name) + 2 PROVE q[i] \in Nat
  <2>1. CASE i = Len(name) + 2
    BY <2>1
  <2>2. CASE i # Len(name) + 2 /\ (i = 1 \/ name[i - 1] = Dot)
    <3>1. i \in 1 .. Len(name) + 1
      BY <1>2, <2>2
    <3>2. q[i] = labelEnd(i) - i
      BY <2>2
    <3> QED
      BY <1>3, <3>1, <3>2
  <2>3. CASE i # Len(name) + 2 /\ ~(i = 1 \/ name[i - 1] = Dot)
    <3>1. i - 1 \in 1 .. Len(name)
      BY <1>2, <2>3
    <3>2. name[i - 1] \in Octet
      BY <3>1
    <3>3. q[i] = name[i - 1]
      BY <2>3
    <3> QED
      BY <3>2, <3>3, OctetsAreNumbers
  <2> QED
    BY <2>1, <2>2, <2>3
<1>5. q = [i \in 1 .. Len(name) + 2 |-> q[i]] /\ Len(name) + 2 \in Nat
  BY <1>2
<1> HIDE DEF q
<1>6. \A i \in 1 .. Len(name) + 2 : q[i] \in Int
  BY <1>4
<1>7. q \in Seq(Nat) /\ q \in Seq(Int) /\ Len(q) = Len(name) + 2
  BY <1>4, <1>5, <1>6, AnySequence, Zenon
<1> QED
  BY <1>1, <1>7, Zenon

LEMMA PutTyped ==
    ASSUME NEW n \in Nat
    PROVE  Put16(n) \in Seq(Int) /\ Put32(n) \in Seq(Int)
<1>1. \A k \in Nat : k \div 256 \in Int /\ k % 256 \in Int
  OBVIOUS
<1>2. \A k \in Nat : Put16(k) \in Seq(Int)
  BY <1>1 DEF Put16
<1>3. n \div 65536 \in Nat /\ n % 65536 \in Nat
  OBVIOUS
<1>4. Put16(n \div 65536) \in Seq(Int) /\ Put16(n % 65536) \in Seq(Int)
  BY <1>2, <1>3
<1> QED
  BY <1>2, <1>4 DEF Put32

LEMMA QueryTyped ==
    ASSUME NEW q \in Asking, NEW id \in Nat
    PROVE  QueryBuf(q, id) \in Seq(Int)
<1>1. /\ ToQname(q.qname) \in Seq(Int)
      /\ Put16(q.qtype) \in Seq(Int) /\ Put16(q.qclass) \in Seq(Int)
  BY QnameTyped, PutTyped DEF Asking
<1> DEFINE h == [id |-> id, qr |-> 0, rcode |-> 0, qdcount |-> 1, ancount |-> 0,
                 nscount |-> 0, arcount |-> 0]
<1>2. PutHeader(h) \in Seq(Int)
  <2>1. /\ Put16(h.id) \in Seq(Int) /\ Put16(h.qdcount) \in Seq(Int) /\ Put16(h.ancount) \in Seq(Int)
        /\ Put16(h.nscount) \in Seq(Int) /\ Put16(h.arcount) \in Seq(Int)
    BY PutTyped
  <2>2. <<128 * h.qr, h.rcode>> \in Seq(Int)
    OBVIOUS
  <2> HIDE DEF h
  <2> QED
    BY <2>1, <2>2 DEF PutHeader
<1>3. QueryBuf(q, id) = PutHeader(h) \o ToQname(q.qname) \o Put16(q.qtype) \o Put16(q.qclass)
  BY DEF QueryBuf
<1> HIDE DEF h
<1> QED
  BY <1>1, <1>2, <1>3

\* The last four of a sequence that ends with four.
LEMMA EndOfConcat ==
    ASSUME NEW S, NEW s \in Seq(S), NEW t \in Seq(S), Len(t) = 4
    PROVE  LET u == s \o t
           IN  SubSeq(u, Len(u) - 3, Len(u)) = t
<1> DEFINE u == s \o t
           v == SubSeq(u, Len(u) - 3, Len(u))
<1>1. /\ u \in Seq(S) /\ Len(u) = Len(s) + 4 /\ Len(s) \in Nat
      /\ \A i \in 1 .. 4 : u[Len(s) + i] = t[i]
  <2>1. Len(s) \in Nat
    BY LenProperties
  <2>2. /\ u \in Seq(S) /\ Len(u) = Len(s) + Len(t)
        /\ \A i \in 1 .. Len(s) + Len(t) :
              u[i] = IF i <= Len(s) THEN s[i] ELSE t[i - Len(s)]
    BY ConcatProperties
  <2> HIDE DEF u
  <2>3. ASSUME NEW i \in 1 .. 4 PROVE u[Len(s) + i] = t[i]
    <3>1. /\ Len(s) + i \in 1 .. Len(s) + Len(t) /\ ~(Len(s) + i <= Len(s))
          /\ (Len(s) + i) - Len(s) = i
      BY <2>1
    <3> QED
      BY <2>2, <3>1
  <2> QED
    BY <2>1, <2>2, <2>3
<1>2. v \in Seq(S) /\ Len(v) = 4 /\ \A i \in 1 .. 4 : v[i] = t[i]
  <2> HIDE DEF u
  <2>1. Len(u) - 3 = Len(s) + 1
    BY <1>1
  <2>2. Len(u) - (Len(s) + 1) + 1 = 4
    BY <1>1
  <2> QED
    BY <1>1, <2>1
<1> HIDE DEF v
<1>3. v = t
  BY <1>2
<1> QED
  BY <1>3 DEF v

\* The address of a rule is what the record made of it ends with.
LEMMA AddressIsLast ==
    ASSUME NEW name \in Seq(Octet), NEW address \in Address
    PROVE  LET data == ResourceToBuf(name, address)
           IN  SubSeq(data, Len(data) - 3, Len(data)) = address
<1> DEFINE qname == ToQname(name)
           one == Put16(1)
           ttl == Put32(600)
           four == Put16(4)
<1>1. qname \in Seq(Int)
  BY QnameTyped, Zenon
<1>2. one \in Seq(Int) /\ four \in Seq(Int) /\ ttl \in Seq(Int)
  <2>1. 1 \in Nat /\ 4 \in Nat /\ 600 \in Nat
    OBVIOUS
  <2> QED
    BY <2>1, PutTyped, Zenon
<1>3. ResourceToBuf(name, address) = qname \o one \o one \o ttl \o four \o address
  BY DEF ResourceToBuf
<1> HIDE DEF qname, one, ttl, four
<1> DEFINE front == qname \o one \o one \o ttl \o four
<1>4. front \in Seq(Int)
  BY <1>1, <1>2
<1>5. address \in Seq(Int) /\ Len(address) = 4
  <2>1. address = [i \in 1 .. 4 |-> address[i]]
    BY DEF Address
  <2>2. ASSUME NEW i \in 1 .. 4 PROVE address[i] \in Int
    <3>1. address[i] \in Octet
      BY Zenon DEF Address
    <3> QED
      BY <3>1, OctetsAreNumbers, Zenon
  <2> QED
    BY <2>1, <2>2, AnySequence
<1> HIDE DEF front
<1>6. LET data == front \o address IN SubSeq(data, Len(data) - 3, Len(data)) = address
  BY <1>4, <1>5, EndOfConcat
<1> QED
  BY <1>3, <1>6, Zenon DEF front

-----------------------------------------------------------------------------
(***************************************************************************)
(* What each answer is.                                                    *)
(***************************************************************************)
IsSequence(s) == s \in Seq({s[i] : i \in DOMAIN s})

\* To a sequence of anything anything can be appended.
LEMMA AppendAnything ==
    ASSUME NEW s, IsSequence(s), NEW x
    PROVE  /\ IsSequence(Append(s, x))
           /\ Len(s) \in Nat /\ DOMAIN s = 1 .. Len(s)
           /\ Len(Append(s, x)) = Len(s) + 1
           /\ \A i \in 1 .. Len(s) : Append(s, x)[i] = s[i]
           /\ Append(s, x)[Len(s) + 1] = x
<1> DEFINE S == {s[i] : i \in DOMAIN s} \cup {x}
           t == Append(s, x)
<1>1. s \in Seq(S)
  BY DEF IsSequence
<1>2. t \in Seq(S) /\ Len(t) = Len(s) + 1 /\ Len(s) \in Nat
  BY <1>1
<1>3. /\ DOMAIN s = 1 .. Len(s) /\ DOMAIN t = 1 .. Len(s) + 1
      /\ \A i \in 1 .. Len(s) : t[i] = s[i]
      /\ t[Len(s) + 1] = x
  BY <1>1, <1>2
<1>4. t \in Seq({t[i] : i \in DOMAIN t})
  BY <1>2, <1>3
<1> QED
  BY <1>2, <1>3, <1>4 DEF IsSequence

LastFour(data) == SubSeq(data, Len(data) - 3, Len(data))

\* An answer to question q is the last rule's for its name if it has no source, and there
\* is no such rule if it has one.
Decided(f, q, answer, source) ==
    \E found : /\ Says(f, Len(f), q.qname, found)
               /\ IF source = NULL THEN found # NULL /\ LastFour(answer.answer_buf) = found
                  ELSE found = NULL

\* What is collected, and what is up, at each place.
RulesFollowed ==
    /\ file \in Files /\ buf \in Seq(Octet)
    /\ questions \in Seq(Asking)
    /\ IsSequence(answers) /\ IsSequence(sources) /\ Len(sources) = Len(answers)
    /\ pc = "parse" => answers = <<>>
    /\ pc \in {"resolve", "recv"} => Len(answers) < Len(questions)
    /\ pc = "recv" => query \in Seq(Int) /\ Says(file, Len(file), Current.qname, NULL)
    /\ \A i \in 1 .. Len(answers) : Decided(file, questions[i], answers[i], sources[i])

LEMMA InitFollows == Init => RulesFollowed
<1> SUFFICES ASSUME Init PROVE RulesFollowed
  OBVIOUS
<1>1. buf \in Seq(Octet)
  <2>1. message \in Messages /\ buf = ClientPacket(message)
    BY DEF Init
  <2>2. \A m \in Messages : ClientPacket(m) \in Seq(Octet)
    BY MessagesAssumption, Zenon
  <2> QED
    BY <2>1, <2>2
<1>2. IsSequence(<<>>) /\ Len(<<>>) = 0
  BY DEF IsSequence
<1> QED
  BY <1>1, <1>2 DEF Init, RulesFollowed

\* Where the worker goes on to write the reply, or stops, nothing is collected any more.
LEMMA LeavingFollows ==
    ASSUME RulesFollowed, UNCHANGED <<file, buf, questions, answers, sources>>,
           pc' \in {"fail", "done"}
    PROVE  RulesFollowed'
BY DEF RulesFollowed, Decided, Says

LEMMA ParseFollows ==
    ASSUME RulesFollowed, ParseRequest
    PROVE  RulesFollowed'
<1> DEFINE parsed == ParseQuestions(buf)
           upper == [i \in DOMAIN parsed.questions |->
                        [parsed.questions[i] EXCEPT !.qname = ToUpper(@)]]
<1>1. /\ pc = "parse" /\ pc' = IF Len(questions') = 0 THEN "reply" ELSE "resolve"
      /\ questions' = upper
      /\ UNCHANGED <<file, buf, answers, sources>>
  BY DEF ParseRequest, Goto
<1>2. parsed.questions \in Seq(Asking)
  BY ParsedQuestions DEF RulesFollowed, Questioned
<1> HIDE DEF parsed
<1>3. upper \in Seq(Asking)
  <2> DEFINE n == Len(parsed.questions)
  <2>1. n \in Nat /\ DOMAIN parsed.questions = 1 .. n
    BY <1>2
  <2>2. ASSUME NEW i \in 1 .. n
        PROVE  [parsed.questions[i] EXCEPT !.qname = ToUpper(@)] \in Asking
    <3>1. parsed.questions[i] \in Asking
      BY <1>2
    <3> QED
      BY <3>1, UpperTyped DEF Asking
  <2>3. upper = [i \in 1 .. n |-> [parsed.questions[i] EXCEPT !.qname = ToUpper(@)]]
    BY <2>1
  <2>4. upper = [i \in 1 .. n |-> upper[i]] /\ \A i \in 1 .. n : upper[i] \in Asking
    BY <2>2, <2>3
  <2> HIDE DEF n, upper
  <2> QED
    BY <2>1, <2>4, AnySequence
<1> HIDE DEF upper
<1>4. answers = <<>> /\ Len(answers) = 0
  BY <1>1 DEF RulesFollowed
<1>5. Len(questions') \in Nat
  BY <1>1, <1>3
<1> QED
  BY <1>1, <1>3, <1>4, <1>5 DEF RulesFollowed

LEMMA CollectFollows ==
    ASSUME RulesFollowed, Len(answers) < Len(questions), NEW answer, NEW source,
           Collect(answer, source), Decided(file, Current, answer, source)
    PROVE  RulesFollowed'
<1> DEFINE n == Len(answers)
<1>1. /\ answers' = Append(answers, answer) /\ sources' = Append(sources, source)
      /\ pc' = IF n + 1 < Len(questions) THEN "resolve" ELSE "reply"
      /\ UNCHANGED <<file, buf, questions>>
  BY DEF Collect, Goto
<1>2. /\ IsSequence(answers) /\ IsSequence(sources) /\ Len(sources) = n
      /\ file \in Files /\ buf \in Seq(Octet) /\ questions \in Seq(Asking)
      /\ \A i \in 1 .. n : Decided(file, questions[i], answers[i], sources[i])
      /\ Decided(file, questions[n + 1], answer, source)
  BY DEF RulesFollowed, Current
<1>3. /\ IsSequence(answers') /\ Len(answers') = n + 1 /\ n \in Nat
      /\ \A i \in 1 .. n : answers'[i] = answers[i]
      /\ answers'[n + 1] = answer
  BY <1>1, <1>2, AppendAnything
<1>4. /\ IsSequence(sources') /\ Len(sources') = n + 1
      /\ \A i \in 1 .. n : sources'[i] = sources[i]
      /\ sources'[n + 1] = source
  BY <1>1, <1>2, AppendAnything
<1> HIDE DEF n
<1>5. ASSUME NEW i \in 1 .. n + 1
      PROVE  Decided(file, questions[i], answers'[i], sources'[i])
  <2>1. CASE i = n + 1
    BY <1>2, <1>3, <1>4, <2>1
  <2>2. CASE i # n + 1
    <3>1. i \in 1 .. n
      BY <1>3, <2>2
    <3> QED
      BY <1>2, <1>3, <1>4, <3>1
  <2> QED
    BY <2>1, <2>2
<1> QED
  BY <1>1, <1>2, <1>3, <1>4, <1>5 DEF RulesFollowed

\* A question of the request that is resolved has a name, and the trie leads from it to
\* what the file says.
LEMMA CurrentRule ==
    ASSUME RulesFollowed, Len(answers) < Len(questions)
    PROVE  /\ Current \in Asking
           /\ Says(file, Len(file), Current.qname, Table!SearchTrie(Rules, Current.qname))
<1>1. Len(answers) + 1 \in 1 .. Len(questions)
  BY AppendAnything DEF RulesFollowed
<1>2. Current \in Asking
  BY <1>1 DEF RulesFollowed, Current
<1>3. file \in Seq(RuleLine)
  BY FilesAssumption DEF RulesFollowed, RuleLine, Address
<1> QED
  BY <1>2, <1>3, RulesSay, Zenon

\* What a rule gives is an address.
LEMMA SaysAddress ==
    ASSUME NEW f \in Seq(RuleLine), NEW v, NEW found, Says(f, Len(f), v, found), found # NULL
    PROVE  found \in Address
<1>1. PICK k \in 1 .. Len(f) : found = f[k].address
  BY Zenon DEF Says
<1>2. f[k] \in RuleLine
  OBVIOUS
<1>3. f[k].address \in Address
  BY <1>2 DEF RuleLine
<1> QED
  BY <1>1, <1>3

LEMMA AnswerByRuleFollows ==
    ASSUME RulesFollowed, AnswerByRule
    PROVE  RulesFollowed'
<1> DEFINE address == Table!SearchTrie(Rules, Current.qname)
           answer == [ok |-> TRUE, answer_rr |-> 1, authority_rr |-> 0,
                      answer_buf |-> ResourceToBuf(Current.qname, address),
                      authority_buf |-> <<>>, ttl |-> 600]
<1>1. pc = "resolve" /\ address # NULL /\ Collect(answer, NULL)
  BY DEF AnswerByRule, Resolving
<1>2. Len(answers) < Len(questions)
  BY <1>1 DEF RulesFollowed
<1>3. Current \in Asking /\ Says(file, Len(file), Current.qname, address)
  BY <1>2, CurrentRule
<1> HIDE DEF address
<1>4. address \in Address
  <2>1. file \in Seq(RuleLine)
    BY FilesAssumption DEF RulesFollowed, RuleLine, Address
  <2> QED
    BY <1>1, <1>3, <2>1, SaysAddress
<1>5. answer.answer_buf = ResourceToBuf(Current.qname, address)
  OBVIOUS
<1>6. LastFour(answer.answer_buf) = address
  <2>1. Current.qname \in Seq(Octet)
    BY <1>3 DEF Asking
  <2> QED
    BY <1>4, <1>5, <2>1, AddressIsLast, Zenon DEF LastFour
<1> HIDE DEF answer
<1>7. Decided(file, Current, answer, NULL)
  BY <1>1, <1>3, <1>6, Zenon DEF Decided
<1> QED
  BY <1>1, <1>2, <1>7, CollectFollows

LEMMA AskFollows ==
    ASSUME RulesFollowed, Ask
    PROVE  RulesFollowed'
<1>1. /\ pc = "resolve" /\ pc' = "recv"
      /\ Table!SearchTrie(Rules, Current.qname) = NULL
      /\ query' = QueryBuf(Current, 258)
      /\ UNCHANGED <<file, buf, questions, answers, sources>>
  BY DEF Ask, Resolving, Goto
<1>2. Len(answers) < Len(questions)
  BY <1>1 DEF RulesFollowed
<1>3. Current \in Asking /\ Says(file, Len(file), Current.qname, NULL)
  BY <1>1, <1>2, CurrentRule
<1>4. query' \in Seq(Int)
  <2>1. 258 \in Nat
    OBVIOUS
  <2> QED
    BY <1>1, <1>3, <2>1, QueryTyped
<1>5. Current' = Current
  BY <1>1 DEF Current
<1>6. Says(file, Len(file), Current.qname, NULL)'
  BY <1>1, <1>3, <1>5 DEF Says
<1> QED
  BY <1>1, <1>2, <1>4, <1>6 DEF RulesFollowed

LEMMA ReceiveFollows ==
    ASSUME RulesFollowed, NEW a \in Answers, Receive(a)
    PROVE  RulesFollowed'
<1> DEFINE packet == UpstreamPacket(query, a)
           answer == ReadAnswer(packet, Len(query))
           source == [query |-> query, given |-> a]
<1>1. /\ pc = "recv"
      /\ \/ Collect(answer, source)
         \/ pc' \in {"fail", "done"} /\ UNCHANGED <<file, buf, questions, answers, sources>>
  BY DEF Receive, Goto
<1> HIDE DEF packet, answer
<1>2. CASE Collect(answer, source)
  <2>1. /\ Len(answers) < Len(questions) /\ query \in Seq(Int)
        /\ Says(file, Len(file), Current.qname, NULL)
    BY <1>1 DEF RulesFollowed
  <2>2. source # NULL
    BY <2>1, NullAssumption
  <2> HIDE DEF source
  <2>3. Decided(file, Current, answer, source)
    BY <2>1, <2>2, Zenon DEF Decided
  <2> QED
    BY <1>2, <2>1, <2>3, CollectFollows
<1>3. CASE pc' \in {"fail", "done"} /\ UNCHANGED <<file, buf, questions, answers, sources>>
  BY <1>3, LeavingFollows
<1> QED
  BY <1>1, <1>2, <1>3

LEMMA NextFollows == RulesFollowed /\ [Next]_vars => RulesFollowed'
<1> SUFFICES ASSUME RulesFollowed, [Next]_vars PROVE RulesFollowed'
  OBVIOUS
<1>1. CASE ParseResponse \/ Refuse \/ SearchOutside \/ GiveUp \/ ReplyFailure \/ ReplyAnswers
  <2>1. pc' \in {"fail", "done"} /\ UNCHANGED <<file, buf, questions, answers, sources>>
    BY <1>1 DEF ParseResponse, Refuse, SearchOutside, GiveUp, ReplyFailure, ReplyAnswers, Goto
  <2> QED
    BY <2>1, LeavingFollows
<1>2. CASE ParseRequest
  BY <1>2, ParseFollows
<1>3. CASE AnswerByRule
  BY <1>3, AnswerByRuleFollows
<1>4. CASE Ask
  BY <1>4, AskFollows
<1>5. ASSUME NEW a \in Answers, Receive(a) PROVE RulesFollowed'
  BY <1>5, ReceiveFollows
<1>6. CASE UNCHANGED vars
  BY <1>6 DEF vars, RulesFollowed, Decided, Says, Current
<1> QED
  BY <1>1, <1>2, <1>3, <1>4, <1>5, <1>6, Zenon DEF Next

LEMMA FollowedDecides == RulesFollowed => RulesDecide
<1> SUFFICES ASSUME RulesFollowed, NEW i \in DOMAIN answers
             PROVE  LET lines == {k \in DOMAIN file : ToUpper(file[k].name) = questions[i].qname}
                        data == answers[i].answer_buf
                    IN  /\ sources[i] = NULL <=> lines # {}
                        /\ sources[i] = NULL =>
                              \E k \in lines : /\ \A l \in lines : l <= k
                                               /\ SubSeq(data, Len(data) - 3, Len(data)) = file[k].address
  BY Zenon DEF RulesDecide
<1> DEFINE v == questions[i].qname
           lines == {k \in DOMAIN file : ToUpper(file[k].name) = v}
<1>1. i \in 1 .. Len(answers)
  BY AppendAnything DEF RulesFollowed
<1>2. PICK found : /\ Says(file, Len(file), v, found)
                   /\ IF sources[i] = NULL
                      THEN found # NULL /\ LastFour(answers[i].answer_buf) = found
                      ELSE found = NULL
  BY <1>1, Zenon DEF RulesFollowed, Decided
<1>3. file \in Seq(RuleLine) /\ DOMAIN file = 1 .. Len(file)
  <2>1. file \in Seq(RuleLine)
    BY FilesAssumption DEF RulesFollowed, RuleLine, Address
  <2> QED
    BY <2>1, LenProperties
<1> HIDE DEF v
<1>4. found = NULL => lines = {}
  <2>1. ASSUME NEW k \in 1 .. Len(file) PROVE file[k].address \in Address
    <3>1. file[k] \in RuleLine
      BY <1>3
    <3> QED
      BY <3>1 DEF RuleLine
  <2>2. NULL \notin Address
    BY NullAssumption DEF Address
  <2> QED
    BY <1>2, <1>3, <2>1, <2>2, Zenon DEF Says
<1>5. found # NULL => \E k \in lines : found = file[k].address /\ \A l \in lines : l <= k
  BY <1>2, <1>3, Zenon DEF Says
<1>6. sources[i] = NULL <=> found # NULL
  BY <1>2, Zenon
<1>7. sources[i] = NULL => LastFour(answers[i].answer_buf) = found
  BY <1>2, Zenon
<1> HIDE DEF lines
<1>8. /\ sources[i] = NULL <=> lines # {}
      /\ sources[i] = NULL =>
            \E k \in lines : /\ \A l \in lines : l <= k
                             /\ LastFour(answers[i].answer_buf) = file[k].address
  BY <1>4, <1>5, <1>6, <1>7, Zenon
<1> QED
  BY <1>8, Zenon DEF lines, v, LastFour

\* dns_resolve and read_rules_to_trie: whatever the lines of the file, their order and
\* case and the names that are parts of others, a question is answered with the address
\* of the last line that has its name, and if none has, with what the server gave.
THEOREM LastRuleDecides == Spec => []RulesDecide
<1>1. RulesFollowed => RulesDecide
  BY FollowedDecides
<1> QED
  BY <1>1, InitFollows, NextFollows, PTL DEF Spec
====
