--------------------------- MODULE DnsCacheProofs ---------------------------
(***************************************************************************)
(* Theorems about DnsCache, for every value of its constants.              *)
(*                                                                         *)
(* Accounting holds whatever the configuration.  The agreement of trie and *)
(* list, and with it the correctness of the answers, holds as long as an   *)
(* eviction can never happen, because more records fit than there are      *)
(* questions to ask; SmallWorkingSet states that.                          *)
(***************************************************************************)
EXTENDS DnsCache, SequenceTheorems, FiniteSetTheorems, TLAPS

-----------------------------------------------------------------------------
(***************************************************************************)
(* Sequences without repetition, as linked lists of distinct cells are:    *)
(* what adding a cell in front, unlinking a cell and dropping the last     *)
(* cell do to the list and to the set of its cells.                        *)
(***************************************************************************)
\* The length of what follows position p, as SubSeqProperties states it.
LEMMA TailLength ==
    ASSUME NEW n \in Int, NEW p \in Int, p =< n
    PROVE  n - p = IF p + 1 =< n THEN n - (p + 1) + 1 ELSE 0
OBVIOUS

\* A new element in front (g_list_prepend): one element more.
LEMMA ConsInjective ==
    ASSUME NEW S, NEW s \in Seq(S), IsInjective(s), NEW a \in S, a \notin ToSet(s)
    PROVE  /\ Cons(a, s) \in Seq(S)
           /\ Len(Cons(a, s)) = Len(s) + 1
           /\ \A i \in 1..(Len(s) + 1) : Cons(a, s)[i] = IF i = 1 THEN a ELSE s[i-1]
           /\ IsInjective(Cons(a, s))
           /\ ToSet(Cons(a, s)) = ToSet(s) \cup {a}
<1> DEFINE t == Cons(a, s)
<1>1. <<a>> \in Seq(S) /\ Len(<<a>>) = 1
  OBVIOUS
<1>2. DOMAIN s = 1..Len(s) /\ Len(s) \in Nat
  BY LenProperties
<1>3. /\ t \in Seq(S)
      /\ Len(t) = Len(s) + 1
      /\ \A i \in 1..(Len(s) + 1) : t[i] = IF i = 1 THEN a ELSE s[i-1]
  BY <1>1, <1>2, ConcatProperties DEF Cons
<1>4. DOMAIN t = 1..(Len(s) + 1)
  BY <1>3, LenProperties
<1> HIDE DEF t
<1>5. \A i \in DOMAIN s : s[i] # a
  BY DEF ToSet
<1>6. IsInjective(t)
  <2> SUFFICES ASSUME NEW i \in DOMAIN t, NEW j \in DOMAIN t, t[i] = t[j]
               PROVE  i = j
    BY DEF IsInjective
  <2>1. CASE i = 1
    BY <2>1, <1>2, <1>3, <1>4, <1>5
  <2>2. CASE j = 1
    BY <2>2, <1>2, <1>3, <1>4, <1>5
  <2>3. CASE i # 1 /\ j # 1
    <3>1. i - 1 \in DOMAIN s /\ j - 1 \in DOMAIN s /\ s[i-1] = s[j-1]
      BY <2>3, <1>2, <1>3, <1>4
    <3>2. i - 1 = j - 1
      BY <3>1 DEF IsInjective
    <3>3. QED
      BY <3>2, <1>4
  <2>4. QED
    BY <2>1, <2>2, <2>3
<1>7. ToSet(t) = ToSet(s) \cup {a}
  <2>1. ToSet(t) \subseteq ToSet(s) \cup {a}
    BY <1>2, <1>3, <1>4 DEF ToSet
  <2>2. a \in ToSet(t)
    BY <1>2, <1>3, <1>4 DEF ToSet
  <2>3. ASSUME NEW i \in DOMAIN s
        PROVE  s[i] \in ToSet(t)
    <3>1. i + 1 \in DOMAIN t /\ t[i+1] = s[i]
      BY <1>2, <1>3, <1>4
    <3>2. QED
      BY <3>1 DEF ToSet
  <2>4. QED
    BY <2>1, <2>2, <2>3 DEF ToSet
<1>8. QED
  BY <1>3, <1>6, <1>7 DEF t

\* Position p taken out: one element fewer, the others in their order.
LEMMA RemoveAtLists ==
    ASSUME NEW S, NEW s \in Seq(S), NEW p \in 1..Len(s)
    PROVE  /\ RemoveAt(s, p) \in Seq(S)
           /\ Len(RemoveAt(s, p)) = Len(s) - 1
           /\ \A i \in 1..(Len(s) - 1) :
                 RemoveAt(s, p)[i] = IF i < p THEN s[i] ELSE s[i+1]
<1> DEFINE t == RemoveAt(s, p)
           l == SubSeq(s, 1, p-1)
           r == SubSeq(s, p+1, Len(s))
<1>0. /\ DOMAIN s = 1..Len(s) /\ Len(s) \in Nat /\ Len(s) \in Int
      /\ p \in Int /\ 1 <= p /\ p <= Len(s)
  BY LenProperties
<1>1. /\ l \in Seq(S) /\ Len(l) = p - 1
      /\ \A i \in 1..(p-1) : l[i] = s[i]
  BY <1>0, SubSeqProperties
<1>2. /\ r \in Seq(S) /\ Len(r) = Len(s) - p
      /\ \A i \in 1..(Len(s)-p) : r[i] = s[p+i]
  <2>1. p + 1 \in Int /\ \A i \in (p+1)..Len(s) : s[i] \in S
    BY <1>0
  <2>2. /\ r \in Seq(S)
        /\ Len(r) = IF p+1 <= Len(s) THEN Len(s) - (p+1) + 1 ELSE 0
        /\ \A i \in 1..(Len(s) - (p+1) + 1) : r[i] = s[(p+1) + i - 1]
    BY <2>1, <1>0, SubSeqProperties
  <2> HIDE DEF r
  <2>3. Len(r) = Len(s) - p
    BY <1>0, <2>2, TailLength, Zenon
  <2>4. ASSUME NEW i \in 1..(Len(s)-p)
        PROVE  r[i] = s[p+i]
    <3>1. i \in 1..(Len(s) - (p+1) + 1) /\ (p+1) + i - 1 = p + i
      BY <1>0
    <3>2. QED
      BY <2>2, <3>1
  <2>5. QED
    BY <2>2, <2>3, <2>4
<1>3. /\ t \in Seq(S)
      /\ Len(t) = Len(s) - 1
      /\ \A i \in 1..(Len(s)-1) : t[i] = IF i < p THEN s[i] ELSE s[i+1]
  <2>1. t = l \o r
    BY DEF RemoveAt
  <2> HIDE DEF t, l, r
  <2>2. /\ t \in Seq(S)
        /\ Len(t) = Len(l) + Len(r)
        /\ \A i \in 1..(Len(l) + Len(r)) :
              t[i] = IF i <= Len(l) THEN l[i] ELSE r[i - Len(l)]
    BY <2>1, <1>1, <1>2, ConcatProperties
  <2>3. Len(l) + Len(r) = Len(s) - 1
    BY <1>0, <1>1, <1>2
  <2>4. ASSUME NEW i \in 1..(Len(s)-1)
        PROVE  t[i] = IF i < p THEN s[i] ELSE s[i+1]
    <3>1. CASE i < p
      <4>1. i <= Len(l) /\ i \in 1..(p-1)
        BY <3>1, <1>0, <1>1
      <4>2. QED
        BY <4>1, <3>1, <2>2, <2>3, <1>1
    <3>2. CASE ~(i < p)
      <4>1. /\ ~(i <= Len(l))
            /\ i - Len(l) \in 1..(Len(s)-p)
            /\ p + (i - Len(l)) = i + 1
        BY <3>2, <1>0, <1>1
      <4>2. t[i] = r[i - Len(l)] /\ r[i - Len(l)] = s[i+1]
        BY <4>1, <2>2, <2>3, <1>2
      <4>3. QED
        BY <4>2, <3>2
    <3>3. QED
      BY <3>1, <3>2
  <2>5. QED
    BY <2>2, <2>3, <2>4
<1> QED
  BY <1>3 DEF t

\* From a list of distinct cells it leaves the other cells, each once.
LEMMA RemoveAtInjective ==
    ASSUME NEW S, NEW s \in Seq(S), IsInjective(s), NEW p \in 1..Len(s)
    PROVE  /\ RemoveAt(s, p) \in Seq(S)
           /\ Len(RemoveAt(s, p)) = Len(s) - 1
           /\ \A i \in 1..(Len(s) - 1) :
                 RemoveAt(s, p)[i] = IF i < p THEN s[i] ELSE s[i+1]
           /\ IsInjective(RemoveAt(s, p))
           /\ ToSet(RemoveAt(s, p)) = ToSet(s) \ {s[p]}
<1> DEFINE t == RemoveAt(s, p)
<1>0. /\ DOMAIN s = 1..Len(s) /\ Len(s) \in Nat /\ p \in Int /\ 1 <= p /\ p <= Len(s)
  BY LenProperties
<1>3. /\ t \in Seq(S)
      /\ Len(t) = Len(s) - 1
      /\ \A i \in 1..(Len(s)-1) : t[i] = IF i < p THEN s[i] ELSE s[i+1]
  BY RemoveAtLists
<1>4. DOMAIN t = 1..(Len(s) - 1)
  BY <1>3, LenProperties
<1> HIDE DEF t
<1>5. IsInjective(t)
  BY <1>0, <1>3, <1>4 DEF IsInjective
<1>6. ToSet(t) = ToSet(s) \ {s[p]}
  <2>1. ToSet(t) \subseteq ToSet(s) \ {s[p]}
    BY <1>0, <1>3, <1>4 DEF ToSet, IsInjective
  <2>2. ASSUME NEW i \in 1..Len(s), i # p
        PROVE  s[i] \in ToSet(t)
    <3>1. CASE i < p
      BY <3>1, <1>0, <1>3, <1>4 DEF ToSet
    <3>2. CASE i > p
      <4>1. i - 1 \in 1..(Len(s)-1) /\ t[i-1] = s[i]
        BY <3>2, <1>0, <1>3
      <4>2. QED
        BY <4>1, <1>4 DEF ToSet
    <3>3. QED
      BY <3>1, <3>2, <2>2, <1>0
  <2>3. QED
    BY <2>1, <2>2, <1>0 DEF ToSet
<1>7. QED
  BY <1>3, <1>5, <1>6 DEF t

\* An element taken out by its value (g_list_remove_link, g_list_delete_link)
\* is taken out at its one position.
LEMMA RemoveFirstInjective ==
    ASSUME NEW S, NEW s \in Seq(S), IsInjective(s), NEW a \in ToSet(s)
    PROVE  \E p \in 1..Len(s) : s[p] = a /\ RemoveFirst(s, a) = RemoveAt(s, p)
<1>0. DOMAIN s = 1..Len(s) /\ Len(s) \in Nat
  BY LenProperties
<1>1. PICK p \in 1..Len(s) : s[p] = a
  BY <1>0 DEF ToSet
<1>2. {i \in 1..Len(s) : s[i] = a} = {p}
  BY <1>0, <1>1 DEF IsInjective
<1>3. Min({p}) = p
  <2>1. \A x \in {p} : \A y \in {p} : x =< y
    BY <1>0
  <2>2. QED
    BY <2>1 DEF Min
<1>4. SelectInSeq(s, LAMBDA v : v = a) = p
  BY <1>2, <1>3 DEF SelectInSeq
<1>5. QED
  BY <1>1, <1>4 DEF RemoveFirst

\* The last element dropped is the last position taken out.
LEMMA FrontIsRemoveLast ==
    ASSUME NEW S, NEW s \in Seq(S), s # <<>>
    PROVE  /\ Len(s) \in 1..Len(s)
           /\ Last(s) = s[Len(s)]
           /\ Last(s) \in ToSet(s)
           /\ Front(s) = RemoveAt(s, Len(s))
<1>1. DOMAIN s = 1..Len(s) /\ Len(s) \in Nat /\ Len(s) # 0
  BY LenProperties, EmptySeq
<1>2. SubSeq(s, 1, Len(s) - 1) \in Seq(S)
  BY <1>1, SubSeqProperties
<1>3. SubSeq(s, Len(s) + 1, Len(s)) = <<>>
  BY <1>1, SubSeqEmpty
<1>4. SubSeq(s, 1, Len(s) - 1) \o <<>> = SubSeq(s, 1, Len(s) - 1)
  BY <1>2, ConcatEmptySeq
<1>5. QED
  BY <1>1, <1>3, <1>4 DEF Front, Last, RemoveAt, ToSet

-----------------------------------------------------------------------------
(***************************************************************************)
(* Accounting                                                              *)
(***************************************************************************)

\* TypeOK and the two accounting invariants support one another: an eviction
\* reads the last cell of the list, which is allocated because the list owns
\* its cells, and the counter is right because a cell is listed once.
Accounting == TypeOK /\ CountsItsCells /\ ListOwnsCells

\* The key of a cacheable question is in the trie's domain, and so is every
\* plain name.
LEMMA KeyInTrie ==
    /\ \A q \in Questions : Cacheable(q) => Key(q) \in TrieKeys
    /\ Names \subseteq TrieKeys
BY DEF TrieKeys

\* g_list_prepend of a record once the cells in released are off the list:
\* the remaining cells and the new one are listed once each and are the
\* allocated ones.
LEMMA PrependOwnsCells ==
    ASSUME TypeOK, ListOwnsCells, status = "up",
           NEW record \in Record,
           NEW released \in SUBSET ToSet(mru),
           NEW remaining \in Seq(Addr),
           IsInjective(remaining),
           ToSet(remaining) = ToSet(mru) \ released,
           NEW index \in [TrieKeys -> Addr \cup {NULL}],
           Cacheable(record.question),
           Prepend(record, released, remaining, index)
    PROVE  /\ cell' \in [Addr -> Record \cup {NULL}]
           /\ mru' \in Seq(Addr)
           /\ trie' \in [TrieKeys -> Addr \cup {NULL}]
           /\ IsInjective(mru')
           /\ Len(mru') = Len(remaining) + 1
           /\ \A a \in Addr : cell'[a] # NULL <=> a \in ToSet(mru')
<1>1. PICK a \in {b \in Addr : cell[b] = NULL \/ b \in released} :
         /\ cell' = [b \in Addr |-> IF b = a THEN record
                                    ELSE IF b \in released THEN NULL ELSE cell[b]]
         /\ mru' = Cons(a, remaining)
         /\ trie' = [index EXCEPT ![Key(record.question)] = a]
  BY Zenon DEF Prepend
<1>2. \A b \in Addr : cell[b] # NULL <=> b \in ToSet(mru)
  BY DEF ListOwnsCells
<1>3. a \in Addr /\ a \notin ToSet(remaining)
  BY <1>2
<1>4. /\ mru' \in Seq(Addr)
      /\ Len(mru') = Len(remaining) + 1
      /\ IsInjective(mru')
      /\ ToSet(mru') = ToSet(remaining) \cup {a}
  BY <1>1, <1>3, ConsInjective
<1>5. cell' \in [Addr -> Record \cup {NULL}]
  BY <1>1 DEF TypeOK
<1>6. trie' \in [TrieKeys -> Addr \cup {NULL}]
  BY <1>1, <1>3
<1>7. ASSUME NEW b \in Addr
      PROVE  cell'[b] # NULL <=> b \in ToSet(mru')
  <2>1. record # NULL
    BY CacheAssumption
  <2>2. CASE b = a
    BY <2>1, <2>2, <1>1, <1>4
  <2>3. CASE b # a
    BY <2>3, <1>1, <1>2, <1>4
  <2>4. QED
    BY <2>2, <2>3
<1>8. QED
  BY <1>4, <1>5, <1>6, <1>7

\* Unlinking one cell of the list leaves the others, each listed once.
LEMMA Unlink ==
    ASSUME TypeOK, ListOwnsCells, NEW a \in ToSet(mru)
    PROVE  /\ RemoveFirst(mru, a) \in Seq(Addr)
           /\ IsInjective(RemoveFirst(mru, a))
           /\ Len(RemoveFirst(mru, a)) = Len(mru) - 1
           /\ ToSet(RemoveFirst(mru, a)) = ToSet(mru) \ {a}
<1>1. mru \in Seq(Addr) /\ IsInjective(mru)
  BY DEF TypeOK, ListOwnsCells
<1>2. PICK p \in 1..Len(mru) : mru[p] = a /\ RemoveFirst(mru, a) = RemoveAt(mru, p)
  BY <1>1, RemoveFirstInjective
<1>3. /\ RemoveAt(mru, p) \in Seq(Addr)
      /\ IsInjective(RemoveAt(mru, p))
      /\ Len(RemoveAt(mru, p)) = Len(mru) - 1
      /\ ToSet(RemoveAt(mru, p)) = ToSet(mru) \ {mru[p]}
  BY <1>1, RemoveAtInjective
<1>4. QED
  BY <1>2, <1>3, Zenon

\* The cell that match and insert reach through the trie, if it is allocated,
\* is a cell of the list.
LEMMA LookupListed ==
    ASSUME TypeOK, ListOwnsCells, status = "up",
           NEW q \in Questions, Cacheable(q),
           Lookup(q) # NULL, cell[Lookup(q)] # NULL
    PROVE  /\ Lookup(q) \in Addr
           /\ Lookup(q) \in ToSet(mru)
           /\ cell[Lookup(q)] \in Record
<1>1. Lookup(q) \in Addr
  BY KeyInTrie DEF Lookup, TypeOK
<1>2. QED
  BY <1>1 DEF ListOwnsCells, TypeOK

LEMMA AccountingInit ==
    Init => Accounting
<1> SUFFICES ASSUME Init PROVE Accounting
  OBVIOUS
<1>1. mru = <<>> /\ mru \in Seq(Addr) /\ Len(mru) = 0 /\ DOMAIN mru = {}
  BY EmptySeq DEF Init
<1>2. TypeOK
  BY <1>1, CacheAssumption DEF Init, TypeOK, NoReturn
<1>3. CountsItsCells
  BY <1>1 DEF Init, CountsItsCells
<1>4. ListOwnsCells
  BY <1>1 DEF Init, ListOwnsCells, IsInjective, ToSet
<1>5. QED
  BY <1>2, <1>3, <1>4 DEF Accounting

\* The variables other than now and ret, after one call.
LEMMA HitAccounting ==
    ASSUME Accounting, NEW q \in Questions, Hit(q)
    PROVE  /\ CountsItsCells' /\ ListOwnsCells'
           /\ cell[Lookup(q)] \in Record
           /\ mru' \in Seq(Addr)
<1>1. /\ TypeOK /\ CountsItsCells /\ ListOwnsCells
      /\ status = "up" /\ Cacheable(q) /\ Lookup(q) # NULL
      /\ cell[Lookup(q)] # NULL
      /\ mru' = Cons(Lookup(q), RemoveFirst(mru, Lookup(q)))
      /\ cell' = cell /\ cached' = cached /\ status' = status
  BY DEF Accounting, Hit, Kept
<1>2. /\ Lookup(q) \in Addr
      /\ Lookup(q) \in ToSet(mru)
      /\ cell[Lookup(q)] \in Record
  BY <1>1, LookupListed
<1> DEFINE rest == RemoveFirst(mru, Lookup(q))
<1>3. /\ rest \in Seq(Addr) /\ IsInjective(rest)
      /\ Len(rest) = Len(mru) - 1
      /\ ToSet(rest) = ToSet(mru) \ {Lookup(q)}
  BY <1>1, <1>2, Unlink
<1> HIDE DEF rest
<1>4. mru' = Cons(Lookup(q), rest)
  BY <1>1 DEF rest
<1>5. /\ mru' \in Seq(Addr) /\ IsInjective(mru')
      /\ Len(mru') = Len(rest) + 1
      /\ ToSet(mru') = ToSet(rest) \cup {Lookup(q)}
  BY <1>2, <1>3, <1>4, ConsInjective
<1>6. Len(mru') = Len(mru)
  <2>1. Len(mru) \in Nat
    BY <1>1, LenProperties DEF TypeOK
  <2>2. QED
    BY <2>1, <1>3, <1>5
<1>7. CountsItsCells'
  BY <1>1, <1>6 DEF CountsItsCells
<1>8. ToSet(mru') = ToSet(mru)
  BY <1>2, <1>3, <1>5
<1>9. ListOwnsCells'
  BY <1>1, <1>5, <1>8 DEF ListOwnsCells
<1>10. QED
  BY <1>2, <1>5, <1>7, <1>9

LEMMA ExpireAccounting ==
    ASSUME Accounting, NEW q \in Questions, Expire(q)
    PROVE  /\ CountsItsCells' /\ ListOwnsCells'
           /\ cell' \in [Addr -> Record \cup {NULL}]
           /\ mru' \in Seq(Addr)
           /\ trie' \in [TrieKeys -> Addr \cup {NULL}]
           /\ cached' \in Int
<1>1. /\ TypeOK /\ CountsItsCells /\ ListOwnsCells
      /\ status = "up" /\ Cacheable(q) /\ Lookup(q) # NULL
      /\ cell[Lookup(q)] # NULL
      /\ mru' = RemoveFirst(mru, Lookup(q))
      /\ cell' = [cell EXCEPT ![Lookup(q)] = NULL]
      /\ trie' = [trie EXCEPT ![Key(q)] = NULL]
      /\ cached' = cached - 1 /\ status' = status
  BY DEF Accounting, Expire, Kept
<1>2. Lookup(q) \in Addr /\ Lookup(q) \in ToSet(mru)
  BY <1>1, LookupListed
<1>3. /\ mru' \in Seq(Addr) /\ IsInjective(mru')
      /\ Len(mru') = Len(mru) - 1
      /\ ToSet(mru') = ToSet(mru) \ {Lookup(q)}
  BY <1>1, <1>2, Unlink
<1>4. CountsItsCells' /\ cached' \in Int
  <2>1. cached \in Int /\ CacheSize \in Int
    BY <1>1, CacheAssumption DEF TypeOK
  <2>2. QED
    BY <1>1, <1>3, <2>1 DEF CountsItsCells
<1>5. ListOwnsCells'
  <2>1. \A a \in Addr : cell'[a] # NULL <=> a \in ToSet(mru')
    BY <1>1, <1>2, <1>3 DEF ListOwnsCells, TypeOK
  <2>2. QED
    BY <1>1, <1>3, <2>1 DEF ListOwnsCells
<1>6. QED
  BY <1>1, <1>2, <1>3, <1>4, <1>5 DEF TypeOK

\* The three branches of insert_cache that store the record.
LEMMA StoreAccounting ==
    ASSUME Accounting, status = "up",
           NEW record \in Record, Cacheable(record.question),
           \/ InsertNew(record) \/ InsertReplace(record) \/ InsertEvict(record)
    PROVE  /\ CountsItsCells' /\ ListOwnsCells'
           /\ cell' \in [Addr -> Record \cup {NULL}]
           /\ mru' \in Seq(Addr)
           /\ trie' \in [TrieKeys -> Addr \cup {NULL}]
           /\ cached' \in Int
           /\ status' = "up"
<1>1. TypeOK /\ CountsItsCells /\ ListOwnsCells
  BY DEF Accounting
<1>2. /\ mru \in Seq(Addr) /\ IsInjective(mru) /\ Len(mru) \in Nat
      /\ trie \in [TrieKeys -> Addr \cup {NULL}]
      /\ cached \in Int /\ CacheSize \in Int
      /\ record.question \in Questions
      /\ Key(record.question) \in TrieKeys
  BY <1>1, LenProperties, CacheAssumption, KeyInTrie
     DEF TypeOK, ListOwnsCells, Record
<1>3. ASSUME NEW released \in SUBSET ToSet(mru),
             NEW remaining \in Seq(Addr), IsInjective(remaining),
             ToSet(remaining) = ToSet(mru) \ released,
             NEW index \in [TrieKeys -> Addr \cup {NULL}],
             Prepend(record, released, remaining, index),
             status' = status,
             cached' = Len(remaining) + 1,
             CacheSize >= 0 => cached' <= CacheSize
      PROVE  /\ CountsItsCells' /\ ListOwnsCells'
             /\ cell' \in [Addr -> Record \cup {NULL}]
             /\ mru' \in Seq(Addr)
             /\ trie' \in [TrieKeys -> Addr \cup {NULL}]
             /\ cached' \in Int
             /\ status' = "up"
  <2>1. /\ cell' \in [Addr -> Record \cup {NULL}]
        /\ mru' \in Seq(Addr)
        /\ trie' \in [TrieKeys -> Addr \cup {NULL}]
        /\ IsInjective(mru')
        /\ Len(mru') = Len(remaining) + 1
        /\ \A a \in Addr : cell'[a] # NULL <=> a \in ToSet(mru')
    BY <1>1, <1>3, PrependOwnsCells
  <2>2. cached' \in Int
    BY <1>3, LenProperties
  <2>3. QED
    BY <1>3, <2>1, <2>2 DEF CountsItsCells, ListOwnsCells
<1>4. CASE InsertNew(record)
  <2>1. /\ cached < CacheSize
        /\ Prepend(record, {}, mru, trie)
        /\ cached' = cached + 1
        /\ status' = status
    BY <1>4 DEF InsertNew
  <2>2. cached' = Len(mru) + 1 /\ cached' <= CacheSize
    BY <2>1, <1>1, <1>2 DEF CountsItsCells
  <2>3. QED
    BY <2>1, <2>2, <1>2, <1>3
<1>5. CASE InsertReplace(record)
  <2> DEFINE old == Lookup(record.question)
             index == [trie EXCEPT ![Key(record.question)] = NULL]
             rest == RemoveFirst(mru, old)
  <2>1. /\ cached < CacheSize
        /\ old # NULL /\ cell[old] # NULL
        /\ Prepend(record, {old}, rest, index)
        /\ cached' = cached
        /\ status' = status
    BY <1>5 DEF InsertReplace
  <2>2. old \in ToSet(mru)
    BY <2>1, <1>1, <1>2, LookupListed
  <2>3. /\ rest \in Seq(Addr) /\ IsInjective(rest)
        /\ Len(rest) = Len(mru) - 1
        /\ ToSet(rest) = ToSet(mru) \ {old}
    BY <2>2, <1>1, Unlink
  <2>4. index \in [TrieKeys -> Addr \cup {NULL}]
    BY <1>2
  <2> HIDE DEF old, index, rest
  <2>5. cached' = Len(rest) + 1 /\ cached' <= CacheSize
    BY <2>1, <2>3, <1>1, <1>2 DEF CountsItsCells
  <2>6. QED
    BY <2>1, <2>2, <2>3, <2>4, <2>5, <1>3
<1>6. CASE InsertEvict(record)
  <2> DEFINE lru == Last(mru)
             index == [trie EXCEPT ![cell[lru].question.qname] = NULL]
             rest == Front(mru)
  <2>1. /\ mru # <<>>
        /\ Prepend(record, {lru}, rest, index)
        /\ cached' = cached
        /\ status' = status
    BY <1>6 DEF InsertEvict
  <2>2. /\ Len(mru) \in 1..Len(mru)
        /\ lru = mru[Len(mru)] /\ lru \in ToSet(mru)
        /\ rest = RemoveAt(mru, Len(mru))
    BY <2>1, <1>2, FrontIsRemoveLast
  <2> HIDE DEF lru, rest
  <2>3. /\ rest \in Seq(Addr) /\ IsInjective(rest)
        /\ Len(rest) = Len(mru) - 1
        /\ ToSet(rest) = ToSet(mru) \ {lru}
    BY <2>2, <1>2, RemoveAtInjective
  <2>4. index \in [TrieKeys -> Addr \cup {NULL}]
    BY <1>2
  <2> HIDE DEF index
  <2>5. cached' = Len(rest) + 1 /\ (CacheSize >= 0 => cached' <= CacheSize)
    BY <2>1, <2>3, <1>1, <1>2 DEF CountsItsCells
  <2>6. QED
    BY <2>1, <2>2, <2>3, <2>4, <2>5, <1>3
<1>7. QED
  BY <1>4, <1>5, <1>6

\* A call of match_cacherules or insert_cache, whatever it returns and whoever is
\* to use that.
LEMMA CallAccounting ==
    ASSUME Accounting, UNCHANGED now,
           ret' \in [question : Questions \cup {NULL}, record : Record \cup {NULL}],
           \/ \E q \in Questions : Hit(q) \/ Expire(q) \/ Miss(q) \/ MatchUndefined(q)
           \/ \E record \in Record : InsertIgnored(record) \/ InsertStored(record)
    PROVE  Accounting'
<1>0. TypeOK /\ CountsItsCells /\ ListOwnsCells
  BY DEF Accounting
<1>1. ASSUME NEW q \in Questions, Hit(q) PROVE Accounting'
  <2>1. /\ CountsItsCells' /\ ListOwnsCells'
        /\ mru' \in Seq(Addr)
    BY <1>1, HitAccounting
  <2>2. cell' = cell /\ trie' = trie /\ cached' = cached /\ status' = status
    BY <1>1 DEF Hit
  <2>3. QED
    BY <1>0, <2>1, <2>2 DEF Accounting, TypeOK
<1>2. ASSUME NEW q \in Questions, Expire(q) PROVE Accounting'
  <2>1. /\ CountsItsCells' /\ ListOwnsCells'
        /\ cell' \in [Addr -> Record \cup {NULL}]
        /\ mru' \in Seq(Addr)
        /\ trie' \in [TrieKeys -> Addr \cup {NULL}]
        /\ cached' \in Int
    BY <1>2, ExpireAccounting
  <2>2. status' = status
    BY <1>2 DEF Expire
  <2>3. QED
    BY <1>0, <2>1, <2>2 DEF Accounting, TypeOK
<1>3. ASSUME UNCHANGED <<cell, mru, trie, cached, status>> PROVE Accounting'
  BY <1>0, <1>3 DEF Accounting, TypeOK, CountsItsCells, ListOwnsCells
<1>4. ASSUME status = "up", Undefined PROVE Accounting'
  BY <1>0, <1>4 DEF Undefined, Accounting, TypeOK, CountsItsCells, ListOwnsCells
<1>5. ASSUME NEW record \in Record, InsertStored(record) PROVE Accounting'
  <2>1. status = "up" /\ Cacheable(record.question)
    BY <1>5 DEF InsertStored
  <2>2. CASE InsertNew(record) \/ InsertReplace(record) \/ InsertEvict(record)
    <3>1. /\ CountsItsCells' /\ ListOwnsCells'
          /\ cell' \in [Addr -> Record \cup {NULL}]
          /\ mru' \in Seq(Addr)
          /\ trie' \in [TrieKeys -> Addr \cup {NULL}]
          /\ cached' \in Int
          /\ status' = "up"
      BY <2>1, <2>2, StoreAccounting
    <3>2. QED
      BY <1>0, <3>1 DEF Accounting, TypeOK
  <2>3. CASE InsertUndefined(record)
    BY <2>1, <2>3, <1>4 DEF InsertUndefined
  <2>4. QED
    BY <1>5, <2>2, <2>3 DEF InsertStored
<1>6. QED
  BY <1>1, <1>2, <1>3, <1>4, <1>5 DEF Miss, MatchUndefined, InsertIgnored

\* Every step preserves the accounting invariant, and so does stuttering.
LEMMA AccountingStep ==
    Accounting /\ [Next]_vars => Accounting'
<1> SUFFICES ASSUME Accounting, [Next]_vars PROVE Accounting'
  OBVIOUS
<1>0. TypeOK /\ CountsItsCells /\ ListOwnsCells
  BY DEF Accounting
<1>1. ASSUME NEW q \in Questions, Match(q)
      PROVE  Accounting'
  <2>1. Hit(q) => cell[Lookup(q)] \in Record
    BY HitAccounting
  <2>2. ret' \in [question : Questions \cup {NULL}, record : Record \cup {NULL}]
    BY <1>1, <2>1 DEF Match, NoReturn
  <2>3. UNCHANGED now /\ (Hit(q) \/ Expire(q) \/ Miss(q) \/ MatchUndefined(q))
    BY <1>1 DEF Match
  <2>4. QED
    BY <2>2, <2>3, CallAccounting
<1>2. ASSUME NEW record \in Answers, Insert(record)
      PROVE  Accounting'
  <2>1. ret' \in [question : Questions \cup {NULL}, record : Record \cup {NULL}]
    BY <1>2 DEF Insert, NoReturn
  <2>2. /\ record \in Record /\ UNCHANGED now
        /\ InsertIgnored(record) \/ InsertStored(record)
    BY <1>2 DEF Insert, Answers
  <2>3. QED
    BY <2>1, <2>2, CallAccounting
<1>3. CASE FreeCache
  <2>1. /\ status = "up" /\ status' = "freed"
        /\ cell' = [a \in Addr |-> IF a \in ToSet(mru) THEN NULL ELSE cell[a]]
        /\ UNCHANGED <<now, mru, trie, cached, ret>>
    BY <1>3 DEF FreeCache
  <2>2. \A a \in Addr : cell'[a] = NULL
    BY <2>1, <1>0 DEF ListOwnsCells
  <2>3. ListOwnsCells'
    BY <2>1, <2>2, <1>0 DEF ListOwnsCells
  <2>4. QED
    BY <2>1, <2>2, <2>3, <1>0 DEF Accounting, TypeOK, CountsItsCells
<1>4. CASE Tick
  <2>1. now' \in 0..MaxTime
    BY <1>4, <1>0, CacheAssumption DEF Tick, TypeOK
  <2>2. QED
    BY <1>4, <2>1, <1>0 DEF Tick, Accounting, TypeOK, CountsItsCells, ListOwnsCells
<1>5. CASE UNCHANGED vars
  BY <1>5, <1>0 DEF vars, Accounting, TypeOK, CountsItsCells, ListOwnsCells
<1>6. QED
  BY <1>1, <1>2, <1>3, <1>4, <1>5 DEF Next

THEOREM AccountingInvariant ==
    Spec => []Accounting
BY AccountingInit, AccountingStep, PTL DEF Spec

\* The variables keep their types (the structs of cache.c, the list and the
\* trie that lead to them).
THEOREM TypeCorrect ==
    Spec => []TypeOK
BY AccountingInvariant, PTL DEF Accounting

\* cache.cached counts the cells of the list and stays within the configured
\* size, whatever that is and whatever the calls.
THEOREM CounterCorrect ==
    Spec => []CountsItsCells
BY AccountingInvariant, PTL DEF Accounting

\* The cells that are allocated are those on the list, once each: cache.c
\* neither leaks a record nor releases one that is listed, even on the paths
\* on which its trie goes wrong.
THEOREM ListOwnership ==
    Spec => []ListOwnsCells
BY AccountingInvariant, PTL DEF Accounting

-----------------------------------------------------------------------------
(***************************************************************************)
(* The answers of a cache that is never full.                              *)
(*                                                                         *)
(* The trie of cache.c goes out of step with its list only when a record   *)
(* is evicted.  If more records fit than there are cacheable questions,    *)
(* the list, which then holds a question at most once, cannot fill up, no  *)
(* record is evicted, and the cache answers as it should.  That bound is   *)
(* an assumption of the theorems here, not of the model.                   *)
(***************************************************************************)

CacheableQuestions == {q \in Questions : Cacheable(q)}

\* Every key fits in its array, and more records in the cache than there are
\* questions whose answers may be cached.
SmallWorkingSet ==
    /\ LongNames = {}
    /\ IsFiniteSet(CacheableQuestions)
    /\ Cardinality(CacheableQuestions) < CacheSize

\* Only answers to cacheable questions are listed.
ListedAreCacheable ==
    status = "up" => \A a \in ToSet(mru) : Cacheable(cell[a].question)

Answering ==
    /\ Accounting
    /\ IndexMatchesList
    /\ ListedAreCacheable
    /\ NeverUndefined
    /\ AnswersItsQuestion

-----------------------------------------------------------------------------
LEMMA IntervalSize ==
    ASSUME NEW n \in Nat
    PROVE  Cardinality(1..n) = n
BY FS_Interval

\* A sequence behind one more element.
LEMMA PrefixedSequence ==
    ASSUME NEW S, NEW t \in S, NEW n \in Seq(S)
    PROVE  /\ Len(<<t>> \o n) = Len(n) + 1
           /\ (<<t>> \o n)[1] = t
           /\ \A i \in 1..Len(n) : (<<t>> \o n)[i+1] = n[i]
           /\ Len(n) \in Nat
<1>1. <<t>> \in Seq(S) /\ Len(<<t>>) = 1 /\ <<t>>[1] = t
  OBVIOUS
<1>2. Len(n) \in Nat
  BY LenProperties
<1>3. /\ Len(<<t>> \o n) = Len(<<t>>) + Len(n)
      /\ \A i \in 1..(Len(<<t>>) + Len(n)) :
            (<<t>> \o n)[i] = IF i <= Len(<<t>>) THEN <<t>>[i] ELSE n[i - Len(<<t>>)]
  BY <1>1, ConcatProperties
<1>4. QED
  BY <1>1, <1>2, <1>3

\* sprintf into type_and_name: different questions have different trie keys.
LEMMA KeyInjective ==
    ASSUME NEW p \in Questions, NEW q \in Questions, Key(p) = Key(q)
    PROVE  p = q
<1>1. /\ p.qname \in Seq(STRING) /\ p.qtype \in STRING
      /\ q.qname \in Seq(STRING) /\ q.qtype \in STRING
  BY CacheAssumption DEF Questions
<1>3. ASSUME NEW t \in STRING, NEW n \in Seq(STRING)
      PROVE  /\ Len(<<t>> \o n) = Len(n) + 1
             /\ (<<t>> \o n)[1] = t
             /\ \A i \in 1..Len(n) : (<<t>> \o n)[i+1] = n[i]
             /\ Len(n) \in Nat
  BY PrefixedSequence
<1>4. /\ Len(p.qname) = Len(q.qname)
      /\ p.qtype = q.qtype
      /\ \A i \in 1..Len(p.qname) : p.qname[i] = q.qname[i]
  <2> DEFINE k == Key(p)
  <2>1. /\ Len(k) = Len(p.qname) + 1 /\ k[1] = p.qtype
        /\ \A i \in 1..Len(p.qname) : k[i+1] = p.qname[i]
    BY <1>1, <1>3 DEF Key
  <2>2. /\ Len(k) = Len(q.qname) + 1 /\ k[1] = q.qtype
        /\ \A i \in 1..Len(q.qname) : k[i+1] = q.qname[i]
    BY <1>1, <1>3 DEF Key
  <2> HIDE DEF k
  <2>3. Len(p.qname) \in Nat /\ Len(q.qname) \in Nat
    BY <1>1, <1>3
  <2>4. QED
    BY <2>1, <2>2, <2>3
<1>5. p.qname = q.qname
  BY <1>1, <1>4, SeqEqual
<1>6. QED
  BY <1>4, <1>5 DEF Questions

\* A cache whose trie and list agree holds a question once, so the list is no
\* longer than there are questions.
LEMMA HasRoom ==
    ASSUME SmallWorkingSet, Answering, status = "up"
    PROVE  cached < CacheSize
<1>1. /\ mru \in Seq(Addr) /\ IsInjective(mru) /\ cached = Len(mru)
      /\ \A a \in ToSet(mru) : /\ cell[a] \in Record
                               /\ Cacheable(cell[a].question)
                               /\ Lookup(cell[a].question) = a
  <2>1. /\ TypeOK /\ CountsItsCells /\ ListOwnsCells
        /\ IndexMatchesList /\ ListedAreCacheable
    BY DEF Answering, Accounting
  <2>2. ToSet(mru) \subseteq Addr
    BY <2>1, LenProperties, ElementOfSeq DEF TypeOK, ToSet
  <2>3. QED
    BY <2>1, <2>2
       DEF TypeOK, CountsItsCells, ListOwnsCells, IndexMatchesList, ListedAreCacheable
<1>2. DOMAIN mru = 1..Len(mru) /\ Len(mru) \in Nat
  BY <1>1, LenProperties
<1> DEFINE held == [i \in 1..Len(mru) |-> cell[mru[i]].question]
<1>3. \A i \in 1..Len(mru) : mru[i] \in ToSet(mru)
  BY <1>2 DEF ToSet
<1>4. held \in [1..Len(mru) -> CacheableQuestions]
  BY <1>1, <1>3 DEF CacheableQuestions, Record
<1>5. \A i, j \in 1..Len(mru) : held[i] = held[j] => i = j
  BY <1>1, <1>2, <1>3 DEF IsInjective
<1>6. held \in Injection(1..Len(mru), CacheableQuestions)
  BY <1>4, <1>5 DEF Injection, IsInjective
<1>7. Cardinality(1..Len(mru)) <= Cardinality(CacheableQuestions)
  BY <1>6, FS_Injection DEF SmallWorkingSet
<1>8. Cardinality(1..Len(mru)) = Len(mru)
  BY <1>2, IntervalSize, Zenon
<1>9. Cardinality(CacheableQuestions) \in Nat
  BY FS_CardinalityType DEF SmallWorkingSet
<1>10. QED
  BY <1>1, <1>2, <1>7, <1>8, <1>9, CacheAssumption DEF SmallWorkingSet

\* g_list_prepend and the trie entry that follows it: trie and list still agree
\* if what was released is what the question's entry led to.
LEMMA PrependIndex ==
    ASSUME Accounting, IndexMatchesList, ListedAreCacheable, status = "up",
           NEW record \in Record, Cacheable(record.question),
           NEW released \in SUBSET ToSet(mru),
           NEW remaining \in Seq(Addr), IsInjective(remaining),
           ToSet(remaining) = ToSet(mru) \ released,
           NEW index \in [TrieKeys -> Addr \cup {NULL}],
           \A k \in TrieKeys : k # Key(record.question) => index[k] = trie[k],
           \A a \in released : cell[a].question = record.question,
           Lookup(record.question) # NULL => Lookup(record.question) \in released,
           Prepend(record, released, remaining, index)
    PROVE  IndexMatchesList' /\ ListedAreCacheable'
<1> DEFINE rq == record.question
<1>1. /\ TypeOK /\ ListOwnsCells
      /\ rq \in Questions /\ Key(rq) \in TrieKeys
      /\ \A b \in Addr : cell[b] # NULL <=> b \in ToSet(mru)
      /\ \A b \in Addr : cell[b] # NULL => cell[b] \in Record
      /\ ToSet(mru) \subseteq Addr
      /\ trie \in [TrieKeys -> Addr \cup {NULL}]
  <2>1. TypeOK /\ ListOwnsCells /\ rq \in Questions
    BY DEF Accounting, Record
  <2>2. ToSet(mru) \subseteq Addr
    BY <2>1, LenProperties, ElementOfSeq DEF TypeOK, ToSet
  <2>3. QED
    BY <2>1, <2>2, KeyInTrie DEF TypeOK, ListOwnsCells
<1>2. PICK a \in {b \in Addr : cell[b] = NULL \/ b \in released} :
         /\ cell' = [b \in Addr |-> IF b = a THEN record
                                    ELSE IF b \in released THEN NULL ELSE cell[b]]
         /\ mru' = Cons(a, remaining)
         /\ trie' = [index EXCEPT ![Key(rq)] = a]
  BY Zenon DEF Prepend
<1>3. a \in Addr /\ a \notin ToSet(remaining) /\ a # NULL
  BY <1>1, <1>2, CacheAssumption
<1>4. ToSet(mru') = (ToSet(mru) \ released) \cup {a}
  BY <1>2, <1>3, ConsInjective
<1>5. /\ trie'[Key(rq)] = a
      /\ \A k \in TrieKeys : k # Key(rq) => trie'[k] = trie[k]
  BY <1>1, <1>2
<1>6. /\ cell'[a] = record
      /\ \A b \in ToSet(mru) \ released : cell'[b] = cell[b] /\ b # a
  BY <1>1, <1>2, <1>3
<1>7. /\ \A q \in Questions :
            Cacheable(q) /\ Lookup(q) # NULL =>
               Lookup(q) \in ToSet(mru) /\ cell[Lookup(q)].question = q
      /\ \A b \in ToSet(mru) : Lookup(cell[b].question) = b
      /\ \A b \in ToSet(mru) : Cacheable(cell[b].question)
      /\ \A b \in ToSet(mru) : cell[b].question \in Questions
  BY <1>1 DEF IndexMatchesList, ListedAreCacheable, Record
<1> HIDE DEF rq
<1>8. ASSUME NEW q \in Questions, Cacheable(q), trie'[Key(q)] # NULL
      PROVE  trie'[Key(q)] \in ToSet(mru') /\ cell'[trie'[Key(q)]].question = q
  <2>1. CASE q = rq
    BY <2>1, <1>4, <1>5, <1>6 DEF rq
  <2>2. CASE q # rq
    <3>1. Key(q) # Key(rq) /\ Key(q) \in TrieKeys
      BY <2>2, <1>1, <1>8, KeyInjective, KeyInTrie
    <3>2. trie'[Key(q)] = trie[Key(q)]
      BY <3>1, <1>5
    <3>3. trie[Key(q)] \in ToSet(mru) /\ cell[trie[Key(q)]].question = q
      BY <3>2, <1>7, <1>8 DEF Lookup
    <3>4. trie[Key(q)] \notin released
      BY <3>3, <2>2 DEF rq
    <3>5. QED
      BY <3>2, <3>3, <3>4, <1>4, <1>6
  <2>3. QED
    BY <2>1, <2>2
<1>9. ASSUME NEW b \in ToSet(mru')
      PROVE  trie'[Key(cell'[b].question)] = b /\ Cacheable(cell'[b].question)
  <2>1. CASE b = a
    BY <2>1, <1>5, <1>6 DEF rq
  <2>2. CASE b \in ToSet(mru) \ released
    <3> DEFINE q == cell[b].question
    <3>1. cell'[b] = cell[b]
      BY <2>2, <1>6
    <3>2. q \in Questions /\ Cacheable(q) /\ trie[Key(q)] = b
      BY <2>2, <1>7 DEF Lookup
    <3>3. b # NULL
      BY <2>2, <1>1, CacheAssumption
    <3> HIDE DEF q
    <3>4. q # rq
      BY <3>2, <3>3, <2>2 DEF Lookup, rq
    <3>5. Key(q) # Key(rq) /\ Key(q) \in TrieKeys
      BY <3>2, <3>4, <1>1, KeyInjective, KeyInTrie
    <3>6. QED
      BY <3>1, <3>2, <3>5, <1>5 DEF q
  <2>3. QED
    BY <2>1, <2>2, <1>4
<1>10. QED
  BY <1>8, <1>9 DEF IndexMatchesList, ListedAreCacheable, Lookup

LEMMA StoreIndex ==
    ASSUME Accounting, IndexMatchesList, ListedAreCacheable, status = "up",
           NEW record \in Record, Cacheable(record.question),
           InsertNew(record) \/ InsertReplace(record)
    PROVE  IndexMatchesList' /\ ListedAreCacheable'
<1>1. /\ TypeOK /\ ListOwnsCells
      /\ mru \in Seq(Addr) /\ IsInjective(mru)
      /\ trie \in [TrieKeys -> Addr \cup {NULL}]
      /\ record.question \in Questions
  BY DEF Accounting, TypeOK, ListOwnsCells, Record
<1>2. CASE InsertNew(record)
  BY <1>1, <1>2, PrependIndex DEF InsertNew
<1>3. CASE InsertReplace(record)
  <2> DEFINE old == Lookup(record.question)
             index == [trie EXCEPT ![Key(record.question)] = NULL]
             rest == RemoveFirst(mru, old)
  <2>1. /\ old # NULL /\ cell[old] # NULL
        /\ Prepend(record, {old}, rest, index)
    BY <1>3 DEF InsertReplace
  <2>2. old \in ToSet(mru) /\ cell[old].question = record.question
    BY <2>1, <1>1 DEF IndexMatchesList
  <2>3. /\ rest \in Seq(Addr) /\ IsInjective(rest)
        /\ ToSet(rest) = ToSet(mru) \ {old}
    BY <2>2, <1>1, Unlink
  <2>4. /\ index \in [TrieKeys -> Addr \cup {NULL}]
        /\ \A k \in TrieKeys : k # Key(record.question) => index[k] = trie[k]
    BY <1>1
  <2>5. Lookup(record.question) \in {old}
    OBVIOUS
  <2> HIDE DEF index, rest
  <2>6. \A a \in {old} : cell[a].question = record.question
    BY <2>2
  <2>7. {old} \in SUBSET ToSet(mru)
    BY <2>2
  <2> HIDE DEF old
  <2>8. QED
    BY <2>1, <2>3, <2>4, <2>5, <2>6, <2>7, PrependIndex
<1>4. QED
  BY <1>2, <1>3

LEMMA ExpireIndex ==
    ASSUME Accounting, IndexMatchesList, ListedAreCacheable,
           NEW q \in Questions, Expire(q)
    PROVE  IndexMatchesList' /\ ListedAreCacheable'
<1> DEFINE old == Lookup(q)
<1>1. /\ TypeOK /\ ListOwnsCells
      /\ status = "up" /\ Cacheable(q) /\ old # NULL
      /\ mru' = RemoveFirst(mru, old)
      /\ cell' = [cell EXCEPT ![old] = NULL]
      /\ trie' = [trie EXCEPT ![Key(q)] = NULL]
  BY DEF Accounting, Expire, Kept
<1>2. /\ \A p \in Questions :
            Cacheable(p) /\ trie[Key(p)] # NULL =>
               trie[Key(p)] \in ToSet(mru) /\ cell[trie[Key(p)]].question = p
      /\ \A b \in ToSet(mru) : trie[Key(cell[b].question)] = b
      /\ \A b \in ToSet(mru) : Cacheable(cell[b].question)
  BY <1>1 DEF IndexMatchesList, ListedAreCacheable, Lookup
<1>3. old \in ToSet(mru) /\ cell[old].question = q
  BY <1>1, <1>2 DEF Lookup
<1>4. ToSet(mru') = ToSet(mru) \ {old}
  BY <1>1, <1>3, Unlink
<1>5. /\ ToSet(mru) \subseteq Addr
      /\ \A b \in ToSet(mru) : cell[b].question \in Questions /\ b # NULL
  <2>1. ToSet(mru) \subseteq Addr
    BY <1>1, LenProperties, ElementOfSeq DEF TypeOK, ToSet
  <2>2. QED
    BY <2>1, <1>1, CacheAssumption DEF TypeOK, ListOwnsCells, Record
<1>6. \A b \in ToSet(mru) \ {old} : cell'[b] = cell[b]
  BY <1>1, <1>5 DEF TypeOK
<1>7. /\ trie'[Key(q)] = NULL
      /\ \A k \in TrieKeys : k # Key(q) => trie'[k] = trie[k]
  BY <1>1, KeyInTrie DEF TypeOK
<1> HIDE DEF old
<1>8. ASSUME NEW p \in Questions, Cacheable(p), trie'[Key(p)] # NULL
      PROVE  trie'[Key(p)] \in ToSet(mru') /\ cell'[trie'[Key(p)]].question = p
  <2>1. p # q
    BY <1>7, <1>8
  <2>2. trie'[Key(p)] = trie[Key(p)]
    BY <2>1, <1>7, <1>8, KeyInjective, KeyInTrie
  <2>3. QED
    BY <2>1, <2>2, <1>2, <1>3, <1>4, <1>6, <1>8
<1>9. ASSUME NEW b \in ToSet(mru')
      PROVE  trie'[Key(cell'[b].question)] = b /\ Cacheable(cell'[b].question)
  <2> DEFINE p == cell[b].question
  <2>1. b \in ToSet(mru) \ {old} /\ cell'[b] = cell[b]
    BY <1>4, <1>6
  <2>2. p \in Questions /\ Cacheable(p) /\ trie[Key(p)] = b
    BY <2>1, <1>2, <1>5
  <2>3. trie[Key(q)] = old
    BY DEF old, Lookup
  <2> HIDE DEF p
  <2>4. Key(p) # Key(q)
    BY <2>1, <2>2, <2>3
  <2>5. trie'[Key(p)] = b
    BY <2>2, <2>4, <1>7, KeyInTrie
  <2>6. QED
    BY <2>1, <2>2, <2>5 DEF p
<1>10. QED
  BY <1>8, <1>9 DEF IndexMatchesList, ListedAreCacheable, Lookup

LEMMA HitIndex ==
    ASSUME Accounting, IndexMatchesList, ListedAreCacheable,
           NEW q \in Questions, Hit(q)
    PROVE  /\ IndexMatchesList' /\ ListedAreCacheable'
           /\ cell[Lookup(q)].question = q
<1>1. /\ TypeOK /\ ListOwnsCells
      /\ status = "up" /\ Cacheable(q) /\ Lookup(q) # NULL
      /\ mru' = Cons(Lookup(q), RemoveFirst(mru, Lookup(q)))
      /\ cell' = cell /\ trie' = trie /\ status' = status
  BY DEF Accounting, Hit, Kept
<1>2. Lookup(q) \in ToSet(mru) /\ cell[Lookup(q)].question = q
  BY <1>1 DEF IndexMatchesList
<1>3. Lookup(q) \in Addr
  BY <1>1, KeyInTrie DEF Lookup, TypeOK
<1> DEFINE rest == RemoveFirst(mru, Lookup(q))
<1>4. /\ rest \in Seq(Addr) /\ IsInjective(rest)
      /\ ToSet(rest) = ToSet(mru) \ {Lookup(q)}
  BY <1>1, <1>2, Unlink
<1>5. mru' = Cons(Lookup(q), rest)
  BY <1>1
<1> HIDE DEF rest
<1>6. ToSet(mru') = ToSet(rest) \cup {Lookup(q)}
  BY <1>3, <1>4, <1>5, ConsInjective
<1>7. ToSet(mru') = ToSet(mru)
  BY <1>2, <1>4, <1>6
<1>8. QED
  BY <1>1, <1>2, <1>7 DEF IndexMatchesList, ListedAreCacheable, Lookup

-----------------------------------------------------------------------------
LEMMA AnsweringInit ==
    Init => Answering
<1> SUFFICES ASSUME Init PROVE Answering
  OBVIOUS
<1>1. Accounting
  BY AccountingInit
<1>2. ToSet(mru) = {}
  BY EmptySeq DEF Init, ToSet
<1>3. \A q \in Questions : Cacheable(q) => Lookup(q) = NULL
  BY KeyInTrie DEF Init, Lookup
<1>4. QED
  BY <1>1, <1>2, <1>3 DEF Answering, IndexMatchesList, ListedAreCacheable,
                          NeverUndefined, AnswersItsQuestion, Init, NoReturn

\* A call of match_cacherules or insert_cache, whatever it returns and whoever is
\* to use that.
LEMMA CallIndex ==
    ASSUME SmallWorkingSet, Answering,
           \/ \E q \in Questions : Hit(q) \/ Expire(q) \/ Miss(q) \/ MatchUndefined(q)
           \/ \E record \in Record : InsertIgnored(record) \/ InsertStored(record)
    PROVE  IndexMatchesList' /\ ListedAreCacheable' /\ NeverUndefined'
<1>0. /\ Accounting /\ IndexMatchesList /\ ListedAreCacheable /\ NeverUndefined
      /\ ListOwnsCells /\ TypeOK
  BY DEF Answering, Accounting
<1>1. ASSUME NEW q \in Questions, Hit(q)
      PROVE  IndexMatchesList' /\ ListedAreCacheable' /\ NeverUndefined'
  BY <1>0, <1>1, HitIndex DEF Hit, NeverUndefined
<1>2. ASSUME NEW q \in Questions, Expire(q)
      PROVE  IndexMatchesList' /\ ListedAreCacheable' /\ NeverUndefined'
  BY <1>0, <1>2, ExpireIndex DEF Expire, NeverUndefined
<1>3. ASSUME UNCHANGED <<cell, mru, trie, cached, status>>
      PROVE  IndexMatchesList' /\ ListedAreCacheable' /\ NeverUndefined'
  BY <1>0, <1>3 DEF IndexMatchesList, ListedAreCacheable, NeverUndefined, Lookup
<1>4. ASSUME NEW q \in Questions PROVE ~MatchUndefined(q)
  <2>1. SUFFICES ASSUME /\ status = "up" /\ Cacheable(q) /\ Lookup(q) # NULL
                        /\ cell[Lookup(q)] = NULL
                 PROVE  FALSE
    BY DEF MatchUndefined, Kept, SmallWorkingSet
  <2>2. Lookup(q) \in ToSet(mru) /\ Lookup(q) \in Addr
    BY <2>1, <1>0, KeyInTrie DEF IndexMatchesList, Lookup, TypeOK
  <2>3. QED
    BY <2>1, <2>2, <1>0 DEF ListOwnsCells
<1>5. ASSUME NEW record \in Record, InsertStored(record)
      PROVE  IndexMatchesList' /\ ListedAreCacheable' /\ NeverUndefined'
  <2>1. status = "up" /\ Cacheable(record.question) /\ record.question \in Questions
    BY <1>5 DEF InsertStored, Record
  <2>2. ~(cached >= CacheSize)
    BY <2>1, <1>0, HasRoom, CacheAssumption DEF TypeOK
  <2>3. CASE InsertNew(record) \/ InsertReplace(record)
    BY <2>1, <2>3, <1>0, StoreIndex DEF InsertNew, InsertReplace, NeverUndefined
  <2>4. ~InsertUndefined(record)
    <3>1. SUFFICES ASSUME /\ Lookup(record.question) # NULL
                          /\ cell[Lookup(record.question)] = NULL
                   PROVE  FALSE
      BY <2>1, <2>2 DEF InsertUndefined, Kept, SmallWorkingSet
    <3>2. Lookup(record.question) \in ToSet(mru) /\ Lookup(record.question) \in Addr
      BY <2>1, <3>1, <1>0, KeyInTrie DEF IndexMatchesList, Lookup, TypeOK
    <3>3. QED
      BY <2>1, <3>1, <3>2, <1>0 DEF ListOwnsCells
  <2>5. ~InsertEvict(record)
    BY <2>2 DEF InsertEvict
  <2>6. QED
    BY <1>5, <2>3, <2>4, <2>5 DEF InsertStored
<1>6. QED
  BY <1>1, <1>2, <1>3, <1>4, <1>5 DEF Miss, InsertIgnored

LEMMA AnsweringStep ==
    ASSUME SmallWorkingSet
    PROVE  Answering /\ [Next]_vars => Answering'
<1> SUFFICES ASSUME Answering, [Next]_vars PROVE Answering'
  OBVIOUS
<1>0. /\ Accounting /\ IndexMatchesList /\ ListedAreCacheable
      /\ NeverUndefined /\ AnswersItsQuestion
      /\ ListOwnsCells /\ TypeOK
  BY DEF Answering, Accounting
<1>a. Accounting'
  BY <1>0, AccountingStep
<1>1. ASSUME NEW q \in Questions, Match(q)
      PROVE  Answering'
  <2>1. Hit(q) \/ Expire(q) \/ Miss(q) \/ MatchUndefined(q)
    BY <1>1 DEF Match
  <2>2. IndexMatchesList' /\ ListedAreCacheable' /\ NeverUndefined'
    BY <2>1, CallIndex
  <2>3. Hit(q) => cell[Lookup(q)].question = q
    BY <1>0, HitIndex
  <2>4. AnswersItsQuestion'
    BY <1>1, <2>3 DEF Match, NoReturn, AnswersItsQuestion
  <2>5. QED
    BY <2>2, <2>4, <1>a DEF Answering
<1>2. ASSUME NEW record \in Answers, Insert(record)
      PROVE  Answering'
  <2>1. record \in Record /\ (InsertIgnored(record) \/ InsertStored(record))
    BY <1>2 DEF Insert, Answers
  <2>2. IndexMatchesList' /\ ListedAreCacheable' /\ NeverUndefined'
    BY <2>1, CallIndex
  <2>3. AnswersItsQuestion'
    BY <1>2 DEF Insert, NoReturn, AnswersItsQuestion
  <2>4. QED
    BY <2>2, <2>3, <1>a DEF Answering
<1>3. CASE FreeCache
  BY <1>3, <1>0, <1>a
     DEF FreeCache, Answering, IndexMatchesList, ListedAreCacheable,
         NeverUndefined, AnswersItsQuestion
<1>4. CASE Tick
  BY <1>4, <1>0, <1>a
     DEF Tick, Answering, IndexMatchesList, ListedAreCacheable, Lookup,
         NeverUndefined, AnswersItsQuestion
<1>5. CASE UNCHANGED vars
  BY <1>5, <1>0, <1>a
     DEF vars, Answering, IndexMatchesList, ListedAreCacheable, Lookup,
         NeverUndefined, AnswersItsQuestion
<1>6. QED
  BY <1>1, <1>2, <1>3, <1>4, <1>5 DEF Next

LEMMA AnsweringInvariant ==
    ASSUME SmallWorkingSet
    PROVE  Spec => []Answering
BY AnsweringInit, AnsweringStep, PTL DEF Spec

\* With room for every question, trie and list never disagree: every entry
\* leads to a listed record of its own question and every listed record is
\* the one its question leads to.
THEOREM IndexCorrect ==
    ASSUME SmallWorkingSet
    PROVE  Spec => []IndexMatchesList
BY AnsweringInvariant, PTL DEF Answering

\* With room for every question, no call of match_cacherules or insert_cache
\* reads a released record.
THEOREM NoUndefinedBehaviour ==
    ASSUME SmallWorkingSet
    PROVE  Spec => []NeverUndefined
BY AnsweringInvariant, PTL DEF Answering

\* With room for every question, a lookup that succeeds returns a record of the
\* question it was given.
THEOREM AnswersCorrect ==
    ASSUME SmallWorkingSet
    PROVE  Spec => []AnswersItsQuestion
BY AnsweringInvariant, PTL DEF Answering

-----------------------------------------------------------------------------
(***************************************************************************)
(* The refinement of LruCache, for a cache of any size: the store is what  *)
(* the cells of the list hold, in the order of the list, and a question is *)
(* lost when the trie does not lead to the one cell with its record.       *)
(***************************************************************************)
Records(s, c) == [i \in DOMAIN s |-> c[s[i]]]

\* The cells of s hold members of R in c; what they hold in d, the one at p excepted.
Hold(s, c, R) == \A i \in 1..Len(s) : c[s[i]] \in R

SameBut(s, p, c, d) == \A i \in 1..Len(s) : i # p => d[s[i]] = c[s[i]]

\* LruCache takes its sequence operators from a copy of the library's.
LEMMA SameOperators ==
    /\ \A s, i : Lru!RemoveAt(s, i) = RemoveAt(s, i)
    /\ \A x, s : Lru!Cons(x, s) = Cons(x, s)
BY DEF Lru!RemoveAt, RemoveAt, Lru!Cons, Cons

LEMMA RecordsSequence ==
    ASSUME NEW s \in Seq(Addr), NEW c, Hold(s, c, Record)
    PROVE  /\ Records(s, c) \in Seq(Record) /\ Len(Records(s, c)) = Len(s)
           /\ Len(s) \in Nat /\ DOMAIN Records(s, c) = 1..Len(s)
           /\ \A i \in 1..Len(s) : Records(s, c)[i] = c[s[i]]
<1>1. Len(s) \in Nat /\ DOMAIN s = 1..Len(s)
  BY LenProperties
<1>2. Records(s, c) = [i \in 1..Len(s) |-> c[s[i]]]
  BY <1>1 DEF Records
<1> QED
  BY <1>1, <1>2 DEF Hold

\* A cell taken out of the list is its record taken out of the store.
LEMMA RecordsRemoved ==
    ASSUME NEW s \in Seq(Addr), NEW p \in 1..Len(s), NEW c, NEW d,
           Hold(s, c, Record), SameBut(s, p, c, d)
    PROVE  /\ Records(RemoveAt(s, p), d) = RemoveAt(Records(s, c), p)
           /\ Hold(RemoveAt(s, p), d, Record)
<1> DEFINE t == RemoveAt(s, p)
           u == Records(s, c)
           v == RemoveAt(u, p)
<1>1. /\ u \in Seq(Record) /\ Len(u) = Len(s) /\ Len(s) \in Nat
      /\ \A i \in 1..Len(s) : u[i] = c[s[i]]
  BY RecordsSequence
<1>3. /\ t \in Seq(Addr) /\ Len(t) = Len(s) - 1
      /\ \A i \in 1..(Len(s) - 1) : t[i] = IF i < p THEN s[i] ELSE s[i+1]
  BY RemoveAtLists, Zenon
<1> HIDE DEF u
<1>0. p \in 1..Len(u)
  BY <1>1
<1>4. /\ v \in Seq(Record) /\ Len(v) = Len(s) - 1
      /\ \A i \in 1..(Len(s) - 1) : v[i] = IF i < p THEN u[i] ELSE u[i+1]
  <2>1. /\ v \in Seq(Record) /\ Len(v) = Len(u) - 1
        /\ \A i \in 1..(Len(u) - 1) : v[i] = IF i < p THEN u[i] ELSE u[i+1]
    BY <1>0, <1>1, RemoveAtLists, Zenon
  <2> QED
    BY <1>1, <2>1
<1> HIDE DEF t, v
<1>5. ASSUME NEW i \in 1..Len(t)
      PROVE  d[t[i]] = v[i] /\ d[t[i]] \in Record
  <2>1. CASE i < p
    <3>1. t[i] = s[i] /\ v[i] = c[s[i]] /\ i \in 1..Len(s) /\ i # p
      BY <1>1, <1>3, <1>4, <2>1
    <3> QED
      BY <3>1 DEF Hold, SameBut
  <2>2. CASE ~(i < p)
    <3>1. t[i] = s[i+1] /\ v[i] = c[s[i+1]] /\ i + 1 \in 1..Len(s) /\ i + 1 # p
      BY <1>1, <1>3, <1>4, <2>2
    <3> QED
      BY <3>1 DEF Hold, SameBut
  <2> QED
    BY <2>1, <2>2
<1>6. Hold(t, d, Record)
  BY <1>5 DEF Hold
<1>7. Records(t, d) = v
  <2> DEFINE w == Records(t, d)
  <2>1. w \in Seq(Record) /\ Len(w) = Len(t) /\ \A i \in 1..Len(t) : w[i] = d[t[i]]
    BY <1>3, <1>6, RecordsSequence
  <2> HIDE DEF w
  <2>2. Len(w) = Len(v) /\ \A i \in 1..Len(w) : w[i] = v[i]
    BY <1>3, <1>4, <1>5, <2>1
  <2>3. w = v
    BY <1>4, <2>1, <2>2, SeqEqual, Zenon
  <2> QED
    BY <2>3 DEF w
<1> QED
  BY <1>6, <1>7 DEF t, u, v

\* A cell put in front of the list is its record in front of the store.
LEMMA RecordsPrepended ==
    ASSUME NEW s \in Seq(Addr), IsInjective(s), NEW a \in Addr, a \notin ToSet(s),
           NEW d, d[a] \in Record, Hold(s, d, Record)
    PROVE  Records(Cons(a, s), d) = Cons(d[a], Records(s, d))
<1> DEFINE t == Cons(a, s)
           u == Records(s, d)
           v == Cons(d[a], u)
<1>1. /\ u \in Seq(Record) /\ Len(u) = Len(s) /\ Len(s) \in Nat
      /\ \A i \in 1..Len(s) : u[i] = d[s[i]]
  BY RecordsSequence
<1>2. /\ t \in Seq(Addr) /\ Len(t) = Len(s) + 1
      /\ \A i \in 1..(Len(s) + 1) : t[i] = IF i = 1 THEN a ELSE s[i-1]
  BY ConsInjective
<1> HIDE DEF t, u
<1>3. /\ v \in Seq(Record) /\ Len(v) = Len(s) + 1 /\ v[1] = d[a]
      /\ \A i \in 1..Len(s) : v[i+1] = u[i]
  <2>1. <<d[a]>> \in Seq(Record)
    OBVIOUS
  <2>2. v \in Seq(Record)
    BY <1>1, <2>1, ConcatProperties DEF Cons
  <2> QED
    BY <1>1, <2>2, PrefixedSequence DEF Cons
<1> HIDE DEF v
<1>4. ASSUME NEW i \in 1..Len(t)
      PROVE  d[t[i]] = v[i] /\ d[t[i]] \in Record
  <2>1. CASE i = 1
    BY <1>1, <1>2, <1>3, <2>1 DEF Hold
  <2>2. CASE i # 1
    <3>1. i - 1 \in 1..Len(s) /\ t[i] = s[i-1] /\ (i - 1) + 1 = i
      BY <1>1, <1>2, <2>2
    <3>2. v[i] = u[i-1]
      BY <1>3, <3>1
    <3> QED
      BY <1>1, <3>1, <3>2 DEF Hold
  <2> QED
    BY <2>1, <2>2
<1>5. /\ Records(t, d) \in Seq(Record) /\ Len(Records(t, d)) = Len(t)
      /\ \A i \in 1..Len(t) : Records(t, d)[i] = d[t[i]]
  <2>1. t \in Seq(Addr) /\ Hold(t, d, Record)
    BY <1>2, <1>4 DEF Hold
  <2> QED
    BY <2>1, RecordsSequence
<1>6. Records(t, d) = v
  <2> DEFINE w == Records(t, d)
  <2>1. w \in Seq(Record) /\ Len(w) = Len(v) /\ \A i \in 1..Len(w) : w[i] = v[i]
    BY <1>2, <1>3, <1>4, <1>5
  <2> QED
    BY <1>3, <2>1, SeqEqual, Zenon
<1> QED
  BY <1>6 DEF t, u, v

\* What LruCache calls store, lost and At(q), and the places a call may reach.
Store == IF status = "freed" THEN <<>> ELSE Records(mru, cell)

Lost == IF status = "freed" THEN {} ELSE {q \in Questions : Astray(q)}

HeldAt(q) == {i \in DOMAIN Store : Store[i].question = q}

Reach(q) ==
    IF q \in Lost THEN {0} \cup DOMAIN Store
    ELSE IF Kept(q) /\ HeldAt(q) # {} THEN HeldAt(q) ELSE {0}

LEMMA ReadingSteps ==
    ASSUME NEW q
    PROVE  /\ /\ Kept(q) /\ UNCHANGED now /\ Lost' = Lost
              /\ \E i \in Reach(q) \ {0} :
                    /\ ~TimedOut(Store[i], now)
                    /\ Store' = Cons(Store[i], RemoveAt(Store, i))
                    /\ ret' = [question |-> q, record |-> Store[i]]
              => Lru!Found(q)
           /\ /\ UNCHANGED now /\ ret' = [question |-> q, record |-> NULL]
              /\ \/ 0 \in Reach(q) /\ Store' = Store /\ Lost' = Lost
                 \/ \E i \in Reach(q) \ {0} :
                       /\ TimedOut(Store[i], now) /\ Store' = RemoveAt(Store, i)
                       /\ Lost' \subseteq Lost \cup ({Store[i].question} \ {q})
              => Lru!NotFound(q)
           /\ /\ ~Kept(q) \/ q \in Lost \/ CacheSize <= 0
              /\ ret' = NoReturn /\ Store' = Store /\ Lost' = Lost /\ UNCHANGED now
              => Lru!Ignore(q)
<1>0. /\ Lru!Places(q) = Reach(q)
      /\ Lru!At(q) = HeldAt(q)
  BY DEF Store, Lost, HeldAt, Reach, Records, Lru!Places, Lru!At
<1>1. /\ Kept(q) /\ UNCHANGED now /\ Lost' = Lost
      /\ \E i \in Reach(q) \ {0} :
            /\ ~TimedOut(Store[i], now)
            /\ Store' = Cons(Store[i], RemoveAt(Store, i))
            /\ ret' = [question |-> q, record |-> Store[i]]
      => Lru!Found(q)
  BY <1>0, Zenon DEF Store, Lost, Records, Cons, RemoveAt, Lru!Found, Lru!Cons, Lru!RemoveAt
<1>2. /\ UNCHANGED now /\ ret' = [question |-> q, record |-> NULL]
      /\ \/ 0 \in Reach(q) /\ Store' = Store /\ Lost' = Lost
         \/ \E i \in Reach(q) \ {0} :
               /\ TimedOut(Store[i], now) /\ Store' = RemoveAt(Store, i)
               /\ Lost' \subseteq Lost \cup ({Store[i].question} \ {q})
      => Lru!NotFound(q)
  <2>1. ASSUME UNCHANGED now, ret' = [question |-> q, record |-> NULL],
               0 \in Reach(q), Store' = Store, Lost' = Lost
        PROVE  Lru!NotFound(q)
    BY <1>0, <2>1 DEF Store, Lost, Records, Lru!NotFound, Lru!Remaining, Lru!LostWith
  <2>2. ASSUME UNCHANGED now, ret' = [question |-> q, record |-> NULL],
               NEW i \in Reach(q) \ {0},
               TimedOut(Store[i], now), Store' = RemoveAt(Store, i),
               Lost' \subseteq Lost \cup ({Store[i].question} \ {q})
        PROVE  Lru!NotFound(q)
    BY <1>0, <2>2 DEF Store, Lost, Records, RemoveAt, Lru!NotFound, Lru!Remaining,
                      Lru!LostWith, Lru!RemoveAt
  <2> QED
    BY <2>1, <2>2, Zenon
<1>3. /\ ~Kept(q) \/ q \in Lost \/ CacheSize <= 0
      /\ ret' = NoReturn /\ Store' = Store /\ Lost' = Lost /\ UNCHANGED now
      => Lru!Ignore(q)
  BY DEF Store, Lost, Records, NoReturn, Lru!Ignore
<1> QED
  BY <1>1, <1>2, <1>3, Zenon

LEMMA PutSteps ==
    ASSUME NEW q, NEW record, Kept(q), record.question = q, UNCHANGED now, ret' = NoReturn
    PROVE  /\ /\ Len(Store) < CacheSize
              /\ \/ /\ 0 \in Reach(q) /\ Store' = Cons(record, Store)
                    /\ Lost' \subseteq Lost
                 \/ \E i \in Reach(q) \ {0} :
                       /\ Store' = Cons(record, RemoveAt(Store, i))
                       /\ Lost' \subseteq Lost \cup ({Store[i].question} \ {q})
              => Lru!Put(q, record)
           /\ /\ Len(Store) >= CacheSize /\ Store # <<>>
              /\ Store' = Cons(record, Front(Store))
              /\ Lost' \subseteq Lost \cup {Last(Store).question}
                                 \cup Clashes(Last(Store).question)
                                 \cup (IF HeldAt(q) = {} THEN {} ELSE {q})
              => Lru!Put(q, record)
<1>0. /\ Lru!Places(q) = Reach(q)
      /\ Lru!At(q) = HeldAt(q)
  BY DEF Store, Lost, HeldAt, Reach, Records, Lru!Places, Lru!At
<1>1. ASSUME Len(Store) < CacheSize, 0 \in Reach(q), Store' = Cons(record, Store),
             Lost' \subseteq Lost
      PROVE  Lru!Put(q, record)
  BY <1>0, <1>1 DEF Store, Lost, Records, NoReturn, Cons, Lru!Put, Lru!Replace,
                    Lru!Remaining, Lru!LostWith, Lru!Cons
<1>2. ASSUME Len(Store) < CacheSize, NEW i \in Reach(q) \ {0},
             Store' = Cons(record, RemoveAt(Store, i)),
             Lost' \subseteq Lost \cup ({Store[i].question} \ {q})
      PROVE  Lru!Put(q, record)
  BY <1>0, <1>2 DEF Store, Lost, Records, NoReturn, Cons, RemoveAt, Lru!Put, Lru!Replace,
                    Lru!Remaining, Lru!LostWith, Lru!Cons, Lru!RemoveAt
<1>3. ASSUME Len(Store) >= CacheSize, Store # <<>>, Store' = Cons(record, Front(Store)),
             Lost' \subseteq Lost \cup {Last(Store).question}
                             \cup Clashes(Last(Store).question)
                             \cup (IF HeldAt(q) = {} THEN {} ELSE {q})
      PROVE  Lru!Put(q, record)
  BY <1>0, <1>3, Zenon DEF Store, Lost, Records, NoReturn, Cons, Front, Last,
                    Lru!Put, Lru!Evict, Lru!Cons, Lru!Front, Lru!Last
<1> QED
  BY <1>1, <1>2, <1>3, Zenon

LEMMA OtherSteps ==
    /\ now' = now + 1 /\ Store' = Store /\ Lost' = Lost /\ UNCHANGED ret => Lru!Pass
    /\ Store' = <<>> /\ Lost' = {} /\ UNCHANGED <<now, ret>> => Lru!Close
    /\ Store' = Store /\ Lost' = Lost /\ UNCHANGED <<now, ret>> => UNCHANGED Lru!lruVars
<1>1. now' = now + 1 /\ Store' = Store /\ Lost' = Lost /\ UNCHANGED ret => Lru!Pass
  BY DEF Store, Lost, Records, Lru!Pass
<1>2. Store' = <<>> /\ Lost' = {} /\ UNCHANGED <<now, ret>> => Lru!Close
  BY DEF Store, Lost, Records, Lru!Close
<1>3. Store' = Store /\ Lost' = Lost /\ UNCHANGED <<now, ret>> => UNCHANGED Lru!lruVars
  BY DEF Store, Lost, Records, Lru!lruVars
<1> QED
  BY <1>1, <1>2, <1>3, Zenon

-----------------------------------------------------------------------------
\* While the cache is up the store has the records of the list's cells.
LEMMA StoreFacts ==
    ASSUME Accounting, status = "up"
    PROVE  /\ mru \in Seq(Addr) /\ IsInjective(mru) /\ Len(mru) \in Nat
           /\ DOMAIN mru = 1..Len(mru) /\ ToSet(mru) = {mru[i] : i \in 1..Len(mru)}
           /\ ToSet(mru) \subseteq Addr /\ NULL \notin Addr
           /\ \A i \in 1..Len(mru) : mru[i] \in ToSet(mru)
           /\ \A a \in ToSet(mru) : cell[a] \in Record
           /\ Hold(mru, cell, Record)
           /\ Store = Records(mru, cell) /\ DOMAIN Store = 1..Len(mru)
           /\ Len(Store) = Len(mru) /\ Len(mru) = cached /\ CacheSize \in Int
           /\ \A i \in 1..Len(mru) : Store[i] = cell[mru[i]]
           /\ Lost = {q \in Questions : Astray(q)}
<1>1. TypeOK /\ ListOwnsCells /\ CountsItsCells
  BY DEF Accounting
<1>2. /\ mru \in Seq(Addr) /\ IsInjective(mru) /\ Len(mru) \in Nat
      /\ DOMAIN mru = 1..Len(mru) /\ ToSet(mru) = {mru[i] : i \in 1..Len(mru)}
  BY <1>1, LenProperties DEF TypeOK, ListOwnsCells, ToSet
<1>3. /\ ToSet(mru) \subseteq Addr /\ NULL \notin Addr
      /\ \A i \in 1..Len(mru) : mru[i] \in ToSet(mru)
  BY <1>2, ElementOfSeq, CacheAssumption
<1>4. \A a \in ToSet(mru) : cell[a] \in Record
  BY <1>1, <1>3 DEF TypeOK, ListOwnsCells
<1>5. Hold(mru, cell, Record)
  BY <1>3, <1>4 DEF Hold
<1>6. Store = Records(mru, cell)
  BY DEF Store
<1>7. /\ DOMAIN Store = 1..Len(mru) /\ Len(Store) = Len(mru)
      /\ \A i \in 1..Len(mru) : Store[i] = cell[mru[i]]
  BY <1>2, <1>5, <1>6, RecordsSequence
<1>8. Len(mru) = cached /\ CacheSize \in Int
  BY <1>1, CacheAssumption DEF CountsItsCells
<1>9. Lost = {q \in Questions : Astray(q)}
  BY DEF Lost
<1> QED
  BY <1>2, <1>3, <1>4, <1>5, <1>6, <1>7, <1>8, <1>9

\* The cells that hold a record of q; those of a question that is not lost are what
\* the trie leads to from it.
CellsOf(q) == {a \in ToSet(mru) : cell[a].question = q}

LEMMA NotLost ==
    ASSUME Accounting, status = "up", NEW q \in Questions, Kept(q), q \notin Lost
    PROVE  CellsOf(q) = {Lookup(q)} \ {NULL}
BY StoreFacts DEF Astray, CellsOf

\* The place in the list of the cell that the trie leads to from q is one that a
\* call for q may reach.
LEMMA PlaceOf ==
    ASSUME Accounting, status = "up", NEW q \in Questions, Kept(q),
           Lookup(q) # NULL, cell[Lookup(q)] # NULL
    PROVE  /\ Lookup(q) \in ToSet(mru)
           /\ \E p \in 1..Len(mru) :
                 /\ mru[p] = Lookup(q) /\ Store[p] = cell[Lookup(q)]
                 /\ p \in Reach(q) \ {0}
                 /\ RemoveFirst(mru, Lookup(q)) = RemoveAt(mru, p)
                 /\ \A i \in 1..Len(mru) : i # p => mru[i] # Lookup(q)
<1>1. Lookup(q) \in ToSet(mru)
  BY LookupListed DEF Kept, Accounting
<1>2. PICK p \in 1..Len(mru) :
          mru[p] = Lookup(q) /\ RemoveFirst(mru, Lookup(q)) = RemoveAt(mru, p)
  BY <1>1, StoreFacts, RemoveFirstInjective
<1>3. \A i \in 1..Len(mru) : i # p => mru[i] # Lookup(q)
  BY <1>2, StoreFacts DEF IsInjective
<1>4. Store[p] = cell[Lookup(q)] /\ p \in DOMAIN Store /\ p # 0
  BY <1>2, StoreFacts
<1>5. CASE q \in Lost
  BY <1>1, <1>2, <1>3, <1>4, <1>5 DEF Reach
<1>6. CASE q \notin Lost
  <2>1. Lookup(q) \in CellsOf(q)
    BY <1>6, NotLost
  <2>2. p \in HeldAt(q)
    BY <1>4, <2>1 DEF HeldAt, CellsOf
  <2> QED
    BY <1>1, <1>2, <1>3, <1>4, <1>6, <2>2 DEF Reach
<1> QED
  BY <1>5, <1>6

\* Without an entry for q a call may reach no place.
LEMMA NoPlace ==
    ASSUME Accounting, status = "up", NEW q \in Questions, Kept(q) => Lookup(q) = NULL
    PROVE  0 \in Reach(q)
<1>1. CASE q \in Lost \/ ~Kept(q)
  BY <1>1 DEF Reach
<1>2. CASE q \notin Lost /\ Kept(q)
  <2>1. CellsOf(q) = {}
    BY <1>2, NotLost
  <2>2. HeldAt(q) = {}
    BY <2>1, StoreFacts DEF HeldAt, CellsOf
  <2> QED
    BY <1>2, <2>2 DEF Reach
<1> QED
  BY <1>1, <1>2

\* A question whose cells and whose entry stay the same does not get lost.
LEMMA StaysFound ==
    ASSUME Accounting, status = "up", NEW q \in Questions, q \notin Lost,
           Kept(q) => /\ {a \in ToSet(mru') : cell'[a].question = q} = CellsOf(q)
                      /\ trie'[Key(q)] = trie[Key(q)]
    PROVE  q \notin Lost'
BY StoreFacts DEF Lost, Astray, CellsOf, Lookup

-----------------------------------------------------------------------------
LEMMA HitFinds ==
    ASSUME Accounting, NEW q \in Questions, Hit(q), UNCHANGED now,
           ret' = [question |-> q, record |-> cell[Lookup(q)]]
    PROVE  Lru!Found(q)
<1> DEFINE a == Lookup(q)
<1>1. /\ status = "up" /\ status' = "up" /\ Kept(q) /\ a # NULL /\ cell[a] # NULL
      /\ ~TimedOut(cell[a], now)
      /\ mru' = Cons(a, RemoveFirst(mru, a)) /\ cell' = cell /\ trie' = trie
  BY DEF Hit
<1>2. PICK p \in 1..Len(mru) :
          /\ mru[p] = a /\ Store[p] = cell[a] /\ p \in Reach(q) \ {0}
          /\ RemoveFirst(mru, a) = RemoveAt(mru, p)
  BY <1>1, PlaceOf
<1>3. a \in ToSet(mru) /\ a \in Addr /\ cell[a] \in Record
  BY <1>1, StoreFacts, PlaceOf
<1> DEFINE t == RemoveAt(mru, p)
<1>4. /\ t \in Seq(Addr) /\ IsInjective(t) /\ ToSet(t) = ToSet(mru) \ {a}
  BY <1>1, <1>2, StoreFacts, RemoveAtInjective
<1>5. Records(t, cell) = RemoveAt(Store, p) /\ Hold(t, cell, Record)
  <2>1. SameBut(mru, p, cell, cell)
    BY DEF SameBut
  <2>2. mru \in Seq(Addr) /\ Hold(mru, cell, Record) /\ Store = Records(mru, cell)
    BY <1>1, StoreFacts
  <2> QED
    BY <2>1, <2>2, RecordsRemoved
<1> HIDE DEF t, a
<1>6. Records(Cons(a, t), cell) = Cons(cell[a], Records(t, cell))
  BY <1>3, <1>4, <1>5, RecordsPrepended
<1>7. Store' = Records(mru', cell')
  BY <1>1 DEF Store, Records
<1>8. Store' = Cons(Store[p], RemoveAt(Store, p))
  BY <1>1, <1>2, <1>5, <1>6, <1>7 DEF t
<1>9. ToSet(mru') = ToSet(mru)
  <2>1. mru' = Cons(a, t)
    BY <1>1, <1>2 DEF t
  <2>2. ToSet(mru') = ToSet(t) \cup {a}
    BY <1>3, <1>4, <2>1, ConsInjective
  <2> QED
    BY <1>3, <1>4, <2>2
<1>10. Lost' = Lost
  BY <1>1, <1>9 DEF Lost, Astray, Lookup
<1>11. ret' = [question |-> q, record |-> Store[p]] /\ ~TimedOut(Store[p], now)
  BY <1>1, <1>2 DEF a
<1> QED
  BY <1>1, <1>2, <1>8, <1>10, <1>11, ReadingSteps, Zenon

LEMMA ExpireFindsNothing ==
    ASSUME Accounting, NEW q \in Questions, Expire(q), UNCHANGED now,
           ret' = [question |-> q, record |-> NULL]
    PROVE  Lru!NotFound(q)
<1> DEFINE a == Lookup(q)
<1>1. /\ status = "up" /\ status' = "up" /\ Kept(q) /\ a # NULL /\ cell[a] # NULL
      /\ TimedOut(cell[a], now)
      /\ mru' = RemoveFirst(mru, a) /\ cell' = [cell EXCEPT ![a] = NULL]
      /\ trie' = [trie EXCEPT ![Key(q)] = NULL]
  BY DEF Expire
<1>2. PICK p \in 1..Len(mru) :
          /\ mru[p] = a /\ Store[p] = cell[a] /\ p \in Reach(q) \ {0}
          /\ RemoveFirst(mru, a) = RemoveAt(mru, p)
          /\ \A i \in 1..Len(mru) : i # p => mru[i] # a
  BY <1>1, PlaceOf
<1>3. /\ cell \in [Addr -> Record \cup {NULL}] /\ mru \in Seq(Addr)
      /\ trie \in [TrieKeys -> Addr \cup {NULL}] /\ Cacheable(q)
  BY <1>1 DEF Accounting, TypeOK, Kept
<1>0. a = trie[Key(q)]
  BY DEF Lookup
<1> HIDE DEF a
<1>4. SameBut(mru, p, cell, cell')
  BY <1>1, <1>2, <1>3, ElementOfSeq DEF SameBut
<1>5. Records(RemoveAt(mru, p), cell') = RemoveAt(Store, p)
  <2>1. Hold(mru, cell, Record) /\ Store = Records(mru, cell)
    BY <1>1, StoreFacts
  <2> QED
    BY <1>3, <1>4, <2>1, RecordsRemoved
<1>6. Store' = Records(mru', cell')
  BY <1>1 DEF Store, Records
<1>7. Store' = RemoveAt(Store, p)
  BY <1>1, <1>2, <1>5, <1>6
<1>8. ToSet(mru') = ToSet(mru) \ {a}
  BY <1>1, <1>2, StoreFacts, RemoveAtInjective
<1>9. ASSUME NEW x \in Questions, x \notin Lost, x # Store[p].question \/ x = q
      PROVE  x \notin Lost'
  <2>1. SUFFICES ASSUME Kept(x) PROVE x \notin Lost'
    BY <1>1 DEF Lost, Astray
  <2>2. CASE x = q
    <3>1. CellsOf(q) = {a}
      BY <1>1, <1>9, <2>2, NotLost DEF a
    <3>2. {b \in ToSet(mru') : cell'[b].question = q} = {}
      BY <1>1, <1>3, <1>8, <3>1, StoreFacts DEF CellsOf
    <3>3. trie'[Key(q)] = NULL
      BY <1>1, <1>3, KeyInTrie
    <3> QED
      BY <1>1, <2>2, <3>2, <3>3 DEF Lost, Astray, Lookup
  <2>3. CASE x # q
    <3>1. x # cell[a].question
      BY <1>2, <1>9, <2>3
    <3>2. {b \in ToSet(mru') : cell'[b].question = x} = CellsOf(x)
      BY <1>1, <1>3, <1>8, <3>1, StoreFacts DEF CellsOf
    <3>3. trie'[Key(x)] = trie[Key(x)]
      BY <1>1, <1>3, <2>1, <2>3, KeyInTrie, KeyInjective DEF Kept
    <3> QED
      BY <1>1, <1>9, <3>2, <3>3, StaysFound
  <2> QED
    BY <2>2, <2>3
<1>10. Lost' \subseteq Lost \cup ({Store[p].question} \ {q})
  BY <1>1, <1>9 DEF Lost
<1> QED
  BY <1>1, <1>2, <1>7, <1>10, ReadingSteps, Zenon

LEMMA MatchImplements ==
    ASSUME Accounting, NEW q \in Questions, Match(q)
    PROVE  Lru!Found(q) \/ Lru!NotFound(q) \/ Lru!Ignore(q)
<1>1. UNCHANGED now
  BY DEF Match
<1>2. CASE Hit(q) /\ ret' = [question |-> q, record |-> cell[Lookup(q)]]
  BY <1>1, <1>2, HitFinds
<1>3. CASE Expire(q) /\ ret' = [question |-> q, record |-> NULL]
  BY <1>1, <1>3, ExpireFindsNothing
<1>4. CASE Miss(q) /\ ret' = [question |-> q, record |-> NULL]
  <2>1. 0 \in Reach(q)
    BY <1>4, NoPlace DEF Miss, Kept
  <2>2. Store' = Store /\ Lost' = Lost
    BY <1>4 DEF Miss, Store, Lost, Astray, Records, Lookup
  <2> QED
    BY <1>1, <1>4, <2>1, <2>2, ReadingSteps, Zenon
<1>5. CASE MatchUndefined(q) /\ ret' = NoReturn
  <2>1. /\ status = "up"
        /\ Kept(q) => Lookup(q) # NULL /\ cell[Lookup(q)] = NULL
        /\ Store' = Store /\ Lost' = Lost
    BY <1>5 DEF MatchUndefined, Undefined, Store, Lost, Astray, Records, Lookup
  <2>2. ~Kept(q) \/ q \in Lost
    <3>1. SUFFICES ASSUME Kept(q), q \notin Lost PROVE FALSE
      OBVIOUS
    <3>2. Lookup(q) \in ToSet(mru)
      BY <2>1, <3>1, NotLost DEF CellsOf
    <3> QED
      BY <2>1, <3>1, <3>2, StoreFacts, CacheAssumption
  <2> QED
    BY <1>1, <1>5, <2>1, <2>2, ReadingSteps, Zenon
<1> QED
  BY <1>2, <1>3, <1>4, <1>5 DEF Match

\* g_list_prepend of a record once the cells in released are off the list: what the
\* store becomes, and which questions cannot get lost.
LEMMA PrependPuts ==
    ASSUME Accounting, status = "up", status' = "up", NEW record \in Record,
           Kept(record.question),
           NEW released \in SUBSET ToSet(mru),
           NEW rest \in Seq(Addr), IsInjective(rest),
           ToSet(rest) = ToSet(mru) \ released,
           NEW index \in [TrieKeys -> Addr \cup {NULL}],
           Prepend(record, released, rest, index)
    PROVE  /\ \A b \in ToSet(rest) : cell'[b] = cell[b]
           /\ Hold(rest, cell', Record) => Store' = Cons(record, Records(rest, cell'))
           /\ \A x \in Questions :
                 /\ x \notin Lost
                 /\ x = record.question => CellsOf(x) \subseteq released
                 /\ x # record.question /\ Kept(x) =>
                       /\ index[Key(x)] = trie[Key(x)]
                       /\ \A b \in released : cell[b].question # x
                 => x \notin Lost'
<1> DEFINE q == record.question
<1>1. PICK a \in {b \in Addr : cell[b] = NULL \/ b \in released} :
         /\ cell' = [b \in Addr |-> IF b = a THEN record
                                    ELSE IF b \in released THEN NULL ELSE cell[b]]
         /\ mru' = Cons(a, rest)
         /\ trie' = [index EXCEPT ![Key(q)] = a]
  BY Zenon DEF Prepend
<1>2. /\ q \in Questions /\ Cacheable(q) /\ Key(q) \in TrieKeys
      /\ \A b \in Addr : cell[b] # NULL <=> b \in ToSet(mru)
  BY KeyInTrie DEF Record, Kept, Accounting, ListOwnsCells
<1>3. a \in Addr /\ a \notin ToSet(rest) /\ cell'[a] = record /\ a # NULL
  BY <1>1, <1>2, CacheAssumption
<1>4. \A b \in ToSet(rest) : cell'[b] = cell[b]
  BY <1>1, <1>3, StoreFacts
<1>5. ToSet(mru') = ToSet(rest) \cup {a}
  BY <1>1, <1>3, ConsInjective
<1>6. ASSUME Hold(rest, cell', Record)
      PROVE  Store' = Cons(record, Records(rest, cell'))
  <2>1. Records(Cons(a, rest), cell') = Cons(cell'[a], Records(rest, cell'))
    BY <1>3, <1>6, RecordsPrepended
  <2>2. Store' = Records(mru', cell')
    BY DEF Store, Records
  <2> QED
    BY <1>1, <1>3, <2>1, <2>2
<1>7. trie'[Key(q)] = a /\ \A k \in TrieKeys : k # Key(q) => trie'[k] = index[k]
  BY <1>1, <1>2
<1>8. ASSUME NEW x \in Questions, x \notin Lost,
             x = q => CellsOf(x) \subseteq released,
             x # q /\ Kept(x) => /\ index[Key(x)] = trie[Key(x)]
                                 /\ \A b \in released : cell[b].question # x
      PROVE  x \notin Lost'
  <2>1. SUFFICES ASSUME Kept(x) PROVE x \notin Lost'
    BY DEF Lost, Astray
  <2>2. CASE x = q
    <3>1. {b \in ToSet(mru') : cell'[b].question = q} = {a}
      BY <1>3, <1>4, <1>5, <1>8, <2>2 DEF CellsOf
    <3> QED
      BY <1>3, <1>7, <2>2, <3>1 DEF Lost, Astray, Lookup
  <2>3. CASE x # q
    <3>1. {b \in ToSet(mru') : cell'[b].question = x} = CellsOf(x)
      BY <1>3, <1>4, <1>5, <1>8, <2>1, <2>3 DEF CellsOf
    <3>2. trie'[Key(x)] = trie[Key(x)]
      BY <1>2, <1>7, <1>8, <2>1, <2>3, KeyInTrie, KeyInjective DEF Kept
    <3> QED
      BY <1>8, <3>1, <3>2, StaysFound
  <2> QED
    BY <2>2, <2>3
<1> QED
  BY <1>4, <1>6, <1>8

LEMMA InsertNewPuts ==
    ASSUME Accounting, status = "up", NEW record \in Record,
           Kept(record.question), InsertNew(record), UNCHANGED now, ret' = NoReturn
    PROVE  Lru!Put(record.question, record)
<1> DEFINE q == record.question
<1>1. /\ Lookup(q) = NULL /\ Prepend(record, {}, mru, trie) /\ status' = "up"
      /\ q \in Questions /\ cached < CacheSize /\ trie \in [TrieKeys -> Addr \cup {NULL}]
  BY DEF InsertNew, Record, Accounting, TypeOK
<1>2. /\ mru \in Seq(Addr) /\ IsInjective(mru) /\ Hold(mru, cell, Record)
      /\ Store = Records(mru, cell) /\ Len(Store) = cached /\ DOMAIN mru = 1..Len(mru)
      /\ \A i \in 1..Len(mru) : mru[i] \in ToSet(mru)
  BY StoreFacts
<1>3. /\ \A b \in ToSet(mru) : cell'[b] = cell[b]
      /\ Hold(mru, cell', Record) => Store' = Cons(record, Records(mru, cell'))
      /\ \A x \in Questions :
            /\ x \notin Lost
            /\ x = q => CellsOf(x) = {}
            => x \notin Lost'
  <2> DEFINE none == {}
             index == trie
  <2>1. none \in SUBSET ToSet(mru) /\ ToSet(mru) = ToSet(mru) \ none
    OBVIOUS
  <2>2. Prepend(record, none, mru, index) /\ index \in [TrieKeys -> Addr \cup {NULL}]
    BY <1>1
  <2> HIDE DEF none, index
  <2>3. /\ \A b \in ToSet(mru) : cell'[b] = cell[b]
        /\ Hold(mru, cell', Record) => Store' = Cons(record, Records(mru, cell'))
        /\ \A x \in Questions :
              /\ x \notin Lost
              /\ x = q => CellsOf(x) \subseteq none
              /\ x # q /\ Kept(x) => /\ index[Key(x)] = trie[Key(x)]
                                     /\ \A b \in none : cell[b].question # x
              => x \notin Lost'
    BY <1>1, <1>2, <2>1, <2>2, PrependPuts
  <2> QED
    BY <2>3 DEF none, index
<1>4. Records(mru, cell') = Store /\ Hold(mru, cell', Record)
  BY <1>2, <1>3 DEF Records, Hold
<1>5. Store' = Cons(record, Store)
  BY <1>3, <1>4
<1>6. q \notin Lost => CellsOf(q) = {}
  BY <1>1, NotLost
<1>7. \A x \in Questions : x \notin Lost => x \notin Lost'
  BY <1>3, <1>6
<1>8. Lost' \subseteq Lost
  BY <1>7 DEF Lost
<1>9. 0 \in Reach(q)
  BY <1>1, NoPlace
<1>10. Len(Store) < CacheSize
  BY <1>1, <1>2
<1> QED
  BY <1>5, <1>8, <1>9, <1>10, PutSteps, Zenon

LEMMA InsertReplacePuts ==
    ASSUME Accounting, status = "up", NEW record \in Record,
           Kept(record.question), InsertReplace(record), UNCHANGED now, ret' = NoReturn
    PROVE  Lru!Put(record.question, record)
<1> DEFINE q == record.question
           old == Lookup(q)
           index == [trie EXCEPT ![Key(q)] = NULL]
<1>1. /\ old # NULL /\ cell[old] # NULL /\ status' = "up" /\ q \in Questions
      /\ Prepend(record, {old}, RemoveFirst(mru, old), index)
      /\ cached < CacheSize /\ trie \in [TrieKeys -> Addr \cup {NULL}]
  BY DEF InsertReplace, Record, Accounting, TypeOK
<1>2. PICK p \in 1..Len(mru) :
          /\ mru[p] = old /\ Store[p] = cell[old] /\ p \in Reach(q) \ {0}
          /\ RemoveFirst(mru, old) = RemoveAt(mru, p)
          /\ \A i \in 1..Len(mru) : i # p => mru[i] # old
  BY <1>1, PlaceOf
<1>3. old \in ToSet(mru) /\ Cacheable(q)
  BY <1>1, PlaceOf DEF Kept
<1>4. /\ index \in [TrieKeys -> Addr \cup {NULL}]
      /\ \A x \in Questions : x # q /\ Kept(x) => index[Key(x)] = trie[Key(x)]
  BY <1>1, <1>3, KeyInTrie, KeyInjective DEF Kept
<1>5. q \notin Lost => CellsOf(q) = {old}
  BY <1>1, NotLost
<1> HIDE DEF old, index
<1> DEFINE t == RemoveAt(mru, p)
<1>6. /\ mru \in Seq(Addr) /\ IsInjective(mru) /\ Hold(mru, cell, Record)
      /\ Store = Records(mru, cell) /\ Len(Store) = cached
      /\ Len(mru) = cached /\ CacheSize \in Int /\ Len(mru) \in Nat
      /\ \A i \in 1..Len(mru) : mru[i] \in ToSet(mru)
  BY StoreFacts
<1>7. t \in Seq(Addr) /\ IsInjective(t) /\ ToSet(t) = ToSet(mru) \ {old}
  BY <1>2, <1>6, RemoveAtInjective
<1>8. RemoveFirst(mru, old) = t /\ {old} \in SUBSET ToSet(mru)
  BY <1>2, <1>3
<1> HIDE DEF t
<1>9. /\ \A b \in ToSet(t) : cell'[b] = cell[b]
      /\ Hold(t, cell', Record) => Store' = Cons(record, Records(t, cell'))
      /\ \A x \in Questions :
            /\ x \notin Lost
            /\ x = q => CellsOf(x) \subseteq {old}
            /\ x # q /\ Kept(x) => /\ index[Key(x)] = trie[Key(x)]
                                   /\ \A b \in {old} : cell[b].question # x
            => x \notin Lost'
  BY <1>1, <1>4, <1>7, <1>8, PrependPuts
<1>10. SameBut(mru, p, cell, cell')
  BY <1>2, <1>6, <1>7, <1>9 DEF SameBut
<1>11. Records(t, cell') = RemoveAt(Store, p) /\ Hold(t, cell', Record)
  BY <1>6, <1>10, RecordsRemoved DEF t
<1>12. Store' = Cons(record, RemoveAt(Store, p))
  BY <1>9, <1>11
<1>13. \A x \in Questions : x \notin Lost /\ (x = q \/ x # Store[p].question) => x \notin Lost'
  BY <1>2, <1>4, <1>5, <1>9
<1>14. Lost' \subseteq Lost \cup ({Store[p].question} \ {q})
  BY <1>13 DEF Lost
<1>15. Len(Store) < CacheSize
  BY <1>1, <1>6
<1> QED
  BY <1>2, <1>12, <1>14, <1>15, PutSteps, Zenon

\* What goes is the last record of the store.
LEMMA InsertEvictPuts ==
    ASSUME Accounting, status = "up", NEW record \in Record,
           Kept(record.question), InsertEvict(record), UNCHANGED now, ret' = NoReturn
    PROVE  Lru!Put(record.question, record)
<1> DEFINE q == record.question
           lru == Last(mru)
           gone == cell[lru].question
           index == [trie EXCEPT ![gone.qname] = NULL]
           p == Len(mru)
<1>1. /\ mru # <<>> /\ status' = "up" /\ q \in Questions
      /\ Prepend(record, {lru}, Front(mru), index)
      /\ cached >= CacheSize /\ trie \in [TrieKeys -> Addr \cup {NULL}]
  BY DEF InsertEvict, Record, Accounting, TypeOK
<1>2. /\ mru \in Seq(Addr) /\ IsInjective(mru) /\ Hold(mru, cell, Record)
      /\ Store = Records(mru, cell) /\ Len(Store) = cached
      /\ Len(Store) = Len(mru) /\ CacheSize \in Int /\ Len(mru) \in Nat
      /\ DOMAIN Store = 1..Len(mru)
      /\ \A i \in 1..Len(mru) : mru[i] \in ToSet(mru)
      /\ \A i \in 1..Len(mru) : Store[i] = cell[mru[i]]
  BY StoreFacts
<1>3. /\ p \in 1..Len(mru) /\ lru = mru[p] /\ lru \in ToSet(mru)
      /\ Front(mru) = RemoveAt(mru, p)
  BY <1>1, <1>2, FrontIsRemoveLast
<1>4. Store \in Seq(Record) /\ Store # <<>>
  BY <1>2, <1>3, RecordsSequence
<1>5. Front(Store) = RemoveAt(Store, p) /\ Last(Store).question = gone
  BY <1>2, <1>3, <1>4, FrontIsRemoveLast
<1>6. /\ index \in [TrieKeys -> Addr \cup {NULL}]
      /\ \A x \in Questions : Kept(x) /\ x \notin Clashes(gone) =>
            index[Key(x)] = trie[Key(x)]
  BY <1>1, KeyInTrie DEF Clashes, Kept
<1>7. {lru} \in SUBSET ToSet(mru)
  BY <1>3
<1> HIDE DEF index, lru
<1> DEFINE t == RemoveAt(mru, p)
<1>8. t \in Seq(Addr) /\ IsInjective(t) /\ ToSet(t) = ToSet(mru) \ {lru}
  BY <1>2, <1>3, RemoveAtInjective
<1>9. Front(mru) = t
  BY <1>3
<1> HIDE DEF t
<1>10. /\ \A b \in ToSet(t) : cell'[b] = cell[b]
       /\ Hold(t, cell', Record) => Store' = Cons(record, Records(t, cell'))
       /\ \A x \in Questions :
             /\ x \notin Lost
             /\ x = q => CellsOf(x) \subseteq {lru}
             /\ x # q /\ Kept(x) => /\ index[Key(x)] = trie[Key(x)]
                                    /\ \A b \in {lru} : cell[b].question # x
             => x \notin Lost'
  BY <1>1, <1>6, <1>7, <1>8, <1>9, PrependPuts
<1>11. SameBut(mru, p, cell, cell')
  <2>1. DOMAIN mru = 1..Len(mru)
    BY StoreFacts
  <2>2. \A i \in 1..Len(mru) : i # p => mru[i] # lru
    BY <1>2, <1>3, <2>1 DEF IsInjective
  <2> QED
    BY <1>2, <1>8, <1>10, <2>2 DEF SameBut
<1>12. Records(t, cell') = RemoveAt(Store, p) /\ Hold(t, cell', Record)
  BY <1>2, <1>3, <1>11, RecordsRemoved DEF t
<1>13. Store' = Cons(record, Front(Store))
  BY <1>5, <1>10, <1>12
<1>14. HeldAt(q) = {} => CellsOf(q) = {}
  <2>1. ToSet(mru) = {mru[i] : i \in 1..Len(mru)}
    BY StoreFacts
  <2> QED
    BY <1>2, <2>1 DEF HeldAt, CellsOf
<1> HIDE DEF gone
<1>15. \A x \in Questions :
           /\ x \notin Lost /\ x # gone /\ x \notin Clashes(gone)
           /\ x = q => HeldAt(q) = {}
           => x \notin Lost'
  BY <1>6, <1>10, <1>14 DEF gone
<1>16. Lost' \subseteq Lost \cup {gone} \cup Clashes(gone)
                       \cup (IF HeldAt(q) = {} THEN {} ELSE {q})
  BY <1>15 DEF Lost
<1>17. Len(Store) >= CacheSize
  BY <1>1, <1>2
<1> QED
  BY <1>4, <1>5, <1>13, <1>16, <1>17, PutSteps, Zenon

LEMMA InsertImplements ==
    ASSUME Accounting, NEW record \in Record, Insert(record)
    PROVE  Lru!Ignore(record.question) \/ Lru!Put(record.question, record)
<1> DEFINE q == record.question
<1>1. UNCHANGED now /\ ret' = NoReturn /\ q \in Questions
  BY DEF Insert, Record
<1>2. CASE InsertIgnored(record)
  <2>1. Store' = Store /\ Lost' = Lost /\ ~Kept(q)
    BY <1>2 DEF InsertIgnored, Store, Lost, Astray, Records, Lookup, Kept
  <2> QED
    BY <1>1, <2>1, ReadingSteps, Zenon
<1>3. CASE InsertStored(record)
  <2>1. status = "up"
    BY <1>3 DEF InsertStored
  <2>2. CASE Kept(q) /\ InsertNew(record)
    BY <1>1, <2>1, <2>2, InsertNewPuts
  <2>3. CASE Kept(q) /\ InsertReplace(record)
    BY <1>1, <2>1, <2>3, InsertReplacePuts
  <2>4. CASE Kept(q) /\ InsertEvict(record)
    BY <1>1, <2>1, <2>4, InsertEvictPuts
  <2>5. CASE InsertUndefined(record)
    <3>1. Store' = Store /\ Lost' = Lost
      BY <2>1, <2>5 DEF InsertUndefined, Undefined, Store, Lost, Astray, Records, Lookup
    <3>2. ~Kept(q) \/ q \in Lost \/ CacheSize <= 0
      <4>1. SUFFICES ASSUME Kept(q), q \notin Lost PROVE CacheSize <= 0
        OBVIOUS
      <4>2. CASE Lookup(q) # NULL /\ cell[Lookup(q)] = NULL
        <5>1. Lookup(q) \in ToSet(mru)
          BY <1>1, <2>1, <4>1, <4>2, NotLost DEF CellsOf
        <5> QED
          BY <2>1, <4>2, <5>1, StoreFacts, CacheAssumption
      <4>3. CASE cached >= CacheSize /\ mru = <<>>
        BY <2>1, <4>3, StoreFacts
      <4> QED
        BY <2>5, <4>1, <4>2, <4>3 DEF InsertUndefined
    <3> QED
      BY <1>1, <3>1, <3>2, ReadingSteps, Zenon
  <2> QED
    BY <1>3, <2>2, <2>3, <2>4, <2>5 DEF InsertStored
<1> QED
  BY <1>2, <1>3 DEF Insert

LEMMA LruInitially == Init => Lru!LruInit
<1> SUFFICES ASSUME Init PROVE Lru!LruInit
  OBVIOUS
<1>1. mru = <<>> /\ DOMAIN mru = {} /\ ToSet(mru) = {}
  BY EmptySeq DEF Init, ToSet
<1>2. \A q \in Questions : ~Astray(q)
  BY <1>1, KeyInTrie DEF Init, Astray, Kept, Lookup
<1> QED
  BY <1>1, <1>2 DEF Init, NoReturn, Lru!LruInit

LEMMA LruStep ==
    ASSUME Accounting, [Next]_vars
    PROVE  [Lru!LruNext]_(Lru!lruVars)
<1>1. ASSUME NEW q \in Questions, Match(q)
      PROVE  Lru!LruNext
  <2>1. Lru!Found(q) \/ Lru!NotFound(q) \/ Lru!Ignore(q)
    BY <1>1, MatchImplements
  <2> QED
    BY <2>1, Zenon DEF Lru!LruNext
<1>2. ASSUME NEW record \in Answers, Insert(record)
      PROVE  Lru!LruNext
  <2>1. record \in Record /\ record.question \in Questions
    BY DEF Answers, Record
  <2>2. Lru!Ignore(record.question) \/ Lru!Put(record.question, record)
    BY <1>2, <2>1, InsertImplements
  <2> QED
    BY <2>1, <2>2, Zenon DEF Lru!LruNext
<1>3. CASE FreeCache
  <2>1. Store' = <<>> /\ Lost' = {} /\ UNCHANGED <<now, ret>>
    BY <1>3 DEF FreeCache, Store, Lost
  <2>2. Lru!Close
    BY <2>1, OtherSteps, Zenon
  <2> QED
    BY <2>2, Zenon DEF Lru!LruNext
<1>4. CASE Tick
  <2>1. now' = now + 1 /\ Store' = Store /\ Lost' = Lost /\ UNCHANGED ret
    BY <1>4 DEF Tick, Store, Lost, Astray, Records, Lookup
  <2>2. Lru!Pass
    BY <2>1, OtherSteps, Zenon
  <2> QED
    BY <2>2, Zenon DEF Lru!LruNext
<1>5. CASE UNCHANGED vars
  <2>1. Store' = Store /\ Lost' = Lost /\ UNCHANGED <<now, ret>>
    BY <1>5 DEF vars, Store, Lost, Astray, Records, Lookup
  <2> QED
    BY <2>1, OtherSteps, Zenon
<1> QED
  BY <1>1, <1>2, <1>3, <1>4, <1>5 DEF Next

\* The list, the trie and the counter of cache.c implement the bounded store of
\* LruCache whatever cache_size is and however often the cache is full: it holds at
\* most that many records, what goes is the least recently used, and a lookup
\* returns the record that was put last for its question, or drops it once it
\* timed out, until an eviction loses the question.
THEOREM CacheImplementsLru ==
    Spec => ImplementsLru
<1>1. Init => Lru!LruInit
  BY LruInitially
<1>2. Accounting /\ [Next]_vars => [Lru!LruNext]_(Lru!lruVars)
  BY LruStep
<1>3. Spec => []Accounting
  BY AccountingInvariant
<1> QED
  BY <1>1, <1>2, <1>3, PTL DEF Spec, ImplementsLru, Lru!LruSpec
=============================================================================
