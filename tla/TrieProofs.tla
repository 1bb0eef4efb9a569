----------------------------- MODULE TrieProofs -----------------------------
(***************************************************************************)
(* The trie of Trie is a map from words to data, whatever the words: what  *)
(* one insertion does to every later search.                               *)
(***************************************************************************)
EXTENDS Trie, TLAPS

\* A prefix of a prefix of a word is a prefix of the word, and a word is one of itself.
LEMMA PathOfWord ==
    ASSUME NEW w \in Words
    PROVE  /\ w \in Path(w) /\ <<>> \in Path(w)
           /\ Path(w) \subseteq Words
           /\ \A v \in Path(w) : Path(v) \subseteq Path(w)
<1>1. SubSeq(w, 1, Len(w)) = w /\ SubSeq(w, 1, 0) = <<>>
  BY DEF Words
<1>2. \A k \in 0 .. Len(w) :
          /\ SubSeq(w, 1, k) \in Words
          /\ Len(SubSeq(w, 1, k)) = k
          /\ \A i \in 1 .. k : SubSeq(w, 1, k)[i] = w[i]
  BY DEF Words
<1>3. ASSUME NEW k \in 0 .. Len(w), NEW j \in 0 .. k
      PROVE  SubSeq(SubSeq(w, 1, k), 1, j) = SubSeq(w, 1, j)
  BY <1>2 DEF Words
<1>4. Len(w) \in Nat /\ Len(w) \in 0 .. Len(w) /\ 0 \in 0 .. Len(w)
  BY DEF Words
<1>5. ASSUME NEW v \in Path(w) PROVE Path(v) \subseteq Path(w)
  <2>1. PICK k \in 0 .. Len(w) : v = SubSeq(w, 1, k)
    BY DEF Path
  <2>2. Len(v) = k
    BY <2>1, <1>2
  <2>3. SUFFICES ASSUME NEW j \in 0 .. k PROVE SubSeq(v, 1, j) \in Path(w)
    BY <2>2 DEF Path
  <2>4. SubSeq(v, 1, j) = SubSeq(w, 1, j)
    BY <2>1, <1>3
  <2>5. j \in 0 .. Len(w)
    BY <1>4
  <2> QED  BY <2>4, <2>5 DEF Path
<1> QED  BY <1>1, <1>2, <1>4, <1>5 DEF Path

\* make_trienode makes a trie.
THEOREM EmptyIsTrie == IsTrie(EmptyTrie)
<1>1. <<>> \in Words
  BY DEF Words
<1>2. Path(<<>>) = {<<>>}
  <2>1. Len(<<>>) = 0 /\ SubSeq(<<>>, 1, 0) = <<>>
    OBVIOUS
  <2>2. 0 .. Len(<<>>) = {0}
    BY <2>1
  <2> QED  BY <2>1, <2>2, Zenon DEF Path
<1> QED  BY <1>1, <1>2 DEF IsTrie, EmptyTrie

\* insert_trie keeps the shape of a trie: no node is cut off from the root, and each
\* leaf has its data.
THEOREM InsertKeepsShape ==
    ASSUME NEW t, IsTrie(t), NEW w \in Words, NEW d \in Data \cup {NoData}
    PROVE  IsTrie(InsertTrie(t, w, d))
<1> DEFINE u == InsertTrie(t, w, d)
<1>1. /\ u.nodes = t.nodes \cup Path(w)
      /\ u.leaves = t.leaves \cup {w}
      /\ u.data = [v \in t.leaves \cup {w} |-> IF v = w THEN d ELSE t.data[v]]
      /\ u = [nodes |-> u.nodes, leaves |-> u.leaves, data |-> u.data]
  BY DEF InsertTrie
<1>2. u.leaves \subseteq u.nodes /\ u.nodes \subseteq Words /\ <<>> \in u.nodes
  BY <1>1, PathOfWord DEF IsTrie
<1>3. u.data \in [u.leaves -> Data \cup {NoData}]
  <2>1. \A v \in t.leaves : t.data[v] \in Data \cup {NoData}
    BY DEF IsTrie
  <2> QED  BY <1>1, <2>1
<1>4. ASSUME NEW v \in u.nodes PROVE Path(v) \subseteq u.nodes
  <2>1. CASE v \in t.nodes
    BY <1>1, <2>1 DEF IsTrie
  <2>2. CASE v \in Path(w)
    BY <1>1, <2>2, PathOfWord
  <2> QED  BY <1>1, <2>1, <2>2
<1> HIDE DEF u
<1>5. IsTrie(u)
  BY <1>1, <1>2, <1>3, <1>4 DEF IsTrie
<1> QED  BY <1>5 DEF u

\* A search behind an insertion finds what was inserted for the word, and for any other
\* word, a prefix or an extension of it included, what it found before.
THEOREM SearchAfterInsert ==
    ASSUME NEW t, IsTrie(t), NEW w \in Words, NEW d \in Data \cup {NoData}, NEW v
    PROVE  SearchTrie(InsertTrie(t, w, d), v) = IF v = w THEN d ELSE SearchTrie(t, v)
<1> DEFINE u == InsertTrie(t, w, d)
<1>1. /\ u.nodes = t.nodes \cup Path(w)
      /\ u.leaves = t.leaves \cup {w}
      /\ u.data = [x \in t.leaves \cup {w} |-> IF x = w THEN d ELSE t.data[x]]
  BY DEF InsertTrie
<1>2. CASE v = w
  <2>1. Path(v) \subseteq u.nodes /\ v \in u.leaves /\ u.data[v] = d
    BY <1>1, <1>2
  <2> QED  BY <1>2, <2>1 DEF SearchTrie
<1>3. CASE v # w /\ v \in t.leaves
  <2>1. Path(v) \subseteq t.nodes
    BY <1>3 DEF IsTrie
  <2>2. Path(v) \subseteq u.nodes /\ v \in u.leaves /\ u.data[v] = t.data[v]
    BY <1>1, <1>3, <2>1
  <2> QED  BY <1>3, <2>1, <2>2 DEF SearchTrie
<1>4. CASE v # w /\ v \notin t.leaves
  <2>1. v \notin u.leaves
    BY <1>1, <1>4
  <2> QED  BY <1>4, <2>1 DEF SearchTrie
<1> QED  BY <1>2, <1>3, <1>4
=============================================================================
