-------------------------------- MODULE Trie --------------------------------
(***************************************************************************)
(* The trie of src/trie.c.  A node is known by the word that leads to it   *)
(* from the root, the root by the empty word: nodes are the words of the   *)
(* nodes there are, leaves those whose is_leaf is set, data what a leaf    *)
(* leads to.  Nodes are only ever added; insert_trie with NULL leaves the  *)
(* leaf behind, without data.                                              *)
(***************************************************************************)
EXTENDS Integers, Sequences, FiniteSets

CONSTANTS
    Letter,     \* the characters of words
    Data,       \* what words lead to
    NoData      \* NULL

Words == Seq(Letter)

\* The nodes on the way to w, the root and its own included.
Path(w) == {SubSeq(w, 1, k) : k \in 0 .. Len(w)}

EmptyTrie == [nodes |-> {<<>>}, leaves |-> {}, data |-> [w \in {} |-> NoData]]

\* Mutant of InsertTrie: a node that is there already is left as it is.
InsertNode(t, w, d) ==
    IF w \in t.nodes THEN t
    ELSE [nodes |-> t.nodes \cup Path(w),
          leaves |-> t.leaves \cup {w},
          data |-> [v \in t.leaves \cup {w} |-> IF v = w THEN d ELSE t.data[v]]]

\* insert_trie
InsertTrie(t, w, d) ==
    [nodes |-> t.nodes \cup Path(w),
     leaves |-> t.leaves \cup {w},
     data |-> [v \in t.leaves \cup {w} |-> IF v = w THEN d ELSE t.data[v]]]

\* search_trie: child by child, and the last must be a leaf.
SearchTrie(t, w) == IF Path(w) \subseteq t.nodes /\ w \in t.leaves THEN t.data[w] ELSE NoData

\* What make_trienode and any insertions build: each leaf is a node, and a node's
\* parent is one.
IsTrie(t) ==
    /\ t = [nodes |-> t.nodes, leaves |-> t.leaves, data |-> t.data]
    /\ t.leaves \subseteq t.nodes /\ t.nodes \subseteq Words
    /\ t.data \in [t.leaves -> Data \cup {NoData}]
    /\ <<>> \in t.nodes
    /\ \A w \in t.nodes : Path(w) \subseteq t.nodes
=============================================================================
