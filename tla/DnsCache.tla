------------------------------ MODULE DnsCache ------------------------------
(***************************************************************************)
(* The answer cache of src/cache.c: a list of records, most recently used  *)
(* first, indexed by a trie from typed names to list cells, and a counter. *)
(*                                                                         *)
(* Every function of the cache runs under cache_mutex from its first line  *)
(* to its last, so a call is one step; what interleaves is the calls.      *)
(*                                                                         *)
(* Memory is modelled because the code's correctness rests on it.  A cell  *)
(* (GList node and the DnsAnswer it owns, always allocated and released    *)
(* together) has an address.  Releasing a cell makes its address free, and *)
(* g_list_prepend may then return any free address, the one just released  *)
(* included.  Reading a free cell, or the NULL cell, is undefined          *)
(* behaviour: the step sets status to "undefined" and nothing more is said *)
(* about the run.                                                          *)
(*                                                                         *)
(* A name is a sequence of tokens.  The trie key of a question is its name *)
(* behind one more token, which stands for the five characters that        *)
(* sprintf puts there ("0000A", "0AAAA", "CNAME", "000MX"): a name may     *)
(* itself begin with such a token.  The characters of a long name do not   *)
(* fit behind the five in the 256 of the array, which sprintf then         *)
(* overflows: undefined behaviour too.                                     *)
(***************************************************************************)
EXTENDS Integers, Sequences, FiniteSets, SequencesExt

CONSTANTS
    Names,      \* the domain names asked for, as sequences of tokens
    LongNames,  \* those of more than 250 characters, no longer than a name may be
    QTypes,     \* the query types clients use
    Bodies,     \* what the answer and authority buffers of a record may hold
    TTLs,       \* the times to live of the answers received
    CacheSize,  \* server_config.cache_size
    Addr,       \* the addresses at which a cell may be allocated
    MaxTime,    \* bound on the clock
    NULL

VARIABLES
    now,        \* time(NULL)
    cell,       \* the record in the cell at each address, NULL if it is free
    mru,        \* cache.cache_mru_first, as the sequence of its cells' addresses
    trie,       \* cache.root, as the map from keys to cells (or NULL)
    cached,     \* cache.cached
    status,     \* "up", "freed" after free_cache, "undefined" (see above)
    ret         \* the value the last call returned, with its question

vars == <<now, cell, mru, trie, cached, status, ret>>

-----------------------------------------------------------------------------
\* The types for which cache.c has a key prefix.
CacheableTypes == {"A", "AAAA", "CNAME", "MX"}

Questions == [qname : Names, qtype : QTypes]

Cacheable(q) == q.qtype \in CacheableTypes

\* The key of the question fits in type_and_name.
Kept(q) == Cacheable(q) /\ q.qname \notin LongNames

\* Mutant of Key: the type is left out.
KeyWithoutType(q) == q.qname

\* type_and_name
Key(q) == <<q.qtype>> \o q.qname

TrieKeys == {Key(q) : q \in {p \in Questions : Cacheable(p)}} \cup Names

\* struct DnsAnswer: question is the one the buffers answer (its name is the
\* field qname; the struct does not keep the type).
Record == [question : Questions, body : Bodies, ttl : TTLs, cached_time : 0..MaxTime]

TimedOut(record, time) == record.cached_time + record.ttl <= time

NoReturn == [question |-> NULL, record |-> NULL]

ASSUME CacheAssumption ==
    /\ Names \subseteq Seq(STRING)
    /\ LongNames \subseteq Names
    /\ QTypes \subseteq STRING
    /\ TTLs \subseteq Nat
    /\ CacheSize \in Int
    /\ MaxTime \in Nat
    /\ NULL \notin Addr
    /\ NULL \notin Record

-----------------------------------------------------------------------------
Init ==
    /\ now = 0
    /\ cell = [a \in Addr |-> NULL]
    /\ mru = <<>>
    /\ trie = [k \in TrieKeys |-> NULL]
    /\ cached = 0
    /\ status = "up"
    /\ ret = NoReturn

\* search_trie(cache.root, type_and_name) for a question of a cacheable type
Lookup(q) == trie[Key(q)]

Undefined ==
    /\ status' = "undefined"
    /\ UNCHANGED <<cell, mru, trie, cached>>

-----------------------------------------------------------------------------
\* match_cacherules, by outcome

\* Mutant of Hit: the cell stays where it is in the list.
HitInPlace(q) ==
    /\ status = "up" /\ Kept(q)
    /\ Lookup(q) # NULL
    /\ cell[Lookup(q)] # NULL
    /\ ~TimedOut(cell[Lookup(q)], now)
    /\ UNCHANGED <<cell, mru, trie, cached, status>>

\* Unexpired: the cell moves to the front of the list.
Hit(q) ==
    /\ status = "up" /\ Kept(q)
    /\ Lookup(q) # NULL
    /\ cell[Lookup(q)] # NULL
    /\ ~TimedOut(cell[Lookup(q)], now)
    /\ mru' = Cons(Lookup(q), RemoveFirst(mru, Lookup(q)))
    /\ UNCHANGED <<cell, trie, cached, status>>

\* Mutants of Expire: the counter is not decremented, the trie entry is not cleared,
\* the cell is released but not unlinked.
ExpireInto(q, count, index, list) ==
    /\ status = "up" /\ Kept(q)
    /\ Lookup(q) # NULL
    /\ cell[Lookup(q)] # NULL
    /\ TimedOut(cell[Lookup(q)], now)
    /\ cell' = [cell EXCEPT ![Lookup(q)] = NULL]
    /\ cached' = count /\ trie' = index /\ mru' = list
    /\ UNCHANGED status

ExpireUncounted(q) ==
    ExpireInto(q, cached, [trie EXCEPT ![Key(q)] = NULL], RemoveFirst(mru, Lookup(q)))

ExpireKeepsEntry(q) == ExpireInto(q, cached - 1, trie, RemoveFirst(mru, Lookup(q)))

ExpireKeepsLink(q) == ExpireInto(q, cached - 1, [trie EXCEPT ![Key(q)] = NULL], mru)

\* Timed out: the record leaves the cache and the lookup fails.
Expire(q) ==
    /\ status = "up" /\ Kept(q)
    /\ Lookup(q) # NULL
    /\ cell[Lookup(q)] # NULL
    /\ TimedOut(cell[Lookup(q)], now)
    /\ cached' = cached - 1
    /\ trie' = [trie EXCEPT ![Key(q)] = NULL]
    /\ cell' = [cell EXCEPT ![Lookup(q)] = NULL]
    /\ mru' = RemoveFirst(mru, Lookup(q))
    /\ UNCHANGED status

\* No entry, or a type the cache does not know.
Miss(q) ==
    /\ status = "up"
    /\ ~Cacheable(q) \/ (Kept(q) /\ Lookup(q) = NULL)
    /\ UNCHANGED <<cell, mru, trie, cached, status>>

\* The key does not fit, or the trie leads to a cell that was released.
MatchUndefined(q) ==
    /\ status = "up" /\ Cacheable(q)
    /\ Kept(q) => Lookup(q) # NULL /\ cell[Lookup(q)] = NULL
    /\ Undefined

Match(q) ==
    /\ \/ /\ Hit(q)
          /\ ret' = [question |-> q, record |-> cell[Lookup(q)]]
       \/ /\ Expire(q) \/ Miss(q)
          /\ ret' = [question |-> q, record |-> NULL]
       \/ /\ MatchUndefined(q)
          /\ ret' = NoReturn
    /\ UNCHANGED now

-----------------------------------------------------------------------------
\* insert_cache, by branch

\* Mutant of Prepend: the trie leads to the record instead of its cell.
PrependRecord(record, released, remaining, index) ==
    \E a \in {b \in Addr : cell[b] = NULL \/ b \in released} :
        /\ cell' = [b \in Addr |-> IF b = a THEN record
                                   ELSE IF b \in released THEN NULL ELSE cell[b]]
        /\ mru' = Cons(a, remaining)
        /\ trie' = [index EXCEPT ![Key(record.question)] = record]

\* g_list_prepend: the record goes into a cell that is free once the cells in
\* released are, that cell to the front of what remains of the list, and the
\* trie, as index leaves it, leads to it.
Prepend(record, released, remaining, index) ==
    \E a \in {b \in Addr : cell[b] = NULL \/ b \in released} :
        /\ cell' = [b \in Addr |-> IF b = a THEN record
                                   ELSE IF b \in released THEN NULL ELSE cell[b]]
        /\ mru' = Cons(a, remaining)
        /\ trie' = [index EXCEPT ![Key(record.question)] = a]

\* Room, and no entry for the question.
InsertNew(record) ==
    /\ cached < CacheSize
    /\ Lookup(record.question) = NULL
    /\ Prepend(record, {}, mru, trie)
    /\ cached' = cached + 1
    /\ UNCHANGED status

\* Mutant of InsertReplace: the record that already exists is left in the list.
InsertBesides(record) ==
    /\ cached < CacheSize
    /\ Lookup(record.question) # NULL
    /\ Prepend(record, {}, mru, trie)
    /\ cached' = cached + 1
    /\ UNCHANGED status

\* Room, and an entry: it is removed before the record is added.
InsertReplace(record) ==
    LET old == Lookup(record.question) IN
    /\ cached < CacheSize
    /\ old # NULL
    /\ cell[old] # NULL
    /\ Prepend(record, {old}, RemoveFirst(mru, old),
               [trie EXCEPT ![Key(record.question)] = NULL])
    /\ UNCHANGED <<cached, status>>

\* No room: the last cell of the list is released.  The trie entry that is
\* cleared for it is the one under its plain name, without the type.
InsertEvict(record) ==
    LET lru == Last(mru) IN
    /\ cached >= CacheSize
    /\ mru # <<>>
    /\ Prepend(record, {lru}, Front(mru),
               [trie EXCEPT ![cell[lru].question.qname] = NULL])
    /\ UNCHANGED <<cached, status>>

\* The key does not fit, its entry leads to a released cell, or the list to
\* evict from is empty.
InsertUndefined(record) ==
    /\ \/ ~Kept(record.question)
       \/ /\ cached < CacheSize
          /\ Lookup(record.question) # NULL
          /\ cell[Lookup(record.question)] = NULL
       \/ /\ cached >= CacheSize
          /\ mru = <<>>
    /\ Undefined

\* A question of another type: nothing is stored.
InsertIgnored(record) ==
    /\ status = "up"
    /\ ~Cacheable(record.question)
    /\ UNCHANGED <<cell, mru, trie, cached, status>>

InsertStored(record) ==
    /\ status = "up"
    /\ Cacheable(record.question)
    /\ \/ /\ Kept(record.question)
          /\ InsertNew(record) \/ InsertReplace(record) \/ InsertEvict(record)
       \/ InsertUndefined(record)

Insert(record) ==
    /\ InsertIgnored(record) \/ InsertStored(record)
    /\ ret' = NoReturn
    /\ UNCHANGED now

-----------------------------------------------------------------------------
\* free_cache: the trie is freed without its data, the list with its data.
FreeCache ==
    /\ status = "up"
    /\ status' = "freed"
    /\ cell' = [a \in Addr |-> IF a \in ToSet(mru) THEN NULL ELSE cell[a]]
    /\ UNCHANGED <<now, mru, trie, cached, ret>>

Tick ==
    /\ status = "up"
    /\ now < MaxTime
    /\ now' = now + 1
    /\ UNCHANGED <<cell, mru, trie, cached, status, ret>>

\* A worker records the time of the answer before it waits for cache_mutex, so
\* a record may be old, and even timed out, when it is inserted.
Answers == {r \in Record : r.cached_time <= now}

Next ==
    \/ \E q \in Questions : Match(q)
    \/ \E record \in Answers : Insert(record)
    \/ FreeCache
    \/ Tick

Spec == Init /\ [][Next]_vars

-----------------------------------------------------------------------------
(***************************************************************************)
(* Properties                                                              *)
(***************************************************************************)

\* The variables have their types: cells hold records or nothing, the list is
\* made of cells and the trie leads to cells.
TypeOK ==
    /\ now \in 0..MaxTime
    /\ cell \in [Addr -> Record \cup {NULL}]
    /\ mru \in Seq(Addr)
    /\ trie \in [TrieKeys -> Addr \cup {NULL}]
    /\ cached \in Int
    /\ status \in {"up", "freed", "undefined"}
    /\ ret \in [question : Questions \cup {NULL}, record : Record \cup {NULL}]

\* cache.cached, on which the choice between growing and evicting rests, is
\* the length of the list after any mixture of hits, expiries, replacements
\* and evictions, and never exceeds the configured size.
CountsItsCells ==
    /\ cached = Len(mru)
    /\ CacheSize >= 0 => cached <= CacheSize

\* While the cache is up the allocated cells are the cells of the list, each of
\* them listed once (nothing leaks, nothing is released under the list); once
\* it was freed no cell is allocated.
ListOwnsCells ==
    /\ IsInjective(mru)
    /\ status # "freed" => \A a \in Addr : cell[a] # NULL <=> a \in ToSet(mru)
    /\ status = "freed" => \A a \in Addr : cell[a] = NULL

\* The trie and the list agree: the entry of a question leads to a cell of the
\* list that holds a record of that very question, and every cell of the list
\* is the one its question leads to.
IndexMatchesList ==
    status = "up" =>
        /\ \A q \in Questions :
              Cacheable(q) /\ Lookup(q) # NULL =>
                 Lookup(q) \in ToSet(mru) /\ cell[Lookup(q)].question = q
        /\ \A a \in ToSet(mru) : Lookup(cell[a].question) = a

\* No call reads a released cell or the NULL cell.
NeverUndefined == status # "undefined"

\* A lookup that succeeds returns a record of the question it was given
\* (cache.h line 30: "the corresponding DNS resource record").
AnswersItsQuestion == ret.record # NULL => ret.record.question = ret.question

\* A question is held at most once: an insertion first removes the record that
\* already exists (cache.c line 106).
OneRecordPerQuestion ==
    \A a, b \in ToSet(mru) :
        a # b /\ cell[a] # NULL /\ cell[b] # NULL => cell[a].question # cell[b].question

\* The cache implements the bounded least-recently-used store of LruCache,
\* whatever its size and however often it is full: the order of use decides what
\* goes, the size bounds what is held, and calls for a question are exact until an
\* eviction loses it (cache.c lines 118 to 130).  A record is in the store when its
\* cell is in the list; a question is lost when the trie does not lead to the one
\* cell that holds its record.  A run that ends in undefined behaviour stands still.
Astray(q) ==
    /\ Kept(q)
    /\ {a \in ToSet(mru) : cell[a].question = q} # {Lookup(q)} \ {NULL}

\* The trie entry cleared for an evicted record is the one under its plain name.
Clashes(q) == {p \in Questions : Kept(p) /\ Key(p) = q.qname}

Lru == INSTANCE LruCache WITH
    Cacheable <- Kept,
    Capacity <- CacheSize,
    NoRecord <- NULL,
    store <- IF status = "freed" THEN <<>> ELSE [i \in DOMAIN mru |-> cell[mru[i]]],
    lost <- IF status = "freed" THEN {} ELSE {q \in Questions : Astray(q)},
    time <- now,
    returned <- ret

ImplementsLru == Lru!LruSpec
=============================================================================
