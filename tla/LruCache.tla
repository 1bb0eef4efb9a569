------------------------------ MODULE LruCache ------------------------------
(***************************************************************************)
(* What the cache does for its callers (include/cache.h lines 12 to 39): a *)
(* bounded store, most recently used first.  A lookup returns the record   *)
(* of the question it is given, or nothing; an insertion replaces the      *)
(* record of its own question while there is room, and otherwise the least *)
(* recently used record goes.                                              *)
(*                                                                         *)
(* That is exact for a question until the code's index of the store goes   *)
(* wrong about it.  The questions it is wrong about are lost: their        *)
(* records keep their places in the order of use, but a call for one may   *)
(* reach any record, or none.  A question can only get lost by an          *)
(* eviction, which loses the question of the record that goes and those    *)
(* that clash with it, or by a call for a question that is lost.           *)
(*                                                                         *)
(* There is no trie, no pointer and no counter here: DnsCache is shown to  *)
(* implement this module, full or not.                                     *)
(***************************************************************************)
EXTENDS Integers, Sequences, SequencesExt

CONSTANTS
    Questions,      \* the questions a client may ask
    Cacheable(_),   \* is this a question whose answers the cache keeps?
    Clashes(_),     \* the questions lost with the eviction of a record of this one
    Record,         \* the cached answers; each has the field question
    TimedOut(_, _), \* has this record timed out at this time?
    Capacity,       \* the most records the store may hold
    NoRecord        \* returned by a lookup that finds nothing

VARIABLES
    store,          \* the records, most recently used first
    lost,           \* the questions whose records may not be found
    time,           \* the clock
    returned        \* what the last call returned

lruVars == <<store, lost, time, returned>>

\* Where the store has a record of q.
At(q) == {i \in DOMAIN store : store[i].question = q}

\* The place a call for q reaches, 0 if it reaches none.
Places(q) ==
    IF q \in lost THEN {0} \cup DOMAIN store
    ELSE IF Cacheable(q) /\ At(q) # {} THEN At(q) ELSE {0}

\* The record at place i, if any, leaves the store on account of q.  A question
\* other than q whose record this was is lost.
Remaining(i) == IF i = 0 THEN store ELSE RemoveAt(store, i)

LostWith(q, i) == lost \cup (IF i = 0 THEN {} ELSE {store[i].question} \ {q})

LruInit ==
    /\ store = <<>>
    /\ lost = {}
    /\ time = 0
    /\ returned = [question |-> NoRecord, record |-> NoRecord]

\* A fresh record is returned and becomes the most recently used one.
Found(q) ==
    /\ Cacheable(q)
    /\ \E i \in Places(q) \ {0} :
          /\ ~TimedOut(store[i], time)
          /\ store' = Cons(store[i], RemoveAt(store, i))
          /\ returned' = [question |-> q, record |-> store[i]]
    /\ UNCHANGED <<lost, time>>

\* Nothing is returned: no record is reached, or one that timed out, which goes.
NotFound(q) ==
    /\ \E i \in Places(q) :
          /\ i # 0 => TimedOut(store[i], time)
          /\ store' = Remaining(i)
          /\ lost' \subseteq LostWith(q, i)
    /\ returned' = [question |-> q, record |-> NoRecord]
    /\ UNCHANGED time

\* While there is room the record takes the place of the one reached, if any.
Replace(q, record) ==
    /\ Len(store) < Capacity
    /\ \E i \in Places(q) :
          /\ store' = Cons(record, Remaining(i))
          /\ lost' \subseteq LostWith(q, i)

\* In a full store the least recently used record makes room, though the store
\* may have had a record of q, which then has two.
Evict(q, record) ==
    LET gone == Last(store).question IN
    /\ Len(store) >= Capacity
    /\ store # <<>>
    /\ store' = Cons(record, Front(store))
    /\ lost' \subseteq lost \cup {gone} \cup Clashes(gone) \cup
                       (IF At(q) = {} THEN {} ELSE {q})

Put(q, record) ==
    /\ Cacheable(q)
    /\ record.question = q
    /\ Replace(q, record) \/ Evict(q, record)
    /\ returned' = [question |-> NoRecord, record |-> NoRecord]
    /\ UNCHANGED time

\* An answer that is not kept, a call that ends in undefined behaviour because
\* its question is lost, or a store without any room.
Ignore(q) ==
    /\ ~Cacheable(q) \/ q \in lost \/ Capacity <= 0
    /\ returned' = [question |-> NoRecord, record |-> NoRecord]
    /\ UNCHANGED <<store, lost, time>>

Pass ==
    /\ time' = time + 1
    /\ UNCHANGED <<store, lost, returned>>

Close ==
    /\ store' = <<>>
    /\ lost' = {}
    /\ UNCHANGED <<time, returned>>

LruNext ==
    \/ \E q \in Questions :
          \/ Found(q)
          \/ NotFound(q)
          \/ Ignore(q)
          \/ \E record \in Record : Put(q, record)
    \/ Pass
    \/ Close

LruSpec == LruInit /\ [][LruNext]_lruVars

=============================================================================
