-------------------------- MODULE FileRulesProofs --------------------------
(***************************************************************************)
(* Safety of FileRules for any number of workers, names, versions of the   *)
(* file and addresses, and that it implements RuleTable.                   *)
(***************************************************************************)
EXTENDS FileRules, NaturalsInduction, WellFoundedInduction, TLAPS

\* A set of natural numbers below a bound has a largest one: its distance from the
\* bound is the smallest.
LEMMA LargestBelow ==
    ASSUME NEW n \in Nat, NEW S \in SUBSET (0 .. n), S # {}
    PROVE  Max(S) \in S
<1> DEFINE D == {n - i : i \in S}
<1>1. D \subseteq Nat /\ D # {}
  <2>1. PICK i \in S : TRUE
    OBVIOUS
  <2>2. n - i \in D
    BY <2>1
  <2>3. \A j \in S : n - j \in Nat
    OBVIOUS
  <2> QED
    BY <2>2, <2>3
<1>2. PICK d \in D : \A e \in D : ~(<<e, d>> \in OpToRel(<, Nat))
  BY <1>1, WFMin, NatLessThanWellFounded
<1>3. \A e \in D : ~(e < d)
  BY <1>1, <1>2 DEF OpToRel
<1>4. PICK i \in S : d = n - i
  OBVIOUS
<1>5. \A j \in S : i >= j
  BY <1>3, <1>4
<1> QED
  BY <1>5 DEF Max

LEMMA RulesType ==
    ASSUME NEW words \in Versions
    PROVE  Rules(words) \in [Names -> Addresses \cup {NULL}]
<1>1. words \in Seq(DOMAIN Family) /\ Len(words) \in Nat
  BY FileRulesAssumption
<1> DEFINE read == {k \in Pairs(words) : \A j \in 1 .. k : Valid(words[2 * j - 1])}
           rulesOf(n) == {k \in read : words[2 * k] = n}
<1>2. \A k \in Pairs(words) : k \in Nat /\ k <= Len(words) /\ 2 * k - 1 \in 1 .. Len(words)
  BY <1>1 DEF Pairs
<1>3. ASSUME NEW n \in Names, rulesOf(n) # {}
      PROVE  Max(rulesOf(n)) \in Pairs(words)
  <2>1. rulesOf(n) \in SUBSET (0 .. Len(words))
    BY <1>2
  <2>2. Max(rulesOf(n)) \in rulesOf(n)
    BY <1>1, <1>3, <2>1, LargestBelow
  <2> QED
    BY <2>2
<1>4. \A k \in Pairs(words) : InetAddr(words[2 * k - 1]) \in Addresses
  <2>1. \A k \in Pairs(words) : words[2 * k - 1] \in DOMAIN Family
    BY <1>1, <1>2
  <2> QED
    BY <2>1 DEF InetAddr, Addresses
<1>5. Rules(words) = [n \in Names |-> IF rulesOf(n) = {} THEN NULL
                                      ELSE InetAddr(words[2 * Max(rulesOf(n)) - 1])]
  BY DEF Rules
<1> HIDE DEF rulesOf
<1> QED
  BY <1>3, <1>4, <1>5

-----------------------------------------------------------------------------
\* The mutex is held by the lookup that is under way, or by the poller at its swap.
Locked ==
    /\ \A r \in Readers : reader[r].pc # "idle" <=> mutex = r
    /\ mutex = "poller" <=> poller \in {"swap", "unlock"}

\* While the poller is at work its trie is another than the one in front; no third one
\* is allocated.
Buffers ==
    status \in {"up", "closing"} =>
        /\ Allocated(front)
        /\ poller \in {"read", "lock", "swap", "unlock", "free"} =>
               back \in Tries \ {front} /\ Allocated(back)
        /\ \A t \in Tries \ {front} :
               Allocated(t) =>
                   t = back /\ poller \in {"read", "lock", "swap", "unlock", "free", "done"}

\* The rules of readable versions, in front and in the trie that is about to go there.
ReadableInFront ==
    /\ status \in {"up", "closing"} =>
           trie[front] \in {NoRules} \cup {Rules(words) : words \in Readable}
    /\ poller \in {"lock", "swap"} => trie[back] \in {Rules(words) : words \in Readable}

\* What a lookup found is in front.
FoundInFront ==
    \A r \in Readers :
        /\ reader[r].pc # "idle" => reader[r].name \in Names
        /\ reader[r].pc = "search" => reader[r].result = NULL
        /\ reader[r].pc = "copy" => reader[r].found = front
        /\ reader[r].pc = "unlock" => reader[r].result = trie[front][reader[r].name]

\* The shutdown finds no lookup and no poller.
Closing ==
    /\ status # "undefined"
    /\ status # "up" => \A r \in Readers : reader[r].pc = "idle"
    /\ status = "freed" => poller = "done"

Inv == TypeOK /\ Locked /\ Buffers /\ ReadableInFront /\ FoundInFront /\ Closing

-----------------------------------------------------------------------------
LEMMA InitHolds == Init => Inv
<1> SUFFICES ASSUME Init
             PROVE  Inv
  OBVIOUS
<1>1. NoRules \in [Names -> Addresses \cup {NULL}] /\ NoRules # NULL
  BY FileRulesAssumption DEF NoRules
<1>2. TypeOK
  BY <1>1 DEF Init, TypeOK, IdleReader
<1>3. Locked /\ FoundInFront /\ Closing
  BY FileRulesAssumption DEF Init, Locked, FoundInFront, Closing, IdleReader
<1>4. Buffers /\ ReadableInFront
  BY <1>1 DEF Init, Buffers, ReadableInFront, Allocated
<1> QED
  BY <1>2, <1>3, <1>4 DEF Inv

LEMMA PollerKeeps ==
    ASSUME Inv, Poll
    PROVE  Inv'
<1> USE FileRulesAssumption DEF Inv, Running
<1>1. CASE CheckCancel \/ DieReading \/ WakeUp
  BY <1>1 DEF CheckCancel, DieReading, WakeUp, TypeOK, Locked, Buffers, ReadableInFront,
              FoundInFront, Closing, Allocated
<1>2. CASE MakeBack
  <2> USE <1>2 DEF MakeBack
  <2>1. NoRules \in [Names -> Addresses \cup {NULL}] /\ NoRules # NULL
    BY DEF NoRules
  <2>2. TypeOK'
    BY <2>1 DEF TypeOK
  <2>3. Locked' /\ Closing'
    BY DEF Locked, Closing
  <2>4. Buffers' /\ ReadableInFront' /\ FoundInFront'
    BY <2>1 DEF TypeOK, Buffers, ReadableInFront, FoundInFront, Closing, Allocated
  <2> QED
    BY <2>2, <2>3, <2>4
<1>3. CASE ReadFile
  <2> USE <1>3 DEF ReadFile
  <2>1. file # NULL => Rules(file) \in [Names -> Addresses \cup {NULL}] /\ Rules(file) # NULL
    BY RulesType DEF TypeOK
  <2>2. TypeOK'
    BY <2>1 DEF TypeOK
  <2>3. Locked' /\ Closing'
    BY DEF Locked, Closing
  <2>4. back # front /\ back \in Tries
    BY DEF Buffers
  <2>5. Buffers'
    BY <2>1, <2>4 DEF TypeOK, Buffers, Allocated
  <2>6. ReadableInFront' /\ FoundInFront'
    BY <2>4 DEF TypeOK, ReadableInFront, FoundInFront
  <2> QED
    BY <2>2, <2>3, <2>5, <2>6
<1>4. CASE LockToSwap
  BY <1>4 DEF LockToSwap, TypeOK, Locked, Buffers, ReadableInFront, FoundInFront, Closing,
              Allocated
<1>5. CASE Swap
  <2> USE <1>5 DEF Swap
  <2>1. \A r \in Readers : reader[r].pc = "idle"
    BY DEF Locked
  <2>2. TypeOK'
    BY DEF TypeOK, Buffers
  <2>3. Locked' /\ Closing' /\ FoundInFront'
    BY <2>1 DEF Locked, Closing, FoundInFront
  <2>4. Buffers' /\ ReadableInFront'
    BY DEF TypeOK, Buffers, ReadableInFront, Allocated
  <2> QED
    BY <2>2, <2>3, <2>4
<1>6. CASE UnlockSwapped
  BY <1>6 DEF UnlockSwapped, TypeOK, Locked, Buffers, ReadableInFront, FoundInFront, Closing,
              Allocated
<1>7. CASE FreeBack
  <2> USE <1>7 DEF FreeBack, Free
  <2>1. back # front /\ back \in Tries /\ Allocated(back)
    BY DEF Buffers
  <2>2. TypeOK'
    BY <2>1 DEF TypeOK
  <2>3. Locked' /\ Closing'
    BY <2>1 DEF Locked, Closing
  <2>4. Buffers' /\ ReadableInFront' /\ FoundInFront'
    BY <2>1 DEF TypeOK, Buffers, ReadableInFront, FoundInFront, Allocated
  <2> QED
    BY <2>2, <2>3, <2>4
<1> QED
  BY <1>1, <1>2, <1>3, <1>4, <1>5, <1>6, <1>7 DEF Poll

LEMMA ReaderKeeps ==
    ASSUME Inv, NEW r \in Readers, Match(r) \/ \E n \in Names : LockToRead(r, n)
    PROVE  Inv'
<1> USE FileRulesAssumption DEF Inv, Running
<1>0. Buffers' /\ ReadableInFront'
  BY DEF Match, LockToRead, Search, Copy, UnlockRead, Buffers, ReadableInFront, Allocated
<1>1. CASE \E n \in Names : LockToRead(r, n)
  <2> PICK n \in Names : LockToRead(r, n)
    BY <1>1
  <2> DEFINE locked == [pc |-> "search", name |-> n, found |-> NULL, result |-> NULL]
  <2>1. reader' = [reader EXCEPT ![r] = locked]
    BY DEF LockToRead
  <2>2. reader'[r] = locked /\ \A q \in Readers \ {r} : reader'[q] = reader[q]
    BY <2>1 DEF TypeOK
  <2>3. mutex = NULL /\ mutex' = r /\ status = "up"
        /\ UNCHANGED <<file, trie, front, back, poller, cancelled, status>>
    BY DEF LockToRead
  <2>4. TypeOK'
    BY <2>1, <2>3 DEF TypeOK
  <2>5. Locked' /\ Closing'
    BY <2>2, <2>3 DEF Locked, Closing
  <2>6. FoundInFront'
    BY <2>2, <2>3 DEF FoundInFront
  <2> QED
    BY <1>0, <2>4, <2>5, <2>6
<1>2. CASE Search(r)
  <2> USE <1>2 DEF Search
  <2>1. Allocated(front)
    BY DEF Buffers, Closing
  <2> QED
    BY <1>0, <2>1 DEF TypeOK, Locked, FoundInFront, Closing
<1>3. CASE Copy(r)
  <2> USE <1>3 DEF Copy
  <2>1. reader[r].found = front /\ Allocated(front)
    BY DEF Buffers, Closing, FoundInFront
  <2>2. trie[front][reader[r].name] \in Addresses \cup {NULL}
    BY <2>1 DEF TypeOK, FoundInFront, Allocated
  <2> QED
    BY <1>0, <2>1, <2>2 DEF TypeOK, Locked, FoundInFront, Closing
<1>4. CASE UnlockRead(r)
  BY <1>0, <1>4 DEF UnlockRead, IdleReader, TypeOK, Locked, FoundInFront, Closing
<1> QED
  BY <1>1, <1>2, <1>3, <1>4 DEF Match

LEMMA NextKeeps == Inv /\ [Next]_vars => Inv'
<1> SUFFICES ASSUME Inv, [Next]_vars
             PROVE  Inv'
  OBVIOUS
<1> USE DEF Inv, TypeOK, Locked, Buffers, ReadableInFront, FoundInFront, Closing, Allocated
<1>1. CASE Poll
  BY <1>1, PollerKeeps
<1>2. CASE \E r \in Readers : Match(r) \/ \E n \in Names : LockToRead(r, n)
  BY <1>2, ReaderKeeps
<1>3. CASE CancelPoller
  BY <1>3 DEF CancelPoller
<1>4. CASE FreeFront
  BY <1>4, FileRulesAssumption DEF FreeFront
<1>5. CASE \E contents \in Versions \cup {NULL} : Edit(contents)
  BY <1>5 DEF Edit
<1>6. CASE UNCHANGED vars
  BY <1>6 DEF vars
<1> QED
  BY <1>1, <1>2, <1>3, <1>4, <1>5, <1>6 DEF Next

THEOREM InvHolds == Spec => []Inv
BY InitHolds, NextKeeps, PTL DEF Spec

-----------------------------------------------------------------------------
THEOREM TypesHold == Spec => []TypeOK
<1>1. Inv => TypeOK
  BY DEF Inv
<1> QED
  BY <1>1, InvHolds, PTL

THEOREM TriesAreAllocated == Spec => []NeverUndefined
<1>1. Inv => NeverUndefined
  BY DEF Inv, Closing, NeverUndefined
<1> QED
  BY <1>1, InvHolds, PTL

THEOREM AnswersAreCurrent == Spec => []LookupIsCurrent
<1>1. Inv => LookupIsCurrent
  BY DEF Inv, FoundInFront, LookupIsCurrent
<1> QED
  BY <1>1, InvHolds, PTL

THEOREM ServedIsReadable == Spec => []OnlyReadableServed
<1>1. Inv => OnlyReadableServed
  BY DEF Inv, ReadableInFront, OnlyReadableServed
<1> QED
  BY <1>1, InvHolds, PTL

THEOREM TwoTriesAtMost == Spec => []NoTrieLeaks
<1>1. Inv => NoTrieLeaks
  BY FileRulesAssumption DEF Inv, TypeOK, Buffers, NoTrieLeaks
<1> QED
  BY <1>1, InvHolds, PTL

THEOREM ServedNamesStay == Spec => NoGapInService
<1>1. Inv /\ Inv' /\ [Next]_vars =>
         [status' = "up" =>
             \A n \in Names :
                /\ \A words \in Readable : Rules(words)[n] # NULL
                /\ trie[front][n] # NULL
                => (trie[front][n])' # NULL]_vars
  <2> SUFFICES ASSUME Inv, [Next]_vars, status' = "up", NEW n \in Names,
                      \A words \in Readable : Rules(words)[n] # NULL,
                      trie[front][n] # NULL
               PROVE  (trie[front][n])' # NULL
    OBVIOUS
  <2>1. CASE Swap
    <3>1. trie'[front'] \in {Rules(words) : words \in Readable}
      BY <2>1 DEF Swap, Inv, ReadableInFront
    <3> QED
      BY <3>1
  <2>2. CASE ~Swap
    <3>1. front' = front /\ trie'[front] = trie[front]
      BY <2>2
         DEF Inv, TypeOK, Buffers, Next, vars, Poll, CheckCancel, MakeBack, ReadFile, DieReading,
             LockToSwap, UnlockSwapped, FreeBack, Free, WakeUp, Match, Search, Copy,
             UnlockRead, LockToRead, CancelPoller, FreeFront, Edit, Running, Allocated
    <3> QED
      BY <3>1
  <2> QED
    BY <2>1, <2>2
<1> QED
  BY <1>1, InvHolds, PTL DEF Spec, NoGapInService

-----------------------------------------------------------------------------
\* A reader that holds an answer holds the mutex, so nobody else does and nothing moves.
Answer ==
    [r \in Readers |-> IF reader[r].pc = "unlock"
                       THEN [name |-> reader[r].name, address |-> reader[r].result]
                       ELSE NULL]

LEMMA Published ==
    ASSUME Inv, mutex \notin Readers
    PROVE  \A r \in Readers : Answer[r] = NULL
BY DEF Inv, Locked, Answer

LEMMA StepImplements ==
    ASSUME Inv, [Next]_vars
    PROVE  [Service!TableNext]_(Service!tableVars)
<1> USE FileRulesAssumption DEF Inv
<1>1. Service!tableVars = <<trie[front], Answer>>
  BY DEF Service!tableVars, Answer
<1>2. CASE UNCHANGED vars \/ CheckCancel \/ DieReading \/ WakeUp \/ LockToSwap
           \/ UnlockSwapped \/ CancelPoller
           \/ \E contents \in Versions \cup {NULL} : Edit(contents)
  <2>1. UNCHANGED <<trie, front, reader>>
    BY <1>2 DEF vars, CheckCancel, DieReading, WakeUp, LockToSwap, UnlockSwapped,
                CancelPoller, Edit
  <2> QED
    BY <2>1 DEF Service!tableVars
<1>3. CASE MakeBack \/ ReadFile \/ FreeBack
  <2>1. reader' = reader /\ front' = front /\ trie'[front] = trie[front]
    BY <1>3 DEF MakeBack, ReadFile, FreeBack, Free, Running, Buffers, TypeOK, Allocated
  <2> QED
    BY <2>1 DEF Service!tableVars
<1>4. CASE Swap
  <2>1. Service!NobodyAnswered
    BY <1>4, Published DEF Swap, Locked, Service!NobodyAnswered, Answer
  <2>2. trie[front] # NULL
    BY <1>4 DEF Swap, Running, Buffers, Allocated
  <2>3. trie'[front'] \in {Rules(words) : words \in Readable} /\ reader' = reader
    BY <1>4 DEF Swap, ReadableInFront
  <2> QED
    BY <2>1, <2>2, <2>3 DEF Service!TableNext, Service!Publish
<1>5. CASE FreeFront
  <2>1. Service!NobodyAnswered
    BY <1>5 DEF FreeFront, Locked, Service!NobodyAnswered
  <2>2. trie[front] # NULL /\ trie'[front'] = NULL /\ reader' = reader
    BY <1>5 DEF FreeFront, Buffers, Allocated, TypeOK
  <2> QED
    BY <2>1, <2>2 DEF Service!TableNext, Service!Close
<1>6. ASSUME NEW r \in Readers, Match(r) \/ \E n \in Names : LockToRead(r, n)
      PROVE  [Service!TableNext]_(Service!tableVars)
  <2>0. mutex \in {r, NULL}
    BY <1>6 DEF Match, Search, Copy, UnlockRead, LockToRead, Locked
  <2>1. trie'[front'] = trie[front]
    BY <1>6 DEF Match, Search, Copy, UnlockRead, LockToRead, Locked, TypeOK
  <2>2. \A q \in Readers \ {r} : reader[q].pc = "idle" /\ reader'[q] = reader[q]
    <3>1. \A q \in Readers \ {r} : reader[q].pc = "idle"
      BY <2>0 DEF Locked
    <3>2. \A q \in Readers \ {r} : reader'[q] = reader[q]
      BY <1>6 DEF Match, Search, Copy, UnlockRead, LockToRead, TypeOK
    <3> QED
      BY <3>1, <3>2
  <2>3. \A q \in Readers \ {r} : Answer[q] = NULL /\ Answer'[q] = NULL
    BY <2>2 DEF Answer
  <2>4. CASE reader'[r].pc # "unlock" /\ reader[r].pc # "unlock"
    <3>1. Answer' = Answer
      BY <2>2, <2>4 DEF Answer
    <3> QED
      BY <1>1, <2>1, <3>1 DEF Service!tableVars, Answer
  <2>5. CASE UnlockRead(r)
    <3>1. reader[r].pc = "unlock" /\ reader'[r].pc = "idle"
      BY <2>5 DEF UnlockRead, IdleReader, TypeOK
    <3>2. Answer[r] # NULL
      BY <3>1 DEF Answer, FoundInFront, TypeOK
    <3>3. Answer' = [Answer EXCEPT ![r] = NULL]
      <4>1. Answer'[r] = NULL
        BY <3>1 DEF Answer
      <4> QED
        BY <2>3, <4>1 DEF Answer
    <3>4. Service!Leave(r)
      BY <2>1, <3>2, <3>3 DEF Service!Leave, Answer
    <3> QED
      BY <3>4 DEF Service!TableNext
  <2>6. CASE (Search(r) \/ Copy(r)) /\ reader'[r].pc = "unlock"
    <3>1. /\ reader[r].pc # "unlock" /\ reader[r].pc # "idle"
          /\ reader'[r].name = reader[r].name
          /\ trie[front] # NULL
          /\ reader'[r].result = trie[front][reader[r].name]
      BY <2>6 DEF Search, Copy, Running, Allocated, Buffers, FoundInFront, TypeOK
    <3>2. Service!NobodyAnswered
      BY <2>3, <3>1 DEF Service!NobodyAnswered, Answer
    <3>3. Answer' = [Answer EXCEPT ![r] = [name |-> reader[r].name,
                                           address |-> trie[front][reader[r].name]]]
      BY <2>3, <2>6, <3>1 DEF Answer
    <3>4. PICK n \in Names : n = reader[r].name
      BY <3>1 DEF FoundInFront
    <3>5. Service!Lookup(r, n)
      BY <2>1, <3>1, <3>2, <3>3, <3>4 DEF Service!Lookup, Answer
    <3> QED
      BY <3>5 DEF Service!TableNext
  <2>7. (Search(r) \/ Copy(r)) \/ (\E n \in Names : LockToRead(r, n)) => reader[r].pc # "unlock"
    BY DEF Search, Copy, LockToRead
  <2>8. (\E n \in Names : LockToRead(r, n)) => reader'[r].pc # "unlock"
    BY DEF LockToRead, IdleReader, TypeOK
  <2> QED
    BY <1>6, <2>4, <2>5, <2>6, <2>7, <2>8 DEF Match
<1> QED
  BY <1>2, <1>3, <1>4, <1>5, <1>6 DEF Next, Poll

THEOREM Implements == Spec => ImplementsRuleTable
<1>1. Init => Service!TableInit
  BY DEF Init, IdleReader, Service!TableInit
<1>2. Inv /\ [Next]_vars => [Service!TableNext]_(Service!tableVars)
  BY StepImplements
<1> QED
  BY <1>1, <1>2, InvHolds, PTL DEF Spec, ImplementsRuleTable, Service!TableSpec
=============================================================================
