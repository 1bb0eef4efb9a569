----------------------------- MODULE FileRules -----------------------------
(***************************************************************************)
(* The rules file and its hot reload (src/filerules.c): one thread polls   *)
(* the file into a back trie and swaps it with the front trie, in which    *)
(* the workers look names up, while an administrator edits the file.       *)
(*                                                                         *)
(* A trie is an address whose contents map names to addresses; freeing it  *)
(* makes its address free, and make_trienode may return any free address.  *)
(* Using a free trie is undefined behaviour and sets status to             *)
(* "undefined".  The mutex is explicit, for a lookup is not one step: the  *)
(* resource it found is copied through a pointer into the trie.            *)
(*                                                                         *)
(* fscanf reads the file word by word, whatever its lines: an address and  *)
(* a name, again and again.  read_rules_to_trie reads one version of it;   *)
(* what an editor that is halfway, or a full disk, leaves of a file is a   *)
(* version as well, one that may end behind an address.                    *)
(*                                                                         *)
(* The words fit the arrays they are read into, and the letters of names   *)
(* have children in the trie (Packets has names of which that is not so).  *)
(***************************************************************************)
EXTENDS Integers, Sequences, FiniteSets, SequencesExt

CONSTANTS
    Readers,    \* the worker threads
    Names,      \* the names in questions and rules, in upper case
    Family,     \* of each word: 4 or 6 for an address of that version, 0 for none
    Versions,   \* what the file may contain: sequences of words
    Tries,      \* the addresses at which a trie may be allocated
    NULL

VARIABLES
    file,       \* the contents of server_config.filename, NULL if there is none
    trie,       \* the contents of the trie at each address, NULL if it is free
    front,      \* filerules
    back,       \* filerules_back
    mutex,      \* the holder of filerules_mutex, NULL if it is free
    poller,     \* where poll_filerules is
    cancelled,  \* was pthread_cancel called on its thread?
    reader,     \* where each lookup is, for which name and what it found
    status      \* "up", "closing", "freed" or "undefined"

vars == <<file, trie, front, back, mutex, poller, cancelled, reader, status>>

-----------------------------------------------------------------------------
\* inet_pton accepts an address of either family, and inet_addr then converts it as
\* one of version 4: of an address of version 6 it makes INADDR_NONE.
Valid(word) == Family[word] \in {4, 6}

InetAddr(word) == IF Family[word] = 4 THEN word ELSE "255.255.255.255"

\* fscanf reads pairs of words; one word that is left over at the end is dropped.
Pairs(words) == 1 .. Len(words) \div 2

\* The rules of the pairs before the first bad one; of several for a name, the last
\* counts.
Rules(words) ==
    LET read == {k \in Pairs(words) : \A j \in 1 .. k : Valid(words[2 * j - 1])}
        rulesOf(n) == {k \in read : words[2 * k] = n}
    IN  [n \in Names |-> IF rulesOf(n) = {} THEN NULL
                         ELSE InetAddr(words[2 * Max(rulesOf(n)) - 1])]

\* The contents of a file that read_rules_to_trie reads with success.
Readable == {words \in Versions : \A k \in Pairs(words) : Valid(words[2 * k - 1])}

\* What a rule may lead to.
Addresses == {"255.255.255.255"} \cup {word \in DOMAIN Family : Family[word] = 4}

NoRules == [n \in Names |-> NULL]

\* found is the trie into which the pointer that search_trie returned leads.
IdleReader == [pc |-> "idle", name |-> NULL, found |-> NULL, result |-> NULL]

ASSUME FileRulesAssumption ==
    /\ NULL \notin Tries /\ NULL \notin Readers /\ "poller" \notin Readers \cup {NULL}
    /\ Versions \subseteq Seq(DOMAIN Family)
    /\ NULL \notin [Names -> Addresses \cup {NULL}]
    /\ NULL \notin [name : Names, address : Addresses \cup {NULL}]

\* init_filerules: an empty front trie, and the poller starts.
Init ==
    /\ file \in Versions \cup {NULL}
    /\ \E t \in Tries :
          /\ front = t
          /\ trie = [u \in Tries |-> IF u = t THEN NoRules ELSE NULL]
    /\ back = NULL
    /\ mutex = NULL
    /\ poller = "check"
    /\ cancelled = FALSE
    /\ reader = [r \in Readers |-> IdleReader]
    /\ status = "up"

-----------------------------------------------------------------------------
Allocated(t) == trie[t] # NULL

\* free_trienode(t, 1), or undefined behaviour if t is free already.
Free(t) ==
    IF Allocated(t) THEN /\ trie' = [trie EXCEPT ![t] = NULL]
                         /\ UNCHANGED status
                    ELSE /\ status' = "undefined"
                         /\ UNCHANGED trie

\* Steps of a thread happen unless the program is undefined or over.
Running == status \in {"up", "closing"}

\* poll_filerules ---------------------------------------------------------------

\* pthread_testcancel
CheckCancel ==
    /\ Running /\ poller = "check"
    /\ poller' = IF cancelled THEN "done" ELSE "open"
    /\ UNCHANGED <<file, trie, front, back, mutex, cancelled, reader, status>>

\* read_rules_to_trie, its first line: whatever filerules_back led to is forgotten.
MakeBack ==
    /\ Running /\ poller = "open"
    /\ \E t \in Tries :
          /\ ~Allocated(t)
          /\ back' = t
          /\ trie' = [trie EXCEPT ![t] = NoRules]
    /\ poller' = "read"
    /\ UNCHANGED <<file, front, mutex, cancelled, reader, status>>

\* Mutants of ReadFile: a bad pair is skipped over as if the file ended there, a file
\* that is missing is taken for an empty one, a trie that failed is not freed, a
\* failure ends the thread.
ReadFileToBadPair ==
    /\ Running /\ poller = "read"
    /\ file # NULL
    /\ trie' = [trie EXCEPT ![back] = Rules(file)]
    /\ poller' = "lock"
    /\ UNCHANGED <<file, front, back, mutex, cancelled, reader, status>>

ReadMissingFile ==
    /\ Running /\ poller = "read"
    /\ trie' = [trie EXCEPT ![back] = IF file = NULL THEN NoRules ELSE Rules(file)]
    /\ poller' = IF file \in Readable \cup {NULL} THEN "lock" ELSE "free"
    /\ UNCHANGED <<file, front, back, mutex, cancelled, reader, status>>

ReadFileOrElse(pc) ==
    /\ Running /\ poller = "read"
    /\ trie' = [trie EXCEPT ![back] = IF file = NULL THEN NoRules ELSE Rules(file)]
    /\ poller' = IF file \in Readable THEN "lock" ELSE pc
    /\ UNCHANGED <<file, front, back, mutex, cancelled, reader, status>>

ReadFileLeaks == ReadFileOrElse("sleep")

ReadFileOnce == ReadFileOrElse("done")

\* The rest of it: without a file it fails, and so it does at a bad pair, when the
\* trie holds the rules of the pairs before it; behind an address without a name it
\* ends, and succeeds.
ReadFile ==
    /\ Running /\ poller = "read"
    /\ \/ /\ file = NULL
          /\ poller' = "free"
          /\ UNCHANGED trie
       \/ /\ file # NULL
          /\ trie' = [trie EXCEPT ![back] = Rules(file)]
          /\ poller' = IF file \in Readable THEN "lock" ELSE "free"
    /\ UNCHANGED <<file, front, back, mutex, cancelled, reader, status>>

\* fopen and the reads behind fscanf are cancellation points: the thread ends there
\* and its back trie is left.
DieReading ==
    /\ Running /\ poller = "read" /\ cancelled
    /\ poller' = "done"
    /\ UNCHANGED <<file, trie, front, back, mutex, cancelled, reader, status>>

\* Mutant of LockToSwap: the poller does not wait for the mutex.
SwapUnlocked ==
    /\ Running /\ poller = "lock"
    /\ mutex' = "poller"
    /\ poller' = "swap"
    /\ UNCHANGED <<file, trie, front, back, cancelled, reader, status>>

LockToSwap ==
    /\ Running /\ poller = "lock"
    /\ mutex = NULL
    /\ mutex' = "poller"
    /\ poller' = "swap"
    /\ UNCHANGED <<file, trie, front, back, cancelled, reader, status>>

\* Mutant of Swap: the thread can be cancelled while it holds the mutex.
SwapCancelled ==
    /\ Running /\ poller = "swap"
    /\ front' = back
    /\ back' = front
    /\ poller' = IF cancelled THEN "done" ELSE "unlock"
    /\ UNCHANGED <<file, trie, mutex, cancelled, reader, status>>

Swap ==
    /\ Running /\ poller = "swap"
    /\ front' = back
    /\ back' = front
    /\ poller' = "unlock"
    /\ UNCHANGED <<file, trie, mutex, cancelled, reader, status>>

UnlockSwapped ==
    /\ Running /\ poller = "unlock"
    /\ mutex' = NULL
    /\ poller' = "free"
    /\ UNCHANGED <<file, trie, front, back, cancelled, reader, status>>

\* After a swap, or a read that failed, the back trie is freed; its address stays in
\* filerules_back.
FreeBack ==
    /\ Running /\ poller = "free"
    /\ Free(back)
    /\ poller' = "sleep"
    /\ UNCHANGED <<file, front, back, mutex, cancelled, reader>>

\* sleep is a cancellation point.
WakeUp ==
    /\ Running /\ poller = "sleep"
    /\ poller' = IF cancelled THEN "done" ELSE "check"
    /\ UNCHANGED <<file, trie, front, back, mutex, cancelled, reader, status>>

\* match_filerules --------------------------------------------------------------

LockToRead(r, n) ==
    /\ status = "up" /\ reader[r].pc = "idle"
    /\ mutex = NULL
    /\ mutex' = r
    /\ reader' = [reader EXCEPT ![r] = [pc |-> "search", name |-> n, found |-> NULL,
                                        result |-> NULL]]
    /\ UNCHANGED <<file, trie, front, back, poller, cancelled, status>>

\* Mutant of Search: the mutex is released before the resource is copied.
SearchAndUnlock(r) ==
    /\ Running /\ reader[r].pc = "search"
    /\ Allocated(front)
    /\ mutex' = NULL
    /\ reader' = [reader EXCEPT
                     ![r] = IF trie[front][@.name] = NULL THEN IdleReader
                            ELSE [@ EXCEPT !.pc = "copy", !.found = front]]
    /\ UNCHANGED <<file, trie, front, back, poller, cancelled, status>>

\* search_trie
Search(r) ==
    /\ Running /\ reader[r].pc = "search"
    /\ \/ /\ ~Allocated(front)
          /\ status' = "undefined"
          /\ UNCHANGED reader
       \/ /\ Allocated(front) /\ trie[front][reader[r].name] = NULL
          /\ reader' = [reader EXCEPT ![r].pc = "unlock"]
          /\ UNCHANGED status
       \/ /\ Allocated(front) /\ trie[front][reader[r].name] # NULL
          /\ reader' = [reader EXCEPT ![r].pc = "copy", ![r].found = front]
          /\ UNCHANGED status
    /\ UNCHANGED <<file, trie, front, back, mutex, poller, cancelled>>

\* Mutant of Copy: the pointer is returned instead of a copy of what it leads to.
CopyPointer(r) ==
    /\ Running /\ reader[r].pc = "copy"
    /\ reader' = [reader EXCEPT ![r].pc = "unlock", ![r].result = reader[r].found]
    /\ UNCHANGED <<file, trie, front, back, mutex, poller, cancelled, status>>

\* *resource = *result
Copy(r) ==
    /\ Running /\ reader[r].pc = "copy"
    /\ \/ /\ ~Allocated(reader[r].found)
          /\ status' = "undefined"
          /\ UNCHANGED reader
       \/ /\ Allocated(reader[r].found)
          /\ reader' = [reader EXCEPT ![r].pc = "unlock",
                                      ![r].result = trie[reader[r].found][reader[r].name]]
          /\ UNCHANGED status
    /\ UNCHANGED <<file, trie, front, back, mutex, poller, cancelled>>

UnlockRead(r) ==
    /\ Running /\ reader[r].pc = "unlock"
    /\ mutex' = NULL
    /\ reader' = [reader EXCEPT ![r] = IdleReader]
    /\ UNCHANGED <<file, trie, front, back, poller, cancelled, status>>

\* free_filerules ---------------------------------------------------------------

\* graceful_shutdown has joined the workers in free_handler before.
CancelPoller ==
    /\ status = "up"
    /\ \A r \in Readers : reader[r].pc = "idle"
    /\ cancelled' = TRUE
    /\ status' = "closing"
    /\ UNCHANGED <<file, trie, front, back, mutex, poller, reader>>

\* pthread_join returns; the front trie is freed under the mutex.
FreeFront ==
    /\ status = "closing" /\ poller = "done"
    /\ mutex = NULL
    /\ \/ /\ Allocated(front)
          /\ trie' = [trie EXCEPT ![front] = NULL]
          /\ status' = "freed"
       \/ /\ ~Allocated(front)
          /\ status' = "undefined"
          /\ UNCHANGED trie
    /\ UNCHANGED <<file, front, back, mutex, poller, cancelled, reader>>

-----------------------------------------------------------------------------
\* The administrator removes the file or replaces it.
Edit(contents) ==
    /\ status = "up" /\ contents # file
    /\ file' = contents
    /\ UNCHANGED <<trie, front, back, mutex, poller, cancelled, reader, status>>

Poll ==
    \/ CheckCancel \/ MakeBack \/ ReadFile \/ DieReading
    \/ LockToSwap \/ Swap \/ UnlockSwapped \/ FreeBack \/ WakeUp

Match(r) == Search(r) \/ Copy(r) \/ UnlockRead(r)

Next ==
    \/ Poll
    \/ \E r \in Readers : Match(r) \/ \E n \in Names : LockToRead(r, n)
    \/ CancelPoller
    \/ FreeFront
    \/ \E contents \in Versions \cup {NULL} : Edit(contents)

\* Threads that can run are scheduled in the end.  No lookup need ever start, and
\* the mutex promises nobody that waits for it a turn.
Fairness ==
    /\ WF_vars(Poll)
    /\ \A r \in Readers : WF_vars(Match(r))
    /\ WF_vars(FreeFront)

Spec == Init /\ [][Next]_vars /\ Fairness

-----------------------------------------------------------------------------
(***************************************************************************)
(* Properties                                                              *)
(***************************************************************************)

\* The variables have their types.
TypeOK ==
    /\ file \in Versions \cup {NULL}
    /\ trie \in [Tries -> [Names -> Addresses \cup {NULL}] \cup {NULL}]
    /\ front \in Tries
    /\ back \in Tries \cup {NULL}
    /\ mutex \in Readers \cup {"poller", NULL}
    /\ poller \in {"check", "open", "read", "lock", "swap", "unlock", "free", "sleep", "done"}
    /\ cancelled \in BOOLEAN
    /\ reader \in [Readers -> [pc : {"idle", "search", "copy", "unlock"},
                               name : Names \cup {NULL},
                               found : Tries \cup {NULL},
                               result : Addresses \cup {NULL}]]
    /\ status \in {"up", "closing", "freed", "undefined"}

\* No trie is read after it was freed or freed twice, by any interleaving of the
\* lookups, the swap, the frees outside the mutex and the shutdown.
NeverUndefined == status # "undefined"

\* The lookup that holds the mutex returns the rule of the trie in front, from the
\* moment it has copied it to the moment it lets the mutex go.
LookupIsCurrent ==
    \A r \in Readers :
        reader[r].pc = "unlock" => reader[r].result = trie[front][reader[r].name]

\* What is served is the empty trie of the start or the rules of one version of the
\* file, of all its pairs of words: never those of the pairs before a bad one.  (A
\* version that ends behind an address has no pair there.)
OnlyReadableServed ==
    status = "up" => trie[front] \in {NoRules} \cup {Rules(words) : words \in Readable}

\* Two tries at most are allocated, the one in front and the one the poller is at
\* work on: reloading for ever, with reads that fail among them, leaks none.
NoTrieLeaks ==
    status \in {"up", "closing"} =>
        {t \in Tries : Allocated(t)} =
            {front} \cup IF \/ poller \in {"read", "lock", "swap", "unlock", "free"}
                            \/ poller = "done" /\ back # NULL /\ Allocated(back)
                         THEN {back} ELSE {}

\* The update is seamless (filerules.h line 20): a name for which every version that is
\* read with success, one cut off included, has a rule never loses it once it was
\* served, though the file be removed, replaced or broken in between.
NoGapInService ==
    [][status' = "up" =>
         \A n \in Names :
            /\ \A words \in Readable : Rules(words)[n] # NULL
            /\ trie[front][n] # NULL
            => (trie[front][n])' # NULL]_vars

\* A version that stays and can be read, one cut off behind an address included, is
\* served in the end, and from then on, whatever the file was before (init_filerules: no
\* restart is needed), if the lookups leave the mutex to the poller.
StableVersionIsServed ==
    \A words \in Readable :
        <>[](/\ status = "up" /\ file = words
             /\ \A r \in Readers : reader[r].pc = "idle")
        => <>[](trie[front] = Rules(words))

\* free_filerules ends: the poller can always be joined, and never takes the mutex
\* with it.
ShutdownEnds == status = "closing" ~> status = "freed"

\* The two tries, their swap under the mutex and the copy of the resource implement
\* the rule service of RuleTable: however a reload falls among the lookups, each answers
\* from the table that is in service at that moment.
Service == INSTANCE RuleTable WITH
    Start <- NoRules,
    Tables <- {Rules(words) : words \in Readable},
    None <- NULL,
    table <- trie[front],
    answer <- [r \in Readers |->
                  IF reader[r].pc = "unlock"
                  THEN [name |-> reader[r].name, address |-> reader[r].result]
                  ELSE NULL]

ImplementsRuleTable == Service!TableSpec
=============================================================================
