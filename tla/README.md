# A TLA+ model of the DNS relay

`bupt-scs-dns-relay` answers DNS queries over UDP: from a file of rules, from a
cache, or by asking an upstream server.  This directory holds TLA+ modules that model
its core, configurations with which TLC checks them on small instances, and theorems
that TLAPS proves for every instance.  Line numbers refer to `src/src/*.c` and
`src/include/*.h`; `PROJECT.json` maps each definition to the lines it models.

## 1. The system

| Component | State | Operations | Used by |
|---|---|---|---|
| answer cache (`cache.c`) | list of records in order of use, trie index, counter; `cache_mutex` | `match_cacherules`, `insert_cache`, `init_cache`, `free_cache` | `dns_resolve` in every worker |
| request handling (`dns.c`) | locals of each worker; the id counter under `id_mutex`; one new socket per query | `handle_dns_request`, `dns_resolve`, `dns_query`, `dns_query_buf_new`, conversions of names | the worker pool |
| receiving thread, pool (`handler.c`) | two sockets, the pool's queue | `init_handler`, `run_handler`, `free_handler` | clients, `main.c` |
| rules (`filerules.c`) | front and back trie, `filerules_mutex`, the polling thread | `poll_filerules`, `read_rules_to_trie`, `match_filerules`, `init_/free_filerules` | `dns_resolve` |
| trie (`trie.c`) | nodes with one child per character | `make_trienode`, `insert_trie`, `search_trie`, `free_trienode` | cache, rules |
| start and shutdown (`main.c`) | none of its own | `init`, `graceful_shutdown` (on SIGINT) | |
| logger (`logger.c`) | an asynchronous queue, drained by the main thread | `debug` ... `fatal`, `run_logger`, `free_logger` | all |
| command line (`args.c`), utilities (`util.c`), `cargs` | `server_config` | sequential | all |

A datagram travels so: `run_handler` receives it and pushes it on the pool's queue; a
worker takes it and resolves its questions one after the other, each by the rules,
then the cache, then upstream, whose answer goes into the cache; the worker sends the
reply and frees the request.  Meanwhile one thread reloads the rules every three
seconds, and SIGINT may shut everything down.

What is hard in it:

- *Memory.*  The cache keeps one object in two structures, the list and the trie.
  They must agree, or a lookup reads a cell that was released or is somebody else's.
- *Interleavings.*  Workers share the cache, the rules and the ids; two may miss the
  same question together; a rule is read while it is being replaced.
- *The network.*  Packets are lost, late, repeated or not for this query.
- *Failure.*  One question of several fails; the file is missing, has a bad line or is
  cut off; sockets run out; a timeout is not set.
- *Octets.*  Names and records are cut from packets by offsets that the packet itself
  gives, and put together again, in arrays whose length nobody looks at.
- *Ends.*  Every request should end, and so should the shutdown, which runs inside a
  signal handler on the thread that has to print what it logs.

What makes each component correct:

- cache: counter, list and index agree; no released cell is read; a lookup returns a
  record of its question; what is kept and what is evicted is that of a bounded
  least-recently-used store;
- requests: each is in one place and replied to once at most, with records of its own
  questions and counts that fit; each ends; new rules take effect at once;
- rules: what is served is what a version of the file says that can be read as a
  whole; no trie is used after it was
  freed or leaked; a name that always has a rule never lacks one; a repaired file is
  served in the end; the polling thread can be stopped anywhere;
- trie: a map from words to data;
- packets: upstream is asked the client's question, and the reply reads back as the
  question and the records found;
- threads: both sockets are read; what was received is finished and what was logged is
  printed before the process ends; nothing is used after it was released; a SIGINT ends
  the process.

The hazards, each at its line and with the properties that cover it, are in
`PROJECT.json`.

## 2. The modules

| Module | Models | |
|---|---|---|
| `LruCache` | what the cache promises | abstract specification: a sequence of records, no pointers |
| `DnsCache` | `cache.c` | cells with addresses, list, trie as a map, counter |
| `MCDnsCache` | | instances for TLC |
| `DnsCacheProofs` | | invariants of `DnsCache`, those of the index when the cache never fills, and that it implements `LruCache`, full or not |
| `Relay` | `dns.c`, `handler.c` | workers over `DnsCache`, upstream, reload |
| `MCRelay` | | instances for TLC |
| `RelayProofs` | | types, where a request is, its reply, the rules it is resolved by, and that replies are about their questions |
| `RuleTable` | what the rules promise | abstract specification: one table, lookups and reloads in one step |
| `FileRules` | `filerules.c` | poller, readers, two tries, file |
| `MCFileRules` | | instances for TLC |
| `FileRulesProofs` | | invariants of `FileRules`, and that it implements `RuleTable` |
| `Server` | `main.c`, `logger.c`, `handler.c` | all threads from start to end |
| `MCServer` | | instances for TLC |
| `ServerProofs` | | types, no use after release, the log, the signal, what becomes of requests |
| `Trie` | `trie.c` | nodes as words, operators only |
| `TrieProofs` | | the trie is a map |
| `DnsWire` | conversions of `dns.c`, `util.c` | octets to names, records and back, operators only |
| `Packets` | `dns.c` on octets | one request through `DnsWire` and `Trie` |
| `MCPackets` | | the instance for TLC |
| `PacketsProofs` | | the rules decide, for any datagram and any file |
| `PacketsSectionsProofs` | | where the server's packet is cut, and the time to live taken from it |
| `PacketsQueryProofs` | | the query names what the client's datagram names; types; what is undefined |

Operators whose comment says *mutant* are wrong on purpose: each replaces the
definition it is a mutant of, one at a time, to confirm that a property notices.

**DnsCache.**  `cell[a]` is the `GList` node at address `a` with its `DnsAnswer` (they
are allocated and released together), `mru` the list, `trie` the map from keys to
cells, `cached` the counter.  All of a function runs under `cache_mutex`, so a call is
one step: `Match` is `match_cacherules` (`Hit`, `Expire`, `Miss` by outcome) and
`Insert` is `insert_cache` (`InsertNew`, `InsertReplace`, `InsertEvict`,
`InsertIgnored` by branch).  `g_list_prepend` may return any free address, the one
just released included.  Where the code would read a released or the NULL cell,
or the key of a long name (`LongNames`, more than 250 characters) overflows its array,
`MatchUndefined` and `InsertUndefined` set `status` to `"undefined"` and the run stops.
A trie key is the name behind one token for the type, for `sprintf("0000A%s")` and its
like; since a name may begin with that token too, plain names and keys overlap, which
matters for eviction.  `Record.question` holds the type as well, which the C struct
does not: it is there for the properties, and the code's own `qname` is its field
`qname`.

**LruCache.**  The store has no trie, pointers or counter.  A lookup returns the record
of its question; an insertion replaces the record of its own question while there is
room, and otherwise the last record of the order of use goes.  The code does that
exactly for every question its index is right about, and not for the others, since an
eviction clears the wrong entry.  The store says which these may be: a question is
*lost* when its record is evicted, when it clashes with the evicted one (its key is the
evicted plain name), when it gets a second record in a full store, or when a call for a
lost question removes its record instead; a call for a lost question may reach any
record or none.  Nothing else is left open: the size, who goes, the order, and what a
call for a question that was never lost returns.  `Astray` maps the code's state to the
lost questions: those for which the trie does not lead to the one cell of the list that
holds their record.

**Relay.**  A worker's `pc` stands for the place between two accesses to something
shared: `rules` (`match_filerules`), `cache` (`match_cacherules`), `id`, `send`,
`recv`, `insert` (`insert_cache`), then `reply` or `fail`.  The cache is the one of
`DnsCache`, whose variables are shared by name.  `Deliverable` is the network: any
answer to the worker's query, any number of times, or packets with another id or that
are no responses.  (The socket takes packets from any sender; that nobody else guesses
the id is assumed, and no socket is reused, since none is ever closed.)  Discarding a
packet changes nothing, hence is a stuttering step.
An answer is reduced to the question it is about, its two counts and its length;
`fresh` is a history variable.  `ReplyRoom` is the 512 octets of a reply, in
the unit of `len`.

**FileRules.**  The file is a sequence of words, as `fscanf` sees it: pairs of an
address and a name, up to a pair whose address no `inet_pton` takes.  One that was cut
off may end behind an address; `fscanf` then returns 1, the loop ends as at the end of
the file, and the pairs before are published (`Pairs`, `Readable`).  `trie[t]` is the
contents of the trie allocated at `t`.  The poller's `pc` runs through `check`
(`pthread_testcancel`), `open`, `read`, `lock`, `swap`, `unlock`, `free`, `sleep`; a
reader's through `search`, `copy`, `unlock`, because a lookup copies the resource
through a pointer into the trie while it holds the mutex.  Cancellation takes effect at
`pthread_testcancel`, in `fopen` and the reads, and in `sleep`; not in
`pthread_mutex_lock`, which is no cancellation point.  `Service` maps it to `RuleTable`:
the table in service is the contents of the front trie, a reader holds an answer from
the moment it has copied the resource, and only what a version says that can be read is
ever published.

**Server.**  `main` is where the main thread is, from the registration of the handler of
SIGINT on: `init` allocates and pushes its message (`"greet"`, `"greeting"`), then
`run_logger` pops, prints and frees.  The places where it has the mutex of the log queue
(`Queueing`) and those where it is in `malloc`, `free` or `printf` (`Allocating`) are
places of their own, because `graceful_shutdown` (`shutdown`) runs on the same thread and
interrupts it anywhere: while it runs, no action of `Main` is enabled.  Every function it
calls allocates or frees.  If main was in one of `Allocating`, C leaves open what that
does, so the shutdown may go on there or make `status` `"unsafe"` (`AllocateAgain`).
No other thread keeps that mutex between two of its steps, so `LogMutexFree` looks at
`main` only.  `handler` goes through `run_handler` call by call; `fd` has the descriptors
the kernel gives to the two sockets and to the rules file, the lowest free one each
time, since what `select` looks at depends on them.  A worker is reduced to the modules
it uses (`Uses`), the poller to its descriptor, its log lines and its cancellation.
`freed` is what the shutdown has released; using any of it makes `status`
`"undefined"`.  `debug_level` is 2, at which all messages are logged.

**Trie, DnsWire, Packets.**  A trie node is the word that leads to it; `search_trie`
needs every node on the way and a leaf at its end.  `DnsWire` has one operator per
conversion, named for the C function, on sequences of octets with offsets from 0; the
loops are folds and recursive functions; reading a name takes no more steps than the
packet has octets, so it ends on every packet.  What the program writes while it reads a
name is counted beside it (`QnameLen`): a name that does not fit the 256 octets of its
array, contains itself (the C function calls itself for ever and writes on and on) or
leaves the packet, and the root name, whose end is written in front of the array, do not
fit (`NameFits`), and parsing one is undefined behaviour, in the client's datagram
(`QuestionsFit`) as in the server's (`NamesFit`).  `Packets` drives them: the client's
datagram is parsed, each question goes to the rules or upstream, whose packet is parsed
in turn, and the reply is put together in `reply_buf`.  The octets of the datagram and
of the upstream packet are built from records by `ClientPacket` and `UpstreamPacket`,
which are external; `WireRecord` and `NameInPacket` are what the program relies on in
the server's records and the client's names.  The properties read the program's packets
back with a reader of their own (`Name`, `RecordAt`), which goes by labels and
`rdlength` as the protocol does and shares no name reading with the code.  A label with
a dot in it, which the protocol allows, is two labels to the program (`HasDot`):
`QueryAsksTheQuestion` and `ReplyReadsBack` except it, and fail without the exception.
Names that `dns_parse_qname` returns are upper-cased where the code does so, and the
letters of a trie are octets, so a letter without a child is undefined behaviour, in a
question (`SearchOutside`) and in the rules (`RulesFit`), and so is a name that is too
long for the key of the cache (`KeyFits`).  `Receive` takes answers of up to `BufLen`
octets only: a query without EDNS, as the program's are, is answered with 512 at most,
so `recvfrom` cuts nothing off.

## 3. The runs

| Run | Asks | Bounds |
|---|---|---|
| `cache_accounting` | `TypeOK`, `CountsItsCells`, `ListOwnsCells`, `ImplementsLru` | size 2, 2 overlapping names and a long one, 3 types of which one is not cached, 3 addresses, 1 tick |
| `cache_unfilled` | `IndexMatchesList`, `NeverUndefined`, `AnswersItsQuestion` | size 5 for 4 questions, 5 addresses, 2 ticks |
| `relay` | `TypeOK`, `EachRequestInOnePlace`, `OneReply`, `RecordsMatchQuestions`, `ReloadTakesEffect`, `FinishesWithSockets` | 2 workers, 2 requests of 1 or 2 questions, 2 ids, 3 sockets, 1 tick |
| `rules_reload` | `NeverUndefined`, `LookupIsCurrent`, `OnlyReadableServed`, `NoTrieLeaks`, `NoGapInService`, `StableVersionIsServed`, `ShutdownEnds`, `ImplementsRuleTable` | 2 readers, 2 names, 4 versions of the file or none, 3 addresses |
| `server` | `NothingUsedAfterFree`, `AcceptedAreFinished`, `LogInOrder`, `LogIsDrained`, `CaughtInTheQueueNeverEnds`, `ShutdownEnds`, `OrderedSocketsAreRead` | 1 worker, a request to each socket, descriptors from 3, 1 queued error of the poller |
| `packets` | `QueryAsksTheQuestion`, `SectionsAreCut`, `TtlIsLeast`, `RulesDecide`, `ReplyReadsBack`, `UndefinedNeedsOddity` | 22 messages, 7 files of rules, 12 upstream answers, lengths a sixth of the code's |
| `cache_duplicate`, `relay_timeout`, `relay_sockets`, `relay_evict`, `relay_counts`, `server_select` | one property each, violated | as small as shows it |

Why the bounds are enough for the cases that matter:

- `cache_accounting` fills the cache and evicts with a stale entry left behind, with
  one that happens to be cleared (the plain name of `<<"A", "x">>` is the key of `"x"`
  of type A), and reaches undefined behaviour; after it nothing more is said.  So
  `ImplementsLru` is checked where the store is full, evicts and loses questions.  One
  address more than the size lets a cell move to fresh memory, reuse a released
  address or, with a stale entry, be reached from two keys.
- `cache_unfilled` is the instance of the assumption under which the theorems of
  section 4 hold: no eviction happens, expiry and replacement do, and a record may be
  old when it is inserted.  A time to live of 1 and two ticks let a record be fresh,
  time out, be replaced and time out again.
- `relay`: two workers and two requests are enough for two misses of one question,
  ids that wrap to a value still in use (2 ids for up to 4 queries), an insert after
  the other worker's, a reload between any two steps, and, with three sockets, one
  query too many.  The messages have one question, two, or are themselves responses;
  the upstream records fit the reply alone but not twice, or are of an unknown type.
- `rules_reload`: three addresses are one more than the front and the back trie, so a
  freed trie can be told from the next one.  The versions have one rule, several with a
  repeated name, these cut off behind an address, and a bad pair behind a good one.  The
  file changes any number of times.
- `server`: two requests, one to each socket, let `select` report both, one be with the
  worker while the other is in the queue or in a socket, and SIGINT come at each of
  these moments.  A second worker would only repeat what the first does; the proofs
  allow any number.  `MaxErrors` bounds the queue: the poller, which could log an error
  on every reading, does not while another message waits.  `FirstFd` is 3, behind the
  standard streams, so the poller's file can take the descriptor before, between and
  behind those of the sockets.
- `packets`: names of two labels in either case, compressed behind a question and within
  an answer, the root, a letter without a place in the trie, a label with a dot, names
  that just fit and just do not fit the key of the cache and the array for a name, and
  names that contain themselves; every type the code knows and one it does not, in
  questions and in records; rules that block, repeat a name in another case, have a
  longer name, an odd letter or one word too long; answers with and without records,
  authority and additional sections; a message without questions.  `BufLen`, `ReplyRoom`
  and `MaxDomainLen` are 170, 85 and 43 for 1024, 512 and 256, so that a reply of two
  questions can be too long and can leave the array.

The clock is bounded by `MaxTime`, which only stops `Tick`.  Deadlock is not checked:
the requests of a run are finite, and after `free_cache`, `free_filerules`, the end of
the process or undefined behaviour nothing happens.

What the violated properties show (details under "findings" in `PROJECT.json`):

- `relay_timeout`: the default timeout of 5000 ms does not fit `tv_usec`, the call
  that sets it fails unnoticed, and a lost packet keeps its worker for ever.
- `relay_sockets`: sockets are never closed, and a query without one loops for ever.
- `relay_evict`: an eviction does not clear the index, and a client is answered with
  another question's records.
- `cache_duplicate`: a full cache holds one question twice.
- `relay_counts`: if a later question fails, the header counts answers that are not in
  the reply.
- `server_select`: `maxfdp` is one too small when the IPv4 socket has the larger
  descriptor, which happens if the rules file is open while the first socket is created
  and closed when the second is; the IPv4 socket is then never read.

Two findings come from properties that hold.  `CaughtInTheQueueNeverEnds` (run `server`,
and a theorem) says that a SIGINT which finds main with the mutex of the log queue leaves
a process that never ends; `ShutdownEnds` says that everywhere else the shutdown ends,
under the conditions that the next paragraph names.
`StableVersionIsServed` (run `rules_reload`) takes a file that was cut off behind an
address for one that can be read, as the code does: it goes into service, up to the rule
before.

*Fairness.*  `Relay`: weak fairness for each worker's own steps; its threads are
scheduled by the system, and `cache_mutex` and `id_mutex` are held for one step only.
No packet need ever arrive, so nothing is assumed of `Receive`; that `Timeout` is
among the fair steps assumes that strays, each of which restarts the wait, do not come
for ever.  `FileRules`: weak fairness for the poller, for a lookup that has started
and for `free_filerules`.  Nothing is assumed about who gets the mutex (POSIX promises
nothing), which is why `StableVersionIsServed` asks that lookups leave it alone in the
end, and why `ShutdownEnds` needs no such clause: the workers are gone by then.
`Server`: weak fairness for each thread that the system schedules; strong fairness for
the receiving thread and for a worker's log message, because both wait for the mutex of
the log queue, which main takes and gives back for ever: a waiter that is awake
infinitely often while the mutex is free gets it in the end.  Nothing is
assumed of a worker that asks upstream: by default it has no timeout, and without
sockets it does not come back at all (`relay_timeout`, `relay_sockets`), so
`ShutdownEnds` has as a premise that the workers do.  A SIGINT
within `malloc`, `free` or `printf` may end as `"unsafe"`.  No client need send, and no
SIGINT need come.

## 4. The theorems

`DnsCacheProofs`, from `CacheAssumption` alone (any sizes, any names, any heap, a
`CacheSize` of zero or less included):

- `TypeCorrect`: `Spec => []TypeOK`;
- `CounterCorrect`: `Spec => []CountsItsCells`;
- `ListOwnership`: `Spec => []ListOwnsCells`;
- `CacheImplementsLru`: `Spec => ImplementsLru`.

The first three follow from one inductive invariant, their conjunction.  None is inductive
without the others: that the counter stays the length of the list needs each cell to
be listed once (`RemoveFirst` shortens the list by exactly one only then), and that
needs a prepended cell to have been free, which is ownership.  Expiry and
replacement remove the cell the trie leads to; that this cell is in the list is not an
invariant of the trie (an eviction breaks it) but follows from ownership, because the
step is taken only where the cell is allocated.  This is why the accounting
survives the eviction that `relay_evict` shows to be wrong.

The refinement takes what the list's cells hold, in the order of the list, for the store
of `LruCache`, and the questions that are `Astray` for the lost ones.  Ownership is the
only invariant it needs: a cell that the trie leads to and that is allocated is in the
list, so unlinking it, prepending another, whichever address is reused, and evicting the
last one do the same to the store.  For a question that is not astray that cell is the
one with its record, which makes the calls for it exact; and step by step no other
question goes astray than `LruCache` allows: an entry is overwritten or cleared for the
question called, for the evicted name read as a key (`Clashes`), and a cell changes
hands only when its record left the store.

With `SmallWorkingSet` added: the cacheable questions are fewer than `CacheSize`, and
none of their names is long.

- `IndexCorrect`: `Spec => []IndexMatchesList`;
- `NoUndefinedBehaviour`: `Spec => []NeverUndefined`;
- `AnswersCorrect`: `Spec => []AnswersItsQuestion`.

The inductive invariant adds the agreement of trie and list to the one above.  Lemma
`KeyInjective` says that two cacheable questions never share a key; `HasRoom` that, as
every listed cell is the one its question leads to, the list is no longer than the set
of questions, so `InsertEvict` is never enabled.  The assumption is needed: without it
the three are false (`relay_evict`), and with `CacheSize` at zero the first insert
already reads the NULL cell.

`FileRulesProofs`, from `FileRulesAssumption` (any readers, names and tries, any
contents of the file):

- `TypesHold`, `TriesAreAllocated`, `AnswersAreCurrent`, `ServedIsReadable`,
  `TwoTriesAtMost`: the five invariants of the run;
- `ServedNamesStay`: the action property `NoGapInService`;
- `Implements`: `Spec => ImplementsRuleTable`.

The inductive invariant adds three things to the five: who is between lock and unlock is
the holder of the mutex, so a copy and a swap exclude each other; where the poller works
on the back trie it is allocated and not the front one; and what it is about to publish
is a version that can be read.  Each needs the next: a lookup's pointer stays valid
because the front trie changes only under the mutex, and the trie freed outside of it is
the back one, which no reader can have found.  The refinement maps `Copy` (or a `Search`
that finds nothing) to `Lookup`, `UnlockRead` to `Leave`, `Swap` to `Publish` and
`FreeFront` to `Close`; every other step stutters, because a reader has an answer only
while it holds the mutex.

`ServerProofs`, from `ServerAssumption` (any requests, any
number of workers, none included):

- `TypesHold`, `FreedIsNotUsed`, `LogIsPrinted`, `SignalInTheQueue`,
  `RequestsAreFinished`, `LogKeepsOrder`: the safety invariants of the run.

`Inv` says which threads are gone at which place of `graceful_shutdown`
(`ThreadsGone`), that what is released is released behind those places
(`ReleasedInOrder`), and that the message which stops the logger is the last of the
queue (`StopIsLast`), which in turn needs that no thread that logs is left when it is
sent.  It is kept by each thread in a lemma of its own.  What becomes of requests adds
`NoneLost`: a request is unsent, in a socket, with the receiving thread, in the pool's
queue, with a worker, or finished; and `Ordered`: where a line about a worker's request
is in the queue, or the request is past the receiving thread, the line that it came is
printed, being printed, or further to the front.

`RelayProofs`, from `NullAssumption` (the null value is none of the others; any workers,
requests, messages, rules, upstream, cache size and timeout):

- `InOnePlace`: `Spec => []EachRequestInOnePlace`;
- `RepliesOnce`: `Spec => []OneReply`;
- `NewRulesApply`: `Spec => []ReloadTakesEffect`.

The proofs take nothing from the cache: an answer may be anything it returns, so they
hold also where `relay_evict` shows the answer to be another question's.  The invariant
has a request in one place at most (`Apart`: queue, workers and `finished` exclude each
other) and in one at least (`NoneLost`); that a reply is only behind a finished request
follows from the first, since whoever finishes one holds it alone.  For the rules it adds
that a worker whose request was taken after the reload is served by the new ones from
then on (`FreshIsReloaded`), because the reload is never undone.  The twelve steps of a
worker are three cases: it takes a request, it works (`Works`: the request stays, an
answer is collected or none), it finishes.

The second part of the module adds what the relay gets from its cache, from the
assumptions of `Relay` (`NullAssumption`, `MessagesAssumption`, `UpstreamAssumption`,
`BoundsAssumption`, `CacheAssumption`: the constants have the types that the messages,
records, bounds and rules of the code have, and `CacheSize` may be any integer):

- `TypesHold`: `Spec => []TypeOK` of `Relay`, the answers a worker collects and the
  replies sent included;
- `RepliesMatch`: `Spec => []RecordsMatchQuestions`, with `SmallWorkingSet`.

Relay's `Cache` and the instance `Room` of `DnsCacheProofs` are first shown to be the
same module.  `DnsCacheProofs` states what one call of `match_cacherules` or
`insert_cache` keeps, whatever its caller does (`CallAccounting`, `CallIndex`), so their
invariants hold under any interleaving of the workers' calls.  That the answers match is
then kept by an invariant on both sides of the cache: a worker that asked upstream has
its question still, what was fetched is a record of that question, every record in the
cache is a record of its own question, and what is collected is, item by item, a record
of the question at the same place (`Genuine`).  `SmallWorkingSet` is needed, as
`relay_evict` shows with a cache that fills; the instance of the run `relay` satisfies
it.

`PacketsProofs`, from the assumptions of `Packets` (`NullAssumption`,
`FilesAssumption`, `MessagesAssumption`: names, addresses and datagrams are octets; any
length, any compression, names that contain themselves, any file and any answers):

- `LastRuleDecides`: `Spec => []RulesDecide`.

What a name in a datagram is read as, what the trie holds once the file is read and
what is sent back are recursive functions, whose existence has to be shown first
(`Recursion`: there is a function that unrolls a definition step by step, if the step
stays in a set) and about which an induction is needed.  The induction theorems of the
library take a predicate, which the provers cannot instantiate; `SetInduction` and `UpTo`
say the same of a set of numbers.  With them `ParsedName` and `ParsedQuestions` show that
what is parsed are octets, and `RulesSay` that the trie built line by line from the file
has, under each name, the address of the last line that has it: `TrieProofs` carries
each line (`SearchAfterInsert`), with the words already there and those that are a part
of another untouched.  `AddressIsLast` finds the address at the end of the record that
`dns_resource_to_buf` makes of it.  The invariant (`RulesFollowed`) says of each answer
collected that it has a source exactly if no line has its name; while a query is under
way, that no line has the name of the question that is up.

`PacketsSectionsProofs`, with `AnswersAssumption` added: the server's records are well
formed (`WireRecord`: names of labels behind their lengths up to the root or to an
offset, whose meaning does not matter, and data as the record's type has them), types and
lengths fit their two octets, and no time to live is above 2^31 - 1, as RFC 2181 has it;
of any number and any types.

- `SectionsCut`: `Spec => []SectionsAreCut`;
- `LeastTtl`: `Spec => []TtlIsLeast`.

Neither `rdlength` nor the end of the packet tells `dns_query` where it is, so both rest
on its having moved past each record by exactly its length.  `Placed` says that a part of
a packet lies at an offset; from there a name is passed by its own length, compressed or
not (an induction over its labels), data by their type (`SkipData`, `SkipSoa`), hence a
record by what `RecordBuf` laid down.  The loops unroll to one step a record, and
a section, which is its records joined, is passed record by record
(`AnswersRead`, `AuthorityRead`), while the time to live is the least of those already
passed (`LeastOf`).  `SectionsKept` is the invariant, together with `RulesFollowed`: what
was collected is cut so, and a query under way has at least a header, behind which the
server's records begin.

`PacketsQueryProofs`, first from `MessagesAssumption` and `FilesAssumption` (any datagram,
with any names in it):

- `ClientsQuestionAsked`: `Spec => []QueryAsksTheQuestion`.

Three readers of a name meet here: `dns_parse_qname` on the client's datagram, which makes
one string with dots of it, `dns_to_qname`, which makes labels of that string, and the
properties' own reader (`Name`, `PastName`), on the datagram and on the query.
`NameReadBack` says that on both it reads the same labels: an induction over the labels
left in the datagram, which follows pointers there and none in the query.  Its claim is
about what is left of the string behind each label, up to a last dot that was cut off
(`LastDotDropped`); `LabelWritten` that `dns_to_qname` puts each label's length where the
dot before it was.  `SameEnd` and `QuestionsFound` place the questions, one behind
the other, where the reader finds them.  The invariant (`QuestionsKept`) says of each
question parsed where in the datagram it is, that none has an empty name while the
program is defined, and what the query under way is.

Then, with `AnswersAssumption`, `LengthsAssumption` (what a datagram may hold fits twice
into the array of a reply, as 512 octets do into 1024) and `QuestionsAssumption`: a
client's datagram is not longer than a reply may be, its names are labels behind their
lengths up to the root or, but for the first question's, to an offset, and the fields of
its header are words:

- `PacketsTypeCorrect`: `Spec => []TypeOK`;
- `OnlyOddIsUndefined`: `Spec => []UndefinedNeedsOddity`.

`TypeOK` says that both packets the program makes are octets, so it is about every
number that is put into one.  The counts of the reply's header are sums over the
answers, one octet each at most; they stay words because there are no more answers than
questions and no more than 255 of these, which the length of the datagram limits
(`ClientRead`).  A length in front of a label of the query is the distance between two
dots of the parsed name: that it is an octet holds because no label that is read is
longer than 191 (`DotsNear`), carried through the recursion of `dns_parse_qname`,
pointers included.  The records of an answer fit one octet's count because ten octets of
the packet are needed for each.  The invariant is `PacketsTyped`: it adds where the
questions end, what is known of each question and each answer, and how many there are.

`UndefinedNeedsOddity` names what makes the program undefined: a rule whose name is too
long or has an odd letter, a root name, a letter without a child, a name of more than
252 of the 255 octets it may have in a packet (from there on the key of the cache
overflows), several questions, or a query to which the server *may* answer (there is
such an answer among `Answers`) with a name that does not fit.  That nothing else does
needs three things.  The name of the first question, which has no pointers, is written
with as many characters as it has octets, so it fits (`QuestionsFitting`, from
`QnameWritten`, which unrolls the count of what is written label by label); its letters
are those that the property's own reader finds; and the length of the reply, which is
the datagram and the sections of each answer.  For a single question `RoomKept` says
that the two together end within `BufLen`: the server's packet begins with the query and
was received into an array of that length, and the query is exactly as long as the
datagram, whose first name is not compressed and is read with as many characters as it
has octets (`NameSpans`); a rule's record has the name once more and fourteen octets
behind it.  None of this is in the code, whose check (`dns.c` lines 93-115) comes after
the copy.  Several questions are excepted because there the claim is false: their
answers together may be longer than the array, and the later names may be compressed and
contain themselves.  `RoomKept` is inductive together with `PacketsTyped`,
`QuestionsKept`, `RulesFollowed` and `SectionsKept`.

`TrieProofs`, for any alphabet: `InsertKeepsShape`, and `SearchAfterInsert`: a search
finds what was last inserted under exactly its word, and an insert changes what is found
under no other word.  The cache's and the rules' tries are therefore maps in `DnsCache`
and `FileRules`.

Checked by TLC only: of `Packets`, `ReplyReadsBack`; and all liveness, since the proofs
do not reach ENABLED.  `ReplyReadsBack` compares names read at an offset of two packets
of different lengths, the server's and the reply.  A proof needs what is not assumed:
where the pointers in the server's records lead (`WireName` leaves that open); and then
that the steps `Name` is given, as many as the packet is long, suffice in both, an
induction over the pointers of a name.

## 5. Not modelled, and why

- Datagrams that are not well formed DNS queries, and records whose lengths lie: the
  code checks none of it, so what follows depends on what is in memory.
- A second SIGINT while the first is handled: it is delivered to another thread, which
  joins and frees what is being joined and freed.  POSIX leaves the first of these
  steps undefined, so there is nothing to say of the rest.
- What a worker allocates for itself: the leaks of the early returns (`dns.c` lines
  62-75 and 93-115), and of a resource whose rule is repeated (`trie.c` line 53).
- Where in a word a file is cut off: a part of a word is another word, so such a file is
  a version like any other.
- What happens after undefined behaviour, in particular after a write behind an array
  for a name: `status` says that it is reached, and nothing more.
- The additional records of a reply: they are passed on behind the authority (`Packets`),
  but arcount stays the client's (`dns.c` line 52), which nothing in the modules states.
- The cache in `Packets`: it returns a copy of what was inserted, which `DnsCache` and
  `Relay` are about.  Time to live of upstream failures: no doc says how long one may be
  kept.
- A report of `select` without a datagram behind it, and why `bind` fails: the kernel's.
- Command line, logging text, colours, times in log lines: sequential, output only.
  `str_tolower` has no caller.

## 6. Plan

Done: the modules above: the cache first, because every answer passes through it and
the code's riskiest invariant is there; then requests and the network, the rules, the
threads and their end, and last the octets.

What is left: a proof of `ReplyReadsBack`, with an assumption on where the pointers of
names lead.
