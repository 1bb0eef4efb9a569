------------------------------- MODULE Relay -------------------------------
(***************************************************************************)
(* From a client's datagram to the reply: run_handler, the thread pool,    *)
(* handle_dns_request, dns_resolve and dns_query (src/handler.c, dns.c),   *)
(* over the cache of DnsCache.                                             *)
(*                                                                         *)
(* A step of a worker is what it does between two accesses to something    *)
(* shared: the pool's queue, the rules, the cache (one call, under its     *)
(* mutex), the id counter (under its mutex), the network, the clock.       *)
(*                                                                         *)
(* The network to the upstream server loses, repeats, delays and reorders  *)
(* packets: a worker that waits on its socket may receive, at any time and *)
(* whatever was received before, any answer to the query it sent there, or *)
(* a stray packet.  A packet that dns_query discards changes nothing, so   *)
(* discarding is a stuttering step.  Sockets are never closed, so no two   *)
(* queries of a run share one; only their number is kept.                  *)
(*                                                                         *)
(* The rules are replaced once, at any moment (FileRules models how).      *)
(***************************************************************************)
EXTENDS Integers, Sequences, FiniteSets

CONSTANTS
    Names, LongNames, QTypes, CacheSize, Addr, MaxTime, NULL,   \* of DnsCache
    Workers,    \* the threads of worker_pool
    Requests,   \* the datagrams clients send in a run, by identity
    Messages,   \* what they may contain
    Rules,      \* the address a rule gives to a name or NULL, before (FALSE) and
                \* after (TRUE) the reload
    Upstream,   \* what the records of an upstream packet may be
    IdModulus,  \* 65536, the number of values of the uint16_t id
    Rto,        \* server_config.rto, in milliseconds
    MaxSockets  \* how many sockets dns_query can open before socket() fails

VARIABLES
    now, cell, mru, trie, cached, status,   \* of DnsCache
    reloaded,   \* have the rules been replaced?
    message,    \* what each request contains, NULL until it arrives
    queue,      \* worker_pool's queue of requests
    worker,     \* the locals of each worker
    id,         \* the counter of dns.c
    sockets,    \* how many sockets were opened
    replies,    \* the replies sent for each request, in order
    finished    \* the requests whose args were freed

cacheVars == <<now, cell, mru, trie, cached, status>>
vars == <<now, cell, mru, trie, cached, status, reloaded,
          message, queue, worker, id, sockets, replies, finished>>

Questions == [qname : Names, qtype : QTypes]

\* The record sections of an answer: about which question they are, how many answer and
\* authority records a reply counts for them and how long they are.
Body(q, records) == [about |-> q, an |-> records.an, ns |-> records.ns, len |-> records.len]

Bodies == {Body(q, u) : q \in Questions, u \in Upstream}

Cache == INSTANCE DnsCache WITH
    TTLs <- {u.ttl : u \in Upstream},
    ret <- [question |-> NULL, record |-> NULL]

-----------------------------------------------------------------------------
\* The address that blocks a name.
Blocked == "0.0.0.0"

\* The answer built from a rule is one record of type A, whatever was asked.
RuleBody(q) ==
    [about |-> [qname |-> q.qname, qtype |-> "A"], an |-> 1, ns |-> 0, len |-> 1]

\* What a worker collects for a question.
Answer == [about : [qname : Names, qtype : QTypes \cup {"A"}],
           an : Nat, ns : Nat, len : Nat]

\* What a reply can carry behind its questions, in the unit of body.len: the
\* 512 octets that handle_dns_request sends at most.
ReplyRoom == 3

\* tv.tv_usec = 1000 * rto with tv.tv_sec = 0.  setsockopt refuses a tv_usec of a
\* second or more, and takes 0 for no timeout; its result is not looked at.
TimeoutIsSet == 1000 * Rto \in 1..999999

\* fresh is a history variable: the rules had been replaced when the request was taken.
Idle == [pc |-> "idle", job |-> NULL, fresh |-> FALSE, answers |-> <<>>,
         qid |-> NULL, fetched |-> NULL]

ASSUME NullAssumption == NULL \notin Requests \cup Messages /\ NULL # Blocked

ASSUME MessagesAssumption ==
    \A m \in Messages : m.qr \in {0, 1} /\ m.questions \in Seq(Questions)

ASSUME UpstreamAssumption ==
    \A u \in Upstream : /\ u.an \in Nat /\ u.ns \in Nat /\ u.len \in Nat
                        /\ u.ttl \in Nat /\ u.known \in BOOLEAN

ASSUME BoundsAssumption == IdModulus \in Nat \ {0} /\ MaxSockets \in Nat

\* 1000 * Rto is an int.
ASSUME RtoAssumption == Rto \in 0..2147483

\* What DnsCache assumes of its constants.
ASSUME CacheAssumption ==
    /\ LongNames \subseteq Names /\ Names \subseteq Seq(STRING) /\ QTypes \subseteq STRING
    /\ CacheSize \in Int /\ MaxTime \in Nat
    /\ NULL \notin Addr /\ NULL \notin Cache!Record

Init ==
    /\ Cache!Init
    /\ reloaded = FALSE
    /\ message = [r \in Requests |-> NULL]
    /\ queue = <<>>
    /\ worker = [w \in Workers |-> Idle]
    /\ id = 0
    /\ sockets = 0
    /\ replies = [r \in Requests |-> <<>>]
    /\ finished = {}

\* The questions of the request w works on, and the one it is resolving.
Asked(w) == message[worker[w].job].questions
Current(w) == Asked(w)[Len(worker[w].answers) + 1]

\* Where the loop over the questions of message m is once n of them are answered.
Continue(m, n) == IF n < Len(m.questions) THEN "rules" ELSE "reply"

Goto(w, pc) == worker' = [worker EXCEPT ![w].pc = pc]

\* dns_resolve returned an answer; handle_dns_request appends it and goes on.
Answered(w, body) ==
    worker' = [worker EXCEPT
                 ![w].answers = Append(@, body),
                 ![w].pc = Continue(message[worker[w].job], Len(worker[w].answers) + 1),
                 ![w].qid = NULL,
                 ![w].fetched = NULL]

-----------------------------------------------------------------------------
\* run_handler: a datagram arrives on either socket and goes to the pool.
Arrive(r, m) ==
    /\ message[r] = NULL
    /\ message' = [message EXCEPT ![r] = m]
    /\ queue' = Append(queue, r)
    /\ UNCHANGED <<cacheVars, reloaded, worker, id, sockets, replies, finished>>

\* A thread of the pool takes the next request.
Take(w) ==
    /\ worker[w].pc = "idle"
    /\ queue # <<>>
    /\ LET r == Head(queue) IN
       /\ message[r].qr = 0
       /\ worker' = [worker EXCEPT ![w].job = r,
                                   ![w].fresh = reloaded,
                                   ![w].pc = Continue(message[r], 0)]
    /\ queue' = Tail(queue)
    /\ UNCHANGED <<cacheVars, reloaded, message, id, sockets, replies, finished>>

\* Mutant of TakeResponse: the request is not freed.
TakeResponseOnly(w) ==
    /\ worker[w].pc = "idle"
    /\ queue # <<>>
    /\ message[Head(queue)].qr = 1
    /\ queue' = Tail(queue)
    /\ UNCHANGED <<cacheVars, reloaded, message, worker, id, sockets, replies, finished>>

\* A datagram that is itself a response is freed at once.
TakeResponse(w) ==
    /\ worker[w].pc = "idle"
    /\ queue # <<>>
    /\ message[Head(queue)].qr = 1
    /\ queue' = Tail(queue)
    /\ finished' = finished \cup {Head(queue)}
    /\ UNCHANGED <<cacheVars, reloaded, message, worker, id, sockets, replies>>

\* Mutant of MatchRules: a name that is in the cache is not looked up in the rules.
MatchRulesUncached(w) ==
    /\ worker[w].pc = "rules"
    /\ LET q == Current(w)
           address == IF Cache!Lookup(q) = NULL THEN Rules[reloaded][q.qname] ELSE NULL
       IN  \/ /\ address = Blocked
              /\ Goto(w, "fail")
           \/ /\ address \notin {NULL, Blocked}
              /\ Answered(w, RuleBody(q))
           \/ /\ address = NULL
              /\ Goto(w, "cache")
    /\ UNCHANGED <<cacheVars, reloaded, message, queue, id, sockets, replies, finished>>

\* dns_resolve down to match_filerules: an unsupported type and a blocked name
\* fail, a name with an address is answered with it.
MatchRules(w) ==
    /\ worker[w].pc = "rules"
    /\ LET q == Current(w)
           address == Rules[reloaded][q.qname]
       IN  \/ /\ ~Cache!Cacheable(q) \/ address = Blocked
              /\ Goto(w, "fail")
           \/ /\ Cache!Cacheable(q) /\ address \notin {NULL, Blocked}
              /\ Answered(w, RuleBody(q))
           \/ /\ Cache!Cacheable(q) /\ address = NULL
              /\ Goto(w, "cache")
    /\ UNCHANGED <<cacheVars, reloaded, message, queue, id, sockets, replies, finished>>

\* match_cacherules, whose result is a copy of the record.
MatchCache(w) ==
    /\ worker[w].pc = "cache"
    /\ LET q == Current(w) IN
       \/ /\ Cache!Hit(q)
          /\ Answered(w, cell[Cache!Lookup(q)].body)
       \/ /\ Cache!Expire(q) \/ Cache!Miss(q)
          /\ Goto(w, "id")
       \/ /\ Cache!MatchUndefined(q)
          /\ UNCHANGED worker
    /\ UNCHANGED <<now, reloaded, message, queue, id, sockets, replies, finished>>

\* Mutant of NewId: the counter is wider than the id of a packet.
NewWideId(w) ==
    /\ worker[w].pc = "id"
    /\ worker' = [worker EXCEPT ![w].qid = id, ![w].pc = "send"]
    /\ id' = id + 1
    /\ UNCHANGED <<cacheVars, reloaded, message, queue, sockets, replies, finished>>

\* dns_query_buf_new: the id is read and incremented under id_mutex.
NewId(w) ==
    /\ worker[w].pc = "id"
    /\ worker' = [worker EXCEPT ![w].qid = id, ![w].pc = "send"]
    /\ id' = (id + 1) % IdModulus
    /\ UNCHANGED <<cacheVars, reloaded, message, queue, sockets, replies, finished>>

\* socket, sendto and setsockopt.
Send(w) ==
    /\ worker[w].pc = "send"
    /\ sockets < MaxSockets
    /\ sockets' = sockets + 1
    /\ Goto(w, "recv")
    /\ UNCHANGED <<cacheVars, reloaded, message, queue, id, replies, finished>>

\* socket() fails and nothing is sent.  recvfrom fails as well, with an error that
\* is not a timeout; the packet looked at is then the query itself, which is no
\* response, so the code tries again, for ever.
SendNowhere(w) ==
    /\ worker[w].pc = "send"
    /\ sockets = MaxSockets
    /\ Goto(w, "spin")
    /\ UNCHANGED <<cacheVars, reloaded, message, queue, id, sockets, replies, finished>>

\* The packets that may reach the socket of w: answers to its query, and strays,
\* which have another id or are not responses.
Deliverable(w) ==
    [id : {worker[w].qid}, qr : {1}, question : {Current(w)}, records : Upstream]
    \cup {p \in [id : 0..IdModulus - 1, qr : {0, 1}, question : Questions, records : Upstream] :
             p.id # worker[w].qid \/ p.qr = 0}

\* Mutant of Accepts: any response will do.
AcceptsAny(w, packet) == packet.qr = 1

Accepts(w, packet) == packet.id = worker[w].qid /\ packet.qr = 1

\* recvfrom returns a packet of this query and its records are parsed: one of an
\* unknown type makes dns_query fail.  The answer is dated now and inserted later.
Receive(w) ==
    /\ worker[w].pc = "recv"
    /\ \E packet \in Deliverable(w) :
          /\ Accepts(w, packet)
          /\ \/ /\ ~packet.records.known
                /\ Goto(w, "fail")
             \/ /\ packet.records.known
                /\ worker' = [worker EXCEPT
                     ![w].pc = "insert",
                     ![w].fetched = [question |-> Current(w),
                                     body |-> Body(packet.question, packet.records),
                                     ttl |-> packet.records.ttl,
                                     cached_time |-> now]]
    /\ UNCHANGED <<cacheVars, reloaded, message, queue, id, sockets, replies, finished>>

\* Mutant of Timeout: the receive is tried again.
TimeoutIgnored(w) ==
    /\ worker[w].pc = "recv"
    /\ TimeoutIsSet
    /\ UNCHANGED vars

\* recvfrom gives up after SO_RCVTIMEO.
Timeout(w) ==
    /\ worker[w].pc = "recv"
    /\ TimeoutIsSet
    /\ Goto(w, "fail")
    /\ UNCHANGED <<cacheVars, reloaded, message, queue, id, sockets, replies, finished>>

\* A copy of the answer goes into the cache, and the answer to the client.
InsertCache(w) ==
    /\ worker[w].pc = "insert"
    /\ Cache!InsertStored(worker[w].fetched)
    /\ Answered(w, worker[w].fetched.body)
    /\ UNCHANGED <<now, reloaded, message, queue, id, sockets, replies, finished>>

-----------------------------------------------------------------------------
\* The sum of a field of the answers collected.
Total(answers, field) ==
    LET total[n \in 0..Len(answers)] == IF n = 0 THEN 0 ELSE total[n - 1] + answers[n][field]
    IN  total[Len(answers)]

\* The header of the reply is the client's, with the counts of the answers collected;
\* its body is the questions and the records given.
Reply(w, rcode, records) ==
    [rcode |-> rcode,
     ancount |-> Total(worker[w].answers, "an"),
     nscount |-> Total(worker[w].answers, "ns"),
     records |-> records]

\* The request is freed, and the thread goes back to the pool.
Finish(w) ==
    /\ finished' = finished \cup {worker[w].job}
    /\ worker' = [worker EXCEPT ![w] = Idle]

\* Mutant of ReplyFailure: the loop goes on after the reply.
ReplyFailureAndGoOn(w) ==
    /\ worker[w].pc = "fail"
    /\ replies' = [replies EXCEPT ![worker[w].job] = Append(@, Reply(w, 3, <<>>))]
    /\ Goto(w, "reply")
    /\ UNCHANGED <<cacheVars, reloaded, message, queue, id, sockets, finished>>

\* A question that cannot be resolved ends the request, without the answers to the
\* questions before it.
ReplyFailure(w) ==
    /\ worker[w].pc = "fail"
    /\ replies' = [replies EXCEPT ![worker[w].job] = Append(@, Reply(w, 3, <<>>))]
    /\ Finish(w)
    /\ UNCHANGED <<cacheVars, reloaded, message, queue, id, sockets>>

ReplyAnswers(w) ==
    LET answers == worker[w].answers
        rcode == IF \E i \in DOMAIN answers : answers[i].an = 0 THEN 3 ELSE 0
    IN  /\ worker[w].pc = "reply"
        /\ Total(answers, "len") <= ReplyRoom
        /\ replies' = [replies EXCEPT ![worker[w].job] = Append(@, Reply(w, rcode, answers))]
        /\ Finish(w)
        /\ UNCHANGED <<cacheVars, reloaded, message, queue, id, sockets>>

\* Answers that do not fit are dropped, without a reply.
DropAnswers(w) ==
    /\ worker[w].pc = "reply"
    /\ Total(worker[w].answers, "len") > ReplyRoom
    /\ Finish(w)
    /\ UNCHANGED <<cacheVars, reloaded, message, queue, id, sockets, replies>>

-----------------------------------------------------------------------------
\* poll_filerules swaps the rules.
Reload ==
    /\ ~reloaded
    /\ reloaded' = TRUE
    /\ UNCHANGED <<cacheVars, message, queue, worker, id, sockets, replies, finished>>

Tick ==
    /\ Cache!Tick
    /\ UNCHANGED <<reloaded, message, queue, worker, id, sockets, replies, finished>>

\* What a worker does by itself, without a packet from upstream.
Step(w) ==
    \/ Take(w) \/ TakeResponse(w)
    \/ MatchRules(w) \/ MatchCache(w)
    \/ NewId(w) \/ Send(w) \/ SendNowhere(w) \/ Timeout(w)
    \/ InsertCache(w)
    \/ ReplyFailure(w) \/ ReplyAnswers(w) \/ DropAnswers(w)

Next ==
    \/ \E r \in Requests, m \in Messages : Arrive(r, m)
    \/ \E w \in Workers : Step(w) \/ Receive(w)
    \/ Reload
    \/ Tick

\* The threads of the pool are scheduled, and a receive that has a timeout
\* times out unless a packet comes first.  No packet need ever come.
Fairness == \A w \in Workers : WF_vars(Step(w))

Spec == Init /\ [][Next]_vars /\ Fairness

-----------------------------------------------------------------------------
(***************************************************************************)
(* Properties                                                              *)
(***************************************************************************)

\* The locals of the workers, the requests and the replies have their types, and
\* the cache, as the workers use it, those of DnsCache.
TypeOK ==
    /\ Cache!TypeOK
    /\ reloaded \in BOOLEAN
    /\ message \in [Requests -> Messages \cup {NULL}]
    /\ queue \in Seq(Requests)
    /\ id \in 0..IdModulus - 1
    /\ sockets \in 0..MaxSockets
    /\ finished \subseteq Requests
    /\ replies \in [Requests -> Seq([rcode : {0, 3}, ancount : Nat, nscount : Nat,
                                     records : Seq(Answer)])]
    /\ \A w \in Workers :
          /\ worker[w].answers \in Seq(Answer)
          /\ worker[w].pc \in {"idle", "rules", "cache", "id", "send", "recv", "spin",
                               "insert", "fail", "reply"}
          /\ worker[w].job \in Requests \cup {NULL}
          /\ worker[w].fresh \in BOOLEAN
          /\ worker[w].qid \in 0..IdModulus - 1 \cup {NULL}
          /\ worker[w].fetched \in Cache!Record \cup {NULL}

\* The workers w and v (or the queue) never hold the same request, and none is
\* lost between run_handler, the pool and handle_dns_request: a request that
\* arrived is in the queue, once, or with one worker, or finished.
EachRequestInOnePlace ==
    \A r \in Requests :
        LET queued == Cardinality({i \in DOMAIN queue : queue[i] = r})
            working == Cardinality({w \in Workers : worker[w].job = r})
            done == IF r \in finished THEN 1 ELSE 0
        IN  queued + working + done = IF message[r] = NULL THEN 0 ELSE 1

\* No request is replied to twice, or before handle_dns_request is done with it, and
\* no datagram that is a response is.
OneReply ==
    \A r \in Requests :
        /\ Len(replies[r]) <= 1
        /\ replies[r] # <<>> => r \in finished /\ message[r].qr = 0

\* The records of a reply are about its questions, in their order, through the
\* rules, the cache and the network alike, whatever the other workers ask for.
\* (A rule answers with a record of type A whatever the type asked for.)
RecordsMatchQuestions ==
    \A r \in Requests : \A i \in DOMAIN replies[r] :
        LET records == replies[r][i].records
            asked == message[r].questions
        IN  records # <<>> =>
               /\ Len(records) = Len(asked)
               /\ \A k \in DOMAIN records :
                     \/ records[k].about = asked[k]
                     \/ records[k] = RuleBody(asked[k])

\* A request taken after a reload is answered by the new rules, although the cache
\* may hold, and other workers may still insert, upstream answers obtained under
\* the old ones: what its worker collects, asks upstream and replies complies.
ReloadTakesEffect ==
    \A w \in Workers : worker[w].fresh =>
        LET answers == worker[w].answers
            rule(q) == Rules[TRUE][q.qname]
        IN  /\ \A k \in DOMAIN answers :
                  /\ rule(Asked(w)[k]) # Blocked
                  /\ rule(Asked(w)[k]) # NULL => answers[k] = RuleBody(Asked(w)[k])
            /\ worker[w].pc \in {"cache", "id", "send", "recv", "spin", "insert"} =>
                  rule(Current(w)) = NULL

\* Every request that arrives is finished, whatever the network loses, because a
\* worker waits for upstream no longer than the timeout that was configured
\* (args.c line 53, dns.c line 242) and a query that fails returns NULL (dns.h
\* line 164).
EveryRequestFinishes ==
    \A r \in Requests : message[r] # NULL ~> r \in finished

\* The same as long as no worker found the process out of sockets.
FinishesWithSockets ==
    \A r \in Requests :
        message[r] # NULL ~> r \in finished \/ \E w \in Workers : worker[w].pc = "spin"

\* The answer and authority records counted in the header of a reply are those behind
\* it, whichever of its questions fails (include/dns.h lines 36 and 37: "number of
\* answer entries", "number of authority entries").
CountsMatchRecords ==
    \A r \in Requests : \A i \in DOMAIN replies[r] :
        LET reply == replies[r][i] IN
        /\ reply.ancount = Total(reply.records, "an")
        /\ reply.nscount = Total(reply.records, "ns")
=============================================================================
