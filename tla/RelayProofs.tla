---------------------------- MODULE RelayProofs ----------------------------
(***************************************************************************)
(* What Relay keeps for any number of workers and requests, any messages,  *)
(* rules and upstream, and any cache, a cache that goes wrong included:    *)
(* where a request is, how often it is replied to, and by which rules.     *)
(*                                                                         *)
(* In this part nothing is said of what the cache returns: an answer may   *)
(* be anything.  The second part is about the types, of the answers too,   *)
(* and the third about a cache with room for every question.               *)
(***************************************************************************)
EXTENDS Relay, FiniteSetTheorems, WellFoundedInduction, TLAPS

IsSequence(s) == s \in Seq({s[i] : i \in DOMAIN s})

\* The locals of a worker, field by field.
LocalsOf(pc, job, fresh, answers, qid, fetched) ==
    [pc |-> pc, job |-> job, fresh |-> fresh, answers |-> answers,
     qid |-> qid, fetched |-> fetched]

IsLocal(l) == l = LocalsOf(l.pc, l.job, l.fresh, l.answers, l.qid, l.fetched)

\* Each worker has its locals; a thread of the pool that is idle has none.
Locals ==
    /\ worker = [w \in Workers |-> worker[w]]
    /\ \A w \in Workers :
          LET l == worker[w] IN
          /\ IsLocal(l)
          /\ l.pc = "idle" => l.job = NULL /\ l.answers = <<>> /\ l.fresh = FALSE
          /\ l.pc # "idle" => l.job \in Requests
          /\ IsSequence(l.answers)

\* A request is in one place at most...
Apart ==
    /\ message \in [Requests -> Messages \cup {NULL}]
    /\ queue \in Seq(Requests)
    /\ finished \subseteq Requests
    /\ \A r \in finished : message[r] # NULL
    /\ \A i \in 1 .. Len(queue) :
          /\ message[queue[i]] # NULL /\ queue[i] \notin finished
          /\ \A j \in 1 .. Len(queue) : queue[i] = queue[j] => i = j
          /\ \A w \in Workers : worker[w].job # queue[i]
    /\ \A w \in Workers : worker[w].pc # "idle" =>
          /\ worker[w].job \notin finished
          /\ message[worker[w].job] \in Messages /\ message[worker[w].job].qr = 0
          /\ \A v \in Workers : worker[v].job = worker[w].job => v = w

\* ... and in one at least, once it arrived.
Somewhere(r) ==
    \/ r \in finished
    \/ \E i \in 1 .. Len(queue) : queue[i] = r
    \/ \E w \in Workers : worker[w].job = r

NoneLost == \A r \in Requests : message[r] # NULL => Somewhere(r)

\* Only what is finished was replied to.
RepliedAtEnd ==
    /\ replies = [r \in Requests |-> replies[r]]
    /\ \A r \in Requests :
          \/ replies[r] = <<>>
          \/ Len(replies[r]) = 1 /\ r \in finished /\ message[r].qr = 0

\* The rules in service are the new ones for whoever took its request under them.
FreshIsReloaded ==
    /\ reloaded \in BOOLEAN
    /\ \A w \in Workers : worker[w].fresh => reloaded = TRUE

\* The places behind a question that the rules have no address for.
Behind == {"cache", "id", "send", "recv", "spin", "insert"}

NewRule(q) == Rules[TRUE][q.qname]

\* What a worker collected for the questions asked, and where it is, comply with the new
\* rules.
Complying(asked, answers, pc) ==
    /\ \A k \in DOMAIN answers :
          /\ NewRule(asked[k]) # Blocked
          /\ NewRule(asked[k]) # NULL => answers[k] = RuleBody(asked[k])
    /\ pc \in Behind => NewRule(asked[Len(answers) + 1]) = NULL

FreshComply ==
    \A w \in Workers :
        worker[w].fresh => Complying(Asked(w), worker[w].answers, worker[w].pc)

Inv == Locals /\ Apart /\ NoneLost /\ RepliedAtEnd /\ FreshIsReloaded /\ FreshComply

-----------------------------------------------------------------------------
\* To a sequence of anything anything can be appended.
LEMMA AppendAnything ==
    ASSUME NEW s, IsSequence(s), NEW x
    PROVE  /\ IsSequence(Append(s, x))
           /\ Len(s) \in Nat /\ DOMAIN s = 1 .. Len(s)
           /\ DOMAIN Append(s, x) = 1 .. Len(s) + 1
           /\ \A i \in 1 .. Len(s) : Append(s, x)[i] = s[i]
           /\ Append(s, x)[Len(s) + 1] = x
<1> DEFINE S == {s[i] : i \in DOMAIN s} \cup {x}
           t == Append(s, x)
<1>1. s \in Seq(S)
  BY DEF IsSequence
<1>2. t \in Seq(S) /\ Len(t) = Len(s) + 1 /\ Len(s) \in Nat
  BY <1>1
<1>3. /\ DOMAIN s = 1 .. Len(s) /\ DOMAIN t = 1 .. Len(s) + 1
      /\ \A i \in 1 .. Len(s) : t[i] = s[i]
      /\ t[Len(s) + 1] = x
  BY <1>1, <1>2
<1>4. t \in Seq({t[i] : i \in DOMAIN t})
  BY <1>2, <1>3
<1> QED
  BY <1>2, <1>3, <1>4 DEF IsSequence

\* What a step of worker w between taking its request and replying to it does: the
\* request stays with it, and it collects an answer or none, from behind the rules only
\* if they have none.
Rule(w) == Rules[reloaded][Current(w).qname]

OnlyWorker(w) ==
    /\ worker' = [v \in Workers |-> worker'[v]]
    /\ \A v \in Workers \ {w} : worker'[v] = worker[v]
    /\ IsLocal(worker'[w])

Collects(w, body) ==
    /\ worker'[w].answers = Append(worker[w].answers, body)
    /\ worker'[w].pc \notin Behind
    /\ \/ worker[w].pc \in Behind
       \/ body = RuleBody(Current(w)) /\ Rule(w) \notin {NULL, Blocked}

Works(w) ==
    /\ UNCHANGED <<reloaded, message, queue, replies, finished>>
    /\ OnlyWorker(w)
    /\ worker'[w].job = worker[w].job /\ worker'[w].fresh = worker[w].fresh
    /\ worker[w].pc # "idle" /\ worker'[w].pc # "idle"
    /\ \/ /\ worker'[w].answers = worker[w].answers
          /\ worker'[w].pc \in Behind => worker[w].pc \in Behind \/ Rule(w) = NULL
       \/ \E body : Collects(w, body)

-----------------------------------------------------------------------------
(***************************************************************************)
(* The locals of a worker after each kind of assignment to them.           *)
(***************************************************************************)
LEMMA FieldsOfLocals ==
    ASSUME NEW pc, NEW job, NEW fresh, NEW answers, NEW qid, NEW fetched
    PROVE  LET l == LocalsOf(pc, job, fresh, answers, qid, fetched) IN
           /\ IsLocal(l)
           /\ l.pc = pc /\ l.job = job /\ l.fresh = fresh
           /\ l.answers = answers /\ l.qid = qid /\ l.fetched = fetched
BY DEF LocalsOf, IsLocal

LEMMA SetField ==
    ASSUME NEW l, IsLocal(l), NEW x
    PROVE  /\ [l EXCEPT !.pc = x] = LocalsOf(x, l.job, l.fresh, l.answers, l.qid, l.fetched)
           /\ [l EXCEPT !.job = x] = LocalsOf(l.pc, x, l.fresh, l.answers, l.qid, l.fetched)
           /\ [l EXCEPT !.fresh = x] = LocalsOf(l.pc, l.job, x, l.answers, l.qid, l.fetched)
           /\ [l EXCEPT !.answers = x] = LocalsOf(l.pc, l.job, l.fresh, x, l.qid, l.fetched)
           /\ [l EXCEPT !.qid = x] = LocalsOf(l.pc, l.job, l.fresh, l.answers, x, l.fetched)
           /\ [l EXCEPT !.fetched = x] = LocalsOf(l.pc, l.job, l.fresh, l.answers, l.qid, x)
BY DEF LocalsOf, IsLocal

\* Goto.
LEMMA GotoLocals ==
    ASSUME Locals, NEW w \in Workers, NEW pc, Goto(w, pc)
    PROVE  LET l == worker[w] IN
           /\ OnlyWorker(w)
           /\ worker'[w] = LocalsOf(pc, l.job, l.fresh, l.answers, l.qid, l.fetched)
<1> DEFINE l == worker[w]
<1>1. IsLocal(l)
  BY DEF Locals
<1>2. worker'[w] = LocalsOf(pc, l.job, l.fresh, l.answers, l.qid, l.fetched)
  <2>1. worker'[w] = [l EXCEPT !.pc = pc]
    BY DEF Locals, Goto
  <2> HIDE DEF l
  <2> QED
    BY <1>1, <2>1, SetField
<1>3. IsLocal(worker'[w])
  BY <1>2, FieldsOfLocals
<1> QED
  BY <1>2, <1>3 DEF Locals, Goto, OnlyWorker

\* Two locals replaced at once, by NewId and by Receive.
LEMMA ReplaceTwoLocals ==
    ASSUME Locals, NEW w \in Workers, NEW pc, NEW x
    PROVE  LET l == worker[w] IN
           /\ worker' = [worker EXCEPT ![w].qid = x, ![w].pc = pc] =>
                 /\ OnlyWorker(w)
                 /\ worker'[w] = LocalsOf(pc, l.job, l.fresh, l.answers, x, l.fetched)
           /\ worker' = [worker EXCEPT ![w].pc = pc, ![w].fetched = x] =>
                 /\ OnlyWorker(w)
                 /\ worker'[w] = LocalsOf(pc, l.job, l.fresh, l.answers, l.qid, x)
<1> DEFINE l == worker[w]
<1>1. IsLocal(l)
  BY DEF Locals
<1>2. ASSUME worker' = [worker EXCEPT ![w].qid = x, ![w].pc = pc]
      PROVE  /\ OnlyWorker(w)
             /\ worker'[w] = LocalsOf(pc, l.job, l.fresh, l.answers, x, l.fetched)
  <2> DEFINE k == [l EXCEPT !.qid = x]
  <2>1. worker'[w] = [k EXCEPT !.pc = pc]
    BY <1>2 DEF Locals
  <2> HIDE DEF l
  <2>2. k = LocalsOf(l.pc, l.job, l.fresh, l.answers, x, l.fetched)
    BY <1>1, SetField
  <2> HIDE DEF k
  <2>3. /\ IsLocal(k) /\ k.job = l.job /\ k.fresh = l.fresh /\ k.answers = l.answers
        /\ k.qid = x /\ k.fetched = l.fetched
    BY <2>2, FieldsOfLocals
  <2>4. worker'[w] = LocalsOf(pc, l.job, l.fresh, l.answers, x, l.fetched)
    <3>1. [k EXCEPT !.pc = pc] = LocalsOf(pc, k.job, k.fresh, k.answers, k.qid, k.fetched)
      BY <2>3, SetField, Zenon
    <3> QED
      BY <2>1, <2>3, <3>1, Zenon
  <2>5. IsLocal(worker'[w])
    BY <2>4, FieldsOfLocals
  <2> QED
    BY <1>2, <2>4, <2>5 DEF Locals, OnlyWorker
<1>3. ASSUME worker' = [worker EXCEPT ![w].pc = pc, ![w].fetched = x]
      PROVE  /\ OnlyWorker(w)
             /\ worker'[w] = LocalsOf(pc, l.job, l.fresh, l.answers, l.qid, x)
  <2> DEFINE k == [l EXCEPT !.pc = pc]
  <2>1. worker'[w] = [k EXCEPT !.fetched = x]
    BY <1>3 DEF Locals
  <2> HIDE DEF l
  <2>2. k = LocalsOf(pc, l.job, l.fresh, l.answers, l.qid, l.fetched)
    BY <1>1, SetField
  <2> HIDE DEF k
  <2>3. /\ IsLocal(k) /\ k.pc = pc /\ k.job = l.job /\ k.fresh = l.fresh
        /\ k.answers = l.answers /\ k.qid = l.qid
    BY <2>2, FieldsOfLocals
  <2>4. worker'[w] = LocalsOf(pc, l.job, l.fresh, l.answers, l.qid, x)
    <3>1. [k EXCEPT !.fetched = x] = LocalsOf(k.pc, k.job, k.fresh, k.answers, k.qid, x)
      BY <2>3, SetField, Zenon
    <3> QED
      BY <2>1, <2>3, <3>1, Zenon
  <2>5. IsLocal(worker'[w])
    BY <2>4, FieldsOfLocals
  <2> QED
    BY <1>3, <2>4, <2>5 DEF Locals, OnlyWorker
<1> QED
  BY <1>2, <1>3

\* Answered.
LEMMA AnsweredLocals ==
    ASSUME Locals, NEW w \in Workers, NEW body, Answered(w, body)
    PROVE  LET l == worker[w] IN
           /\ OnlyWorker(w)
           /\ worker'[w] = LocalsOf(Continue(message[l.job], Len(l.answers) + 1),
                                    l.job, l.fresh, Append(l.answers, body), NULL, NULL)
<1> DEFINE l == worker[w]
           pc == Continue(message[l.job], Len(l.answers) + 1)
           answers == Append(l.answers, body)
           l1 == [l EXCEPT !.answers = answers]
           l2 == [l1 EXCEPT !.pc = pc]
           l3 == [l2 EXCEPT !.qid = NULL]
<1>1. worker'[w] = [l3 EXCEPT !.fetched = NULL]
  BY DEF Locals, Answered
<1>2. IsLocal(l)
  BY DEF Locals
<1> HIDE DEF pc, answers, l
<1>3. l1 = LocalsOf(l.pc, l.job, l.fresh, answers, l.qid, l.fetched)
  BY <1>2, SetField
<1> HIDE DEF l1
<1>4. /\ IsLocal(l1) /\ l1.job = l.job /\ l1.fresh = l.fresh /\ l1.answers = answers
      /\ l1.qid = l.qid /\ l1.fetched = l.fetched
  BY <1>3, FieldsOfLocals
<1>5. l2 = LocalsOf(pc, l.job, l.fresh, answers, l.qid, l.fetched)
  <2>1. l2 = LocalsOf(pc, l1.job, l1.fresh, l1.answers, l1.qid, l1.fetched)
    BY <1>4, SetField, Zenon
  <2> QED
    BY <1>4, <2>1, Zenon
<1> HIDE DEF l2
<1>6. /\ IsLocal(l2) /\ l2.pc = pc /\ l2.job = l.job /\ l2.fresh = l.fresh
      /\ l2.answers = answers /\ l2.fetched = l.fetched
  BY <1>5, FieldsOfLocals
<1>7. l3 = LocalsOf(pc, l.job, l.fresh, answers, NULL, l.fetched)
  <2>1. l3 = LocalsOf(l2.pc, l2.job, l2.fresh, l2.answers, NULL, l2.fetched)
    BY <1>6, SetField, Zenon
  <2> QED
    BY <1>6, <2>1, Zenon
<1> HIDE DEF l3
<1>8. /\ IsLocal(l3) /\ l3.pc = pc /\ l3.job = l.job /\ l3.fresh = l.fresh
      /\ l3.answers = answers /\ l3.qid = NULL
  BY <1>7, FieldsOfLocals
<1> HIDE DEF l3
<1>9. worker'[w] = LocalsOf(pc, l.job, l.fresh, answers, NULL, NULL)
  <2>1. [l3 EXCEPT !.fetched = NULL]
            = LocalsOf(l3.pc, l3.job, l3.fresh, l3.answers, l3.qid, NULL)
    BY <1>8 DEF IsLocal, LocalsOf
  <2> QED
    BY <1>1, <1>8, <2>1, Zenon
<1>10. IsLocal(worker'[w])
  BY <1>9, FieldsOfLocals
<1>11. OnlyWorker(w)
  BY <1>10 DEF Locals, Answered, OnlyWorker
<1> QED
  BY <1>9, <1>11 DEF pc, answers, l

\* Take: an idle worker gets a request.
Takes(w, r, fresh, pc) ==
    worker' = [worker EXCEPT ![w].job = r, ![w].fresh = fresh, ![w].pc = pc]

LEMMA TakeLocals ==
    ASSUME Locals, NEW w \in Workers, worker[w].pc = "idle", NEW r, NEW fresh, NEW pc,
           Takes(w, r, fresh, pc)
    PROVE  LET l == worker[w] IN
           /\ OnlyWorker(w)
           /\ worker'[w] = LocalsOf(pc, r, fresh, <<>>, l.qid, l.fetched)
<1> DEFINE l == worker[w]
           l1 == [l EXCEPT !.job = r]
           l2 == [l1 EXCEPT !.fresh = fresh]
<1>1. worker'[w] = [l2 EXCEPT !.pc = pc]
  BY DEF Locals, Takes
<1>2. IsLocal(l) /\ l.answers = <<>>
  BY DEF Locals
<1> HIDE DEF l
<1>3. l1 = LocalsOf(l.pc, r, l.fresh, <<>>, l.qid, l.fetched)
  <2>1. l1 = LocalsOf(l.pc, r, l.fresh, l.answers, l.qid, l.fetched)
    BY <1>2, SetField, Zenon
  <2> QED
    BY <1>2, <2>1, Zenon
<1> HIDE DEF l1
<1>4. /\ IsLocal(l1) /\ l1.pc = l.pc /\ l1.job = r /\ l1.answers = <<>>
      /\ l1.qid = l.qid /\ l1.fetched = l.fetched
  BY <1>3, FieldsOfLocals
<1>5. l2 = LocalsOf(l.pc, r, fresh, <<>>, l.qid, l.fetched)
  <2>1. l2 = LocalsOf(l1.pc, l1.job, fresh, l1.answers, l1.qid, l1.fetched)
    BY <1>4, SetField, Zenon
  <2> QED
    BY <1>4, <2>1, Zenon
<1> HIDE DEF l2
<1>6. /\ IsLocal(l2) /\ l2.job = r /\ l2.fresh = fresh /\ l2.answers = <<>>
      /\ l2.qid = l.qid /\ l2.fetched = l.fetched
  BY <1>5, FieldsOfLocals
<1>7. worker'[w] = LocalsOf(pc, r, fresh, <<>>, l.qid, l.fetched)
  <2>1. [l2 EXCEPT !.pc = pc]
            = LocalsOf(pc, l2.job, l2.fresh, l2.answers, l2.qid, l2.fetched)
    BY <1>6, SetField, Zenon
  <2> QED
    BY <1>1, <1>6, <2>1, Zenon
<1>8. IsLocal(worker'[w])
  BY <1>7, FieldsOfLocals
<1> QED
  BY <1>7, <1>8 DEF Locals, OnlyWorker, l, Takes

-----------------------------------------------------------------------------
LEMMA GotoWorks ==
    ASSUME Locals, NEW w \in Workers, NEW pc, Goto(w, pc), pc # "idle",
           worker[w].pc # "idle",
           pc \in Behind => worker[w].pc \in Behind \/ Rule(w) = NULL,
           UNCHANGED <<reloaded, message, queue, replies, finished>>
    PROVE  Works(w)
<1>1. /\ OnlyWorker(w)
      /\ worker'[w].pc = pc /\ worker'[w].job = worker[w].job
      /\ worker'[w].fresh = worker[w].fresh /\ worker'[w].answers = worker[w].answers
  BY GotoLocals, FieldsOfLocals
<1> QED
  BY <1>1 DEF Works

LEMMA AnsweredWorks ==
    ASSUME Locals, NEW w \in Workers, NEW body, Answered(w, body),
           \/ worker[w].pc \in Behind
           \/ /\ worker[w].pc # "idle" /\ body = RuleBody(Current(w))
              /\ Rule(w) \notin {NULL, Blocked},
           UNCHANGED <<reloaded, message, queue, replies, finished>>
    PROVE  Works(w)
<1> DEFINE pc == Continue(message[worker[w].job], Len(worker[w].answers) + 1)
<1>1. /\ OnlyWorker(w)
      /\ worker'[w].pc = pc /\ worker'[w].job = worker[w].job
      /\ worker'[w].fresh = worker[w].fresh
      /\ worker'[w].answers = Append(worker[w].answers, body)
  <2>1. LET l == worker[w] IN
        /\ OnlyWorker(w)
        /\ worker'[w] = LocalsOf(Continue(message[l.job], Len(l.answers) + 1),
                                 l.job, l.fresh, Append(l.answers, body), NULL, NULL)
    BY AnsweredLocals
  <2> QED
    BY <2>1 DEF LocalsOf
<1>2. pc \in {"rules", "reply"}
  BY DEF Continue
<1> HIDE DEF pc
<1>3. pc # "idle" /\ pc \notin Behind /\ worker[w].pc # "idle"
  BY <1>2 DEF Behind
<1>4. Collects(w, body)
  BY <1>1, <1>3 DEF Collects
<1> QED
  BY <1>1, <1>3, <1>4 DEF Works

LEMMA ReplaceTwoWorks ==
    ASSUME Locals, NEW w \in Workers, NEW pc, NEW x, pc # "idle", worker[w].pc \in Behind,
           \/ worker' = [worker EXCEPT ![w].qid = x, ![w].pc = pc]
           \/ worker' = [worker EXCEPT ![w].pc = pc, ![w].fetched = x],
           UNCHANGED <<reloaded, message, queue, replies, finished>>
    PROVE  Works(w)
<1>1. /\ OnlyWorker(w)
      /\ worker'[w].pc = pc /\ worker'[w].job = worker[w].job
      /\ worker'[w].fresh = worker[w].fresh /\ worker'[w].answers = worker[w].answers
  <2>1. /\ OnlyWorker(w)
        /\ LET l == worker[w] IN
           \/ worker'[w] = LocalsOf(pc, l.job, l.fresh, l.answers, x, l.fetched)
           \/ worker'[w] = LocalsOf(pc, l.job, l.fresh, l.answers, l.qid, x)
    BY ReplaceTwoLocals, Zenon
  <2> QED
    BY <2>1 DEF LocalsOf
<1> QED
  BY <1>1 DEF Works, Behind

\* The steps of dns_resolve and dns_query, whatever the cache and the network give.
LEMMA ResolvingWorks ==
    ASSUME Locals, NEW w \in Workers,
           \/ MatchRules(w) \/ MatchCache(w) \/ NewId(w) \/ Send(w) \/ SendNowhere(w)
           \/ Timeout(w) \/ InsertCache(w) \/ Receive(w)
    PROVE  Works(w)
<1> DEFINE same == UNCHANGED <<reloaded, message, queue, replies, finished>>
<1>1. CASE MatchRules(w)
  <2>1. worker[w].pc = "rules" /\ same
    BY <1>1, Zenon DEF MatchRules
  <2>2. \/ Goto(w, "fail")
        \/ Rule(w) \notin {NULL, Blocked} /\ Answered(w, RuleBody(Current(w)))
        \/ Rule(w) = NULL /\ Goto(w, "cache")
    BY <1>1, Zenon DEF MatchRules, Rule
  <2>3. CASE Goto(w, "fail")
    BY <2>1, <2>3, GotoWorks DEF Behind
  <2>4. CASE Rule(w) \notin {NULL, Blocked} /\ Answered(w, RuleBody(Current(w)))
    BY <2>1, <2>4, AnsweredWorks
  <2>5. CASE Rule(w) = NULL /\ Goto(w, "cache")
    BY <2>1, <2>5, GotoWorks
  <2> QED
    BY <2>2, <2>3, <2>4, <2>5
<1>2. CASE MatchCache(w)
  <2>1. worker[w].pc = "cache" /\ same
    BY <1>2 DEF MatchCache
  <2>2. \/ \E body : Answered(w, body)
        \/ Goto(w, "id")
        \/ worker' = worker
    BY <1>2, Zenon DEF MatchCache
  <2>3. CASE \E body : Answered(w, body)
    BY <2>1, <2>3, AnsweredWorks DEF Behind
  <2>4. CASE Goto(w, "id")
    BY <2>1, <2>4, GotoWorks DEF Behind
  <2>5. CASE worker' = worker
    BY <2>1, <2>5 DEF Works, OnlyWorker, Behind, Locals
  <2> QED
    BY <2>2, <2>3, <2>4, <2>5
<1>3. CASE NewId(w)
  <2>1. /\ worker[w].pc = "id" /\ same
        /\ worker' = [worker EXCEPT ![w].qid = id, ![w].pc = "send"]
    BY <1>3, Zenon DEF NewId
  <2> QED
    BY <2>1, ReplaceTwoWorks DEF Behind
<1>4. CASE Send(w) \/ SendNowhere(w) \/ Timeout(w)
  <2>1. /\ worker[w].pc \in {"send", "recv"} /\ same
        /\ Goto(w, "recv") \/ Goto(w, "spin") \/ Goto(w, "fail")
    BY <1>4, Zenon DEF Send, SendNowhere, Timeout
  <2> QED
    BY <2>1, GotoWorks DEF Behind
<1>5. CASE InsertCache(w)
  <2>1. worker[w].pc = "insert" /\ same /\ \E body : Answered(w, body)
    BY <1>5, Zenon DEF InsertCache
  <2> QED
    BY <2>1, AnsweredWorks DEF Behind
<1>6. CASE Receive(w)
  <2>1. worker[w].pc = "recv" /\ same
    BY <1>6, Zenon DEF Receive
  <2>2. \/ Goto(w, "fail")
        \/ \E x : worker' = [worker EXCEPT ![w].pc = "insert", ![w].fetched = x]
    BY <1>6, Zenon DEF Receive
  <2>3. CASE Goto(w, "fail")
    BY <2>1, <2>3, GotoWorks DEF Behind
  <2>4. CASE \E x : worker' = [worker EXCEPT ![w].pc = "insert", ![w].fetched = x]
    BY <2>1, <2>4, ReplaceTwoWorks DEF Behind
  <2> QED
    BY <2>2, <2>3, <2>4
<1> QED
  BY <1>1, <1>2, <1>3, <1>4, <1>5, <1>6

-----------------------------------------------------------------------------
\* An answer keeps to the new rules if it was obtained by them, or behind them.
LEMMA ComplyingAnswer ==
    ASSUME NEW asked, NEW answers, IsSequence(answers), NEW pc, NEW body, NEW next,
           Complying(asked, answers, pc), next \notin Behind,
           \/ pc \in Behind
           \/ /\ body = RuleBody(asked[Len(answers) + 1])
              /\ NewRule(asked[Len(answers) + 1]) \notin {NULL, Blocked}
    PROVE  Complying(asked, Append(answers, body), next)
<1> DEFINE n == Len(answers)
           all == Append(answers, body)
           q == asked[n + 1]
<1>1. /\ n \in Nat /\ DOMAIN answers = 1 .. n /\ DOMAIN all = 1 .. n + 1
      /\ \A k \in 1 .. n : all[k] = answers[k]
      /\ all[n + 1] = body
  BY AppendAnything
<1> HIDE DEF all
<1>2. NewRule(q) # Blocked /\ (NewRule(q) # NULL => body = RuleBody(q))
  <2>1. CASE pc \in Behind
    <3>1. NewRule(q) = NULL
      BY <2>1 DEF Complying
    <3>2. NULL # Blocked
      BY NullAssumption
    <3> QED
      BY <3>1, <3>2
  <2>2. CASE body = RuleBody(q) /\ NewRule(q) \notin {NULL, Blocked}
    BY <2>2
  <2> QED
    BY <2>1, <2>2
<1>3. ASSUME NEW k \in 1 .. n + 1
      PROVE  /\ NewRule(asked[k]) # Blocked
             /\ NewRule(asked[k]) # NULL => all[k] = RuleBody(asked[k])
  <2>1. CASE k \in 1 .. n
    BY <1>1, <2>1 DEF Complying
  <2>2. CASE k = n + 1
    BY <1>1, <1>2, <2>2
  <2> QED
    BY <1>1, <2>1, <2>2
<1>4. Complying(asked, all, next)
  BY <1>1, <1>3 DEF Complying
<1> QED
  BY <1>4 DEF all

\* Such a step keeps everything: the answer it collects is the one the new rules ask for
\* if the worker has to comply with them.
LEMMA WorkingKeeps ==
    ASSUME Inv, NEW w \in Workers, Works(w)
    PROVE  Inv'
<1>1. /\ Locals /\ Apart /\ NoneLost /\ RepliedAtEnd /\ FreshIsReloaded /\ FreshComply
      /\ UNCHANGED <<reloaded, message, queue, replies, finished>>
  BY DEF Inv, Works
<1>2. \A v \in Workers :
          /\ worker'[v].job = worker[v].job /\ worker'[v].fresh = worker[v].fresh
          /\ worker'[v].pc = "idle" <=> worker[v].pc = "idle"
  BY DEF Works, OnlyWorker
<1>3. Locals'
  <2>1. IsSequence(worker'[w].answers)
    <3>1. IsSequence(worker[w].answers)
      BY <1>1 DEF Locals
    <3>2. \/ worker'[w].answers = worker[w].answers
          \/ \E body : worker'[w].answers = Append(worker[w].answers, body)
      BY DEF Works, Collects
    <3>3. ASSUME NEW body, worker'[w].answers = Append(worker[w].answers, body)
          PROVE  IsSequence(worker'[w].answers)
      BY <3>1, <3>3, AppendAnything
    <3> QED
      BY <3>1, <3>2, <3>3
  <2> QED
    BY <1>1, <1>2, <2>1 DEF Locals, Works, OnlyWorker
<1>4. Apart'
  <2>1. /\ message' \in [Requests -> Messages \cup {NULL}]
        /\ queue' \in Seq(Requests) /\ finished' \subseteq Requests
        /\ \A r \in finished' : message'[r] # NULL
    BY <1>1 DEF Apart
  <2>2. ASSUME NEW i \in 1 .. Len(queue)
        PROVE  /\ message[queue[i]] # NULL /\ queue[i] \notin finished
               /\ \A j \in 1 .. Len(queue) : queue[i] = queue[j] => i = j
               /\ \A v \in Workers : worker'[v].job # queue[i]
    BY <1>1, <1>2 DEF Apart
  <2>3. ASSUME NEW v \in Workers, worker'[v].pc # "idle"
        PROVE  /\ worker'[v].job \notin finished
               /\ message[worker'[v].job] \in Messages /\ message[worker'[v].job].qr = 0
               /\ \A u \in Workers : worker'[u].job = worker'[v].job => u = v
    BY <1>1, <1>2, <2>3 DEF Apart
  <2> QED
    BY <1>1, <2>1, <2>2, <2>3 DEF Apart
<1>5. NoneLost' /\ RepliedAtEnd' /\ FreshIsReloaded'
  BY <1>1, <1>2 DEF NoneLost, Somewhere, RepliedAtEnd, FreshIsReloaded
<1>6. FreshComply'
  <2> SUFFICES ASSUME NEW v \in Workers, worker[v].fresh
               PROVE  Complying(Asked(v), worker'[v].answers, worker'[v].pc)
    BY <1>1, <1>2 DEF FreshComply, Asked
  <2>1. Complying(Asked(v), worker[v].answers, worker[v].pc) /\ reloaded = TRUE
    BY <1>1 DEF FreshComply, FreshIsReloaded
  <2>2. CASE v # w
    BY <2>1, <2>2 DEF Works, OnlyWorker
  <2>3. CASE v = w /\ \E body : Collects(w, body)
    <3>1. PICK body : Collects(w, body)
      BY <2>3
    <3>2. IsSequence(worker[w].answers)
      BY <1>1 DEF Locals
    <3>3. /\ worker'[w].pc \notin Behind
          /\ worker'[w].answers = Append(worker[w].answers, body)
          /\ \/ worker[w].pc \in Behind
             \/ body = RuleBody(Current(w)) /\ NewRule(Current(w)) \notin {NULL, Blocked}
      BY <2>1, <3>1 DEF Collects, Rule, NewRule
    <3> QED
      BY <2>1, <2>3, <3>2, <3>3, ComplyingAnswer DEF Current
  <2>4. CASE /\ v = w /\ worker'[w].answers = worker[w].answers
             /\ worker'[w].pc \in Behind => worker[w].pc \in Behind \/ Rule(w) = NULL
    <3>1. worker'[w].pc \in Behind => worker[w].pc \in Behind \/ NewRule(Current(w)) = NULL
      BY <2>1, <2>4 DEF Rule, NewRule
    <3> QED
      BY <2>1, <2>4, <3>1 DEF Complying, Current
  <2> QED
    BY <2>2, <2>3, <2>4 DEF Works
<1> QED
  BY <1>3, <1>4, <1>5, <1>6 DEF Inv

-----------------------------------------------------------------------------
\* The queue without its first request.
LEMMA TailOfQueue ==
    ASSUME queue \in Seq(Requests), queue # <<>>
    PROVE  /\ Head(queue) = queue[1] /\ Head(queue) \in Requests /\ 1 \in 1 .. Len(queue)
           /\ Tail(queue) \in Seq(Requests)
           /\ \A i \in 1 .. Len(Tail(queue)) :
                  i + 1 \in 1 .. Len(queue) /\ Tail(queue)[i] = queue[i + 1]
           /\ \A i \in 1 .. Len(queue) :
                  \/ i = 1
                  \/ i - 1 \in 1 .. Len(Tail(queue)) /\ Tail(queue)[i - 1] = queue[i]
<1>1. Len(queue) \in Nat /\ Len(queue) > 0 /\ Len(Tail(queue)) = Len(queue) - 1
  OBVIOUS
<1> QED
  BY <1>1

\* What is behind the head of the queue is apart from it and from the rest.
LEMMA BehindHead ==
    ASSUME Apart, queue # <<>>
    PROVE  /\ Tail(queue) \in Seq(Requests)
           /\ Head(queue) \in Requests /\ message[Head(queue)] # NULL
           /\ Head(queue) \notin finished
           /\ \A w \in Workers : worker[w].job # Head(queue)
           /\ \A i \in 1 .. Len(Tail(queue)) :
                 /\ Tail(queue)[i] # Head(queue)
                 /\ message[Tail(queue)[i]] # NULL /\ Tail(queue)[i] \notin finished
                 /\ \A j \in 1 .. Len(Tail(queue)) : Tail(queue)[i] = Tail(queue)[j] => i = j
                 /\ \A w \in Workers : worker[w].job # Tail(queue)[i]
           /\ \A i \in 1 .. Len(queue) :
                 \/ queue[i] = Head(queue)
                 \/ \E j \in 1 .. Len(Tail(queue)) : Tail(queue)[j] = queue[i]
<1>1. /\ queue \in Seq(Requests)
      /\ Head(queue) = queue[1] /\ Head(queue) \in Requests /\ 1 \in 1 .. Len(queue)
      /\ Tail(queue) \in Seq(Requests)
      /\ \A i \in 1 .. Len(Tail(queue)) :
             i + 1 \in 1 .. Len(queue) /\ Tail(queue)[i] = queue[i + 1]
      /\ \A i \in 1 .. Len(queue) :
             \/ i = 1
             \/ i - 1 \in 1 .. Len(Tail(queue)) /\ Tail(queue)[i - 1] = queue[i]
  BY TailOfQueue DEF Apart
<1>2. /\ message[Head(queue)] # NULL /\ Head(queue) \notin finished
      /\ \A w \in Workers : worker[w].job # Head(queue)
  BY <1>1 DEF Apart
<1>3. ASSUME NEW i \in 1 .. Len(Tail(queue))
      PROVE  /\ Tail(queue)[i] # Head(queue)
             /\ message[Tail(queue)[i]] # NULL /\ Tail(queue)[i] \notin finished
             /\ \A j \in 1 .. Len(Tail(queue)) : Tail(queue)[i] = Tail(queue)[j] => i = j
             /\ \A w \in Workers : worker[w].job # Tail(queue)[i]
  <2>1. i + 1 \in 1 .. Len(queue) /\ Tail(queue)[i] = queue[i + 1] /\ i + 1 # 1
    BY <1>1
  <2>2. ASSUME NEW j \in 1 .. Len(Tail(queue)), Tail(queue)[i] = Tail(queue)[j]
        PROVE  i = j
    <3>1. j + 1 \in 1 .. Len(queue) /\ queue[i + 1] = queue[j + 1]
      BY <1>1, <2>1, <2>2
    <3>2. i + 1 = j + 1
      BY <2>1, <3>1 DEF Apart
    <3> QED
      BY <3>2
  <2>3. queue[i + 1] # queue[1]
    BY <1>1, <2>1 DEF Apart
  <2> QED
    BY <1>1, <2>1, <2>2, <2>3 DEF Apart
<1> QED
  BY <1>1, <1>2, <1>3

LEMMA TakeKeeps ==
    ASSUME Inv, NEW w \in Workers, Take(w)
    PROVE  Inv'
<1> DEFINE r == Head(queue)
<1>1. /\ Locals /\ Apart /\ NoneLost /\ RepliedAtEnd /\ FreshIsReloaded /\ FreshComply
      /\ worker[w].pc = "idle" /\ queue # <<>> /\ message[r].qr = 0 /\ queue' = Tail(queue)
      /\ UNCHANGED <<reloaded, message, replies, finished>>
  BY DEF Inv, Take
<1>2. PICK pc \in {"rules", "reply"} : Takes(w, r, reloaded, pc)
  BY DEF Take, Continue, Takes
<1> HIDE DEF r
<1>3. /\ OnlyWorker(w)
      /\ worker'[w] = LocalsOf(pc, r, reloaded, <<>>, worker[w].qid, worker[w].fetched)
  BY <1>1, <1>2, TakeLocals, Zenon
<1>4. worker[w].job = NULL /\ worker[w].answers = <<>>
  BY <1>1 DEF Locals
<1>5. /\ worker' = [v \in Workers |-> worker'[v]]
      /\ \A v \in Workers \ {w} : worker'[v] = worker[v]
      /\ IsLocal(worker'[w]) /\ worker'[w].pc = pc /\ worker'[w].job = r
      /\ worker'[w].fresh = reloaded /\ worker'[w].answers = <<>>
  BY <1>3, FieldsOfLocals DEF OnlyWorker
<1>6. /\ queue' \in Seq(Requests) /\ r \in Requests /\ message[r] # NULL /\ r \notin finished
      /\ \A v \in Workers : worker[v].job # r
      /\ \A i \in 1 .. Len(queue') :
            /\ queue'[i] # r
            /\ message[queue'[i]] # NULL /\ queue'[i] \notin finished
            /\ \A j \in 1 .. Len(queue') : queue'[i] = queue'[j] => i = j
            /\ \A v \in Workers : worker[v].job # queue'[i]
      /\ \A i \in 1 .. Len(queue) :
            \/ queue[i] = r
            \/ \E j \in 1 .. Len(queue') : queue'[j] = queue[i]
  BY <1>1, BehindHead DEF r
<1>7. Locals'
  <2>1. IsSequence(<<>>)
    BY DEF IsSequence
  <2> QED
    BY <1>1, <1>5, <1>6, <2>1 DEF Locals
<1>8. Apart'
  <2>1. /\ message' \in [Requests -> Messages \cup {NULL}]
        /\ finished' \subseteq Requests
        /\ \A q \in finished' : message'[q] # NULL
        /\ message[r] \in Messages
    BY <1>1, <1>6 DEF Apart
  <2>2. \A i \in 1 .. Len(queue') : \A v \in Workers : worker'[v].job # queue'[i]
    BY <1>5, <1>6
  <2>3. ASSUME NEW v \in Workers, worker'[v].pc # "idle"
        PROVE  /\ worker'[v].job \notin finished
               /\ message[worker'[v].job] \in Messages /\ message[worker'[v].job].qr = 0
               /\ \A u \in Workers : worker'[u].job = worker'[v].job => u = v
    <3>1. CASE v = w
      BY <1>1, <1>5, <1>6, <2>1, <3>1
    <3>2. CASE v # w
      <4>1. /\ worker'[v] = worker[v] /\ worker[v].job # r
            /\ worker[v].job \notin finished
            /\ message[worker[v].job] \in Messages /\ message[worker[v].job].qr = 0
            /\ \A u \in Workers : worker[u].job = worker[v].job => u = v
        BY <1>1, <1>5, <1>6, <2>3, <3>2 DEF Apart
      <4> QED
        BY <1>5, <4>1
    <3> QED
      BY <3>1, <3>2
  <2> QED
    BY <1>1, <1>6, <2>1, <2>2, <2>3 DEF Apart
<1>9. NoneLost'
  <2> SUFFICES ASSUME NEW q \in Requests, Somewhere(q)
               PROVE  Somewhere(q)'
    BY <1>1 DEF NoneLost
  <2>1. CASE \E v \in Workers : worker[v].job = q
    <3>1. PICK v \in Workers : worker[v].job = q
      BY <2>1
    <3>2. v # w
      BY <1>4, <3>1, NullAssumption
    <3> QED
      BY <1>5, <3>1, <3>2 DEF Somewhere
  <2>2. CASE \E i \in 1 .. Len(queue) : queue[i] = q
    BY <1>5, <1>6, <2>2 DEF Somewhere
  <2> QED
    BY <1>1, <2>1, <2>2 DEF Somewhere
<1>10. RepliedAtEnd' /\ FreshIsReloaded'
  BY <1>1, <1>5 DEF RepliedAtEnd, FreshIsReloaded
<1>11. FreshComply'
  <2> SUFFICES ASSUME NEW v \in Workers, worker'[v].fresh
               PROVE  Complying(message[worker'[v].job].questions, worker'[v].answers,
                                worker'[v].pc)
    BY <1>1 DEF FreshComply, Asked
  <2>1. CASE v = w
    BY <1>2, <1>5, <2>1 DEF Complying, Behind
  <2>2. CASE v # w
    BY <1>1, <1>5, <2>2 DEF FreshComply, Asked
  <2> QED
    BY <2>1, <2>2
<1> QED
  BY <1>7, <1>8, <1>9, <1>10, <1>11 DEF Inv

LEMMA TakeResponseKeeps ==
    ASSUME Inv, NEW w \in Workers, TakeResponse(w)
    PROVE  Inv'
<1> DEFINE r == Head(queue)
<1>1. /\ Locals /\ Apart /\ NoneLost /\ RepliedAtEnd /\ FreshIsReloaded /\ FreshComply
      /\ queue # <<>> /\ queue' = Tail(queue) /\ finished' = finished \cup {r}
      /\ UNCHANGED <<reloaded, message, worker, replies>>
  BY DEF Inv, TakeResponse
<1> HIDE DEF r
<1>2. /\ queue' \in Seq(Requests) /\ r \in Requests /\ message[r] # NULL /\ r \notin finished
      /\ \A v \in Workers : worker[v].job # r
      /\ \A i \in 1 .. Len(queue') :
            /\ queue'[i] # r
            /\ message[queue'[i]] # NULL /\ queue'[i] \notin finished
            /\ \A j \in 1 .. Len(queue') : queue'[i] = queue'[j] => i = j
            /\ \A v \in Workers : worker[v].job # queue'[i]
      /\ \A i \in 1 .. Len(queue) :
            \/ queue[i] = r
            \/ \E j \in 1 .. Len(queue') : queue'[j] = queue[i]
  BY <1>1, BehindHead DEF r
<1>3. Apart'
  <2>1. /\ message' \in [Requests -> Messages \cup {NULL}]
        /\ finished' \subseteq Requests
        /\ \A q \in finished' : message'[q] # NULL
    BY <1>1, <1>2 DEF Apart
  <2>2. ASSUME NEW v \in Workers, worker[v].pc # "idle"
        PROVE  /\ worker[v].job \notin finished'
               /\ message[worker[v].job] \in Messages /\ message[worker[v].job].qr = 0
               /\ \A u \in Workers : worker[u].job = worker[v].job => u = v
    BY <1>1, <1>2, <2>2 DEF Apart
  <2> QED
    BY <1>1, <1>2, <2>1, <2>2 DEF Apart
<1>4. Locals' /\ FreshIsReloaded' /\ FreshComply'
  BY <1>1 DEF Locals, FreshIsReloaded, FreshComply, Asked
<1>5. NoneLost'
  <2> SUFFICES ASSUME NEW q \in Requests, Somewhere(q)
               PROVE  Somewhere(q)'
    BY <1>1 DEF NoneLost
  <2>1. CASE \E i \in 1 .. Len(queue) : queue[i] = q
    BY <1>1, <1>2, <2>1 DEF Somewhere
  <2> QED
    BY <1>1, <2>1 DEF Somewhere
<1>6. RepliedAtEnd'
  BY <1>1 DEF RepliedAtEnd
<1> QED
  BY <1>3, <1>4, <1>5, <1>6 DEF Inv

\* The end of a request: one reply or none.
LEMMA FinishingKeeps ==
    ASSUME Inv, NEW w \in Workers, ReplyFailure(w) \/ ReplyAnswers(w) \/ DropAnswers(w)
    PROVE  Inv'
<1> DEFINE r == worker[w].job
<1>1. /\ Locals /\ Apart /\ NoneLost /\ RepliedAtEnd /\ FreshIsReloaded /\ FreshComply
      /\ worker[w].pc # "idle" /\ finished' = finished \cup {r}
      /\ worker' = [worker EXCEPT ![w] = Idle]
      /\ UNCHANGED <<reloaded, message, queue>>
      /\ \/ UNCHANGED replies
         \/ \E reply : replies' = [replies EXCEPT ![r] = Append(@, reply)]
  BY DEF Inv, ReplyFailure, ReplyAnswers, DropAnswers, Finish
<1>2. /\ worker' = [v \in Workers |-> worker'[v]]
      /\ \A v \in Workers \ {w} : worker'[v] = worker[v]
      /\ worker'[w] = Idle
  BY <1>1 DEF Locals
<1>3. /\ Idle.pc = "idle" /\ Idle.job = NULL /\ Idle.answers = <<>> /\ Idle.fresh = FALSE
      /\ IsLocal(Idle) /\ IsSequence(<<>>)
  BY DEF Idle, IsLocal, LocalsOf, IsSequence
<1>4. /\ r \in Requests /\ r \notin finished /\ message[r] # NULL /\ message[r].qr = 0
      /\ \A v \in Workers \ {w} : worker[v].job # r
      /\ \A i \in 1 .. Len(queue) : queue[i] # r
  BY <1>1, NullAssumption DEF Locals, Apart
<1>5. Locals'
  BY <1>1, <1>2, <1>3 DEF Locals
<1>6. Apart'
  <2>1. /\ message' \in [Requests -> Messages \cup {NULL}]
        /\ queue' \in Seq(Requests) /\ finished' \subseteq Requests
        /\ \A q \in finished' : message'[q] # NULL
    BY <1>1, <1>4 DEF Apart
  <2>2. ASSUME NEW i \in 1 .. Len(queue)
        PROVE  /\ message[queue[i]] # NULL /\ queue[i] \notin finished'
               /\ \A j \in 1 .. Len(queue) : queue[i] = queue[j] => i = j
               /\ \A v \in Workers : worker'[v].job # queue[i]
    <3>1. queue[i] # NULL
      BY <1>1, NullAssumption DEF Apart
    <3> QED
      BY <1>1, <1>2, <1>3, <1>4, <3>1 DEF Apart
  <2>3. ASSUME NEW v \in Workers, worker'[v].pc # "idle"
        PROVE  /\ worker'[v].job \notin finished'
               /\ message[worker'[v].job] \in Messages /\ message[worker'[v].job].qr = 0
               /\ \A u \in Workers : worker'[u].job = worker'[v].job => u = v
    <3>1. v # w /\ worker'[v] = worker[v] /\ worker[v].job # NULL
      BY <1>1, <1>2, <1>3, <2>3, NullAssumption DEF Locals
    <3>2. /\ worker[v].job \notin finished
          /\ message[worker[v].job] \in Messages /\ message[worker[v].job].qr = 0
          /\ \A u \in Workers : worker[u].job = worker[v].job => u = v
      BY <1>1, <2>3, <3>1 DEF Apart
    <3> QED
      BY <1>1, <1>2, <1>3, <1>4, <3>1, <3>2
  <2> QED
    BY <1>1, <2>1, <2>2, <2>3 DEF Apart
<1>7. NoneLost'
  BY <1>1, <1>2, <1>4 DEF NoneLost, Somewhere
<1>8. RepliedAtEnd'
  <2>1. replies[r] = <<>>
    BY <1>1, <1>4 DEF RepliedAtEnd
  <2>2. ASSUME NEW reply, replies' = [replies EXCEPT ![r] = Append(@, reply)]
        PROVE  RepliedAtEnd'
    <3>1. Len(Append(<<>>, reply)) = 1
      OBVIOUS
    <3> QED
      BY <1>1, <1>4, <2>1, <2>2, <3>1 DEF RepliedAtEnd
  <2>3. CASE UNCHANGED replies
    BY <1>1, <2>3 DEF RepliedAtEnd
  <2> QED
    BY <1>1, <2>2, <2>3
<1>9. FreshIsReloaded' /\ FreshComply'
  BY <1>1, <1>2, <1>3 DEF FreshIsReloaded, FreshComply, Asked
<1> QED
  BY <1>5, <1>6, <1>7, <1>8, <1>9 DEF Inv

\* A request arrives, once.
LEMMA ArriveKeeps ==
    ASSUME Inv, NEW r \in Requests, NEW m \in Messages, Arrive(r, m)
    PROVE  Inv'
<1>1. /\ Locals /\ Apart /\ NoneLost /\ RepliedAtEnd /\ FreshIsReloaded /\ FreshComply
      /\ message[r] = NULL /\ message' = [message EXCEPT ![r] = m]
      /\ queue' = Append(queue, r)
      /\ UNCHANGED <<reloaded, worker, replies, finished>>
  BY DEF Inv, Arrive
<1>2. /\ message \in [Requests -> Messages \cup {NULL}] /\ queue \in Seq(Requests)
      /\ m # NULL /\ message'[r] = m
      /\ \A q \in Requests \ {r} : message'[q] = message[q]
  BY <1>1, NullAssumption DEF Apart
<1>3. /\ queue' \in Seq(Requests) /\ Len(queue) \in Nat /\ Len(queue') = Len(queue) + 1
      /\ \A i \in 1 .. Len(queue) : queue'[i] = queue[i] /\ queue[i] \in Requests
      /\ queue'[Len(queue) + 1] = r
  BY <1>1, <1>2
<1>4. /\ \A i \in 1 .. Len(queue) : queue[i] # r
      /\ \A w \in Workers : worker[w].job # r
      /\ r \notin finished
  <2>1. ASSUME NEW w \in Workers PROVE worker[w].job # r
    BY <1>1, NullAssumption DEF Locals, Apart
  <2> QED
    BY <1>1, <2>1 DEF Apart
<1>5. Apart'
  <2>1. /\ message' \in [Requests -> Messages \cup {NULL}]
        /\ finished' \subseteq Requests
        /\ \A q \in finished' : message'[q] # NULL
    BY <1>1, <1>2 DEF Apart
  <2>2. ASSUME NEW i \in 1 .. Len(queue')
        PROVE  /\ message'[queue'[i]] # NULL /\ queue'[i] \notin finished
               /\ \A j \in 1 .. Len(queue') : queue'[i] = queue'[j] => i = j
               /\ \A w \in Workers : worker[w].job # queue'[i]
    <3>1. CASE i \in 1 .. Len(queue)
      BY <1>1, <1>2, <1>3, <1>4, <3>1 DEF Apart
    <3>2. CASE i = Len(queue) + 1
      BY <1>2, <1>3, <1>4, <3>2
    <3> QED
      BY <1>3, <3>1, <3>2
  <2>3. ASSUME NEW w \in Workers, worker[w].pc # "idle"
        PROVE  /\ worker[w].job \notin finished
               /\ message'[worker[w].job] \in Messages /\ message'[worker[w].job].qr = 0
               /\ \A v \in Workers : worker[v].job = worker[w].job => v = w
    BY <1>1, <1>2, <1>4, <2>3 DEF Apart, Locals
  <2> QED
    BY <1>1, <1>3, <2>1, <2>2, <2>3 DEF Apart
<1>6. NoneLost'
  <2> SUFFICES ASSUME NEW q \in Requests, message'[q] # NULL
               PROVE  Somewhere(q)'
    BY DEF NoneLost
  <2>1. CASE q = r
    BY <1>3, <2>1 DEF Somewhere
  <2>2. CASE q # r
    <3>1. Somewhere(q)
      BY <1>1, <1>2, <2>2 DEF NoneLost
    <3> QED
      BY <1>1, <1>3, <3>1 DEF Somewhere
  <2> QED
    BY <2>1, <2>2
<1>7. RepliedAtEnd'
  BY <1>1, <1>2, <1>4 DEF RepliedAtEnd
<1>8. Locals' /\ FreshIsReloaded'
  BY <1>1 DEF Locals, FreshIsReloaded
<1>9. FreshComply'
  <2>1. ASSUME NEW w \in Workers, worker[w].fresh
        PROVE  message'[worker[w].job] = message[worker[w].job]
    BY <1>1, <1>2, <1>4, <2>1 DEF Locals
  <2> QED
    BY <1>1, <2>1 DEF FreshComply, Asked
<1> QED
  BY <1>5, <1>6, <1>7, <1>8, <1>9 DEF Inv

-----------------------------------------------------------------------------
LEMMA InitInv == Init => Inv
<1> SUFFICES ASSUME Init PROVE Inv
  OBVIOUS
<1>1. /\ reloaded = FALSE /\ message = [r \in Requests |-> NULL] /\ queue = <<>>
      /\ worker = [w \in Workers |-> Idle] /\ replies = [r \in Requests |-> <<>>]
      /\ finished = {}
  BY DEF Init
<1>2. /\ Idle.pc = "idle" /\ Idle.job = NULL /\ Idle.answers = <<>> /\ Idle.fresh = FALSE
      /\ IsLocal(Idle) /\ IsSequence(<<>>)
  BY DEF Idle, IsLocal, LocalsOf, IsSequence
<1>3. Locals
  BY <1>1, <1>2 DEF Locals
<1>4. Apart
  BY <1>1, <1>2 DEF Apart
<1>5. NoneLost /\ RepliedAtEnd /\ FreshIsReloaded /\ FreshComply
  BY <1>1, <1>2 DEF NoneLost, RepliedAtEnd, FreshIsReloaded, FreshComply
<1> QED
  BY <1>3, <1>4, <1>5 DEF Inv

\* Reload, Tick and stuttering.
LEMMA RestKeeps ==
    ASSUME Inv, UNCHANGED <<message, queue, worker, replies, finished>>,
           reloaded' = TRUE \/ UNCHANGED reloaded
    PROVE  Inv'
<1>1. Locals' /\ Apart'
  BY DEF Inv, Locals, Apart
<1>2. NoneLost' /\ RepliedAtEnd'
  BY DEF Inv, NoneLost, Somewhere, RepliedAtEnd
<1>3. FreshIsReloaded' /\ FreshComply'
  BY DEF Inv, FreshIsReloaded, FreshComply, Asked
<1> QED
  BY <1>1, <1>2, <1>3 DEF Inv

LEMMA NextKeeps == Inv /\ [Next]_vars => Inv'
<1> SUFFICES ASSUME Inv, [Next]_vars PROVE Inv'
  OBVIOUS
<1>1. ASSUME NEW r \in Requests, NEW m \in Messages, Arrive(r, m)
      PROVE  Inv'
  BY <1>1, ArriveKeeps
<1>2. ASSUME NEW w \in Workers, Step(w) \/ Receive(w)
      PROVE  Inv'
  <2>1. CASE Take(w)
    BY <2>1, TakeKeeps
  <2>2. CASE TakeResponse(w)
    BY <2>2, TakeResponseKeeps
  <2>3. CASE \/ MatchRules(w) \/ MatchCache(w) \/ NewId(w) \/ Send(w) \/ SendNowhere(w)
             \/ Timeout(w) \/ InsertCache(w) \/ Receive(w)
    BY <2>3, ResolvingWorks, WorkingKeeps DEF Inv
  <2>4. CASE ReplyFailure(w) \/ ReplyAnswers(w) \/ DropAnswers(w)
    BY <2>4, FinishingKeeps
  <2> QED
    BY <1>2, <2>1, <2>2, <2>3, <2>4 DEF Step
<1>3. CASE Reload
  BY <1>3, RestKeeps DEF Reload
<1>4. CASE Tick
  BY <1>4, RestKeeps DEF Tick
<1>5. CASE UNCHANGED vars
  BY <1>5, RestKeeps DEF vars
<1> QED
  BY <1>1, <1>2, <1>3, <1>4, <1>5 DEF Next

LEMMA Invariant == Spec => []Inv
BY InitInv, NextKeeps, PTL DEF Spec

-----------------------------------------------------------------------------
\* A set whose members are all the same.
LEMMA AtMostOne ==
    ASSUME NEW S, \A x, y \in S : x = y
    PROVE  /\ S = {} => Cardinality(S) = 0
           /\ S # {} => Cardinality(S) = 1
<1>1. CASE S = {}
  BY <1>1, FS_EmptySet
<1>2. CASE S # {}
  <2>1. PICK x \in S : TRUE
    BY <1>2
  <2>2. S = {x}
    BY <2>1
  <2> QED
    BY <1>2, <2>2, FS_Singleton
<1> QED
  BY <1>1, <1>2

LEMMA InvInOnePlace == Inv => EachRequestInOnePlace
<1> SUFFICES ASSUME Inv, NEW r \in Requests
             PROVE  Cardinality({i \in DOMAIN queue : queue[i] = r})
                    + Cardinality({w \in Workers : worker[w].job = r})
                    + (IF r \in finished THEN 1 ELSE 0)
                        = IF message[r] = NULL THEN 0 ELSE 1
  BY Zenon DEF EachRequestInOnePlace
<1> DEFINE Q == {i \in DOMAIN queue : queue[i] = r}
           W == {w \in Workers : worker[w].job = r}
<1>1. Locals /\ Apart /\ NoneLost /\ DOMAIN queue = 1 .. Len(queue) /\ r # NULL
  BY NullAssumption DEF Inv, Apart
<1>2. /\ \A i, j \in Q : i = j
      /\ \A w, v \in W : w = v
      /\ Q # {} => W = {} /\ r \notin finished
      /\ W # {} => r \notin finished
      /\ message[r] = NULL => Q = {} /\ W = {} /\ r \notin finished
  <2>1. ASSUME NEW w \in W
        PROVE  /\ worker[w].pc # "idle" /\ r \notin finished /\ message[r] # NULL
               /\ \A v \in W : v = w
    BY <1>1, NullAssumption DEF Locals, Apart
  <2>2. ASSUME NEW i \in Q
        PROVE  W = {} /\ r \notin finished /\ message[r] # NULL /\ \A j \in Q : i = j
    BY <1>1 DEF Apart
  <2>3. r \in finished => message[r] # NULL
    BY <1>1 DEF Apart
  <2> QED
    BY <2>1, <2>2, <2>3
<1>3. message[r] # NULL => Q # {} \/ W # {} \/ r \in finished
  BY <1>1 DEF NoneLost, Somewhere
<1>4. /\ Q = {} => Cardinality(Q) = 0
      /\ Q # {} => Cardinality(Q) = 1
      /\ W = {} => Cardinality(W) = 0
      /\ W # {} => Cardinality(W) = 1
  BY <1>2, AtMostOne
<1> HIDE DEF Q, W
<1>5. Cardinality(Q) + Cardinality(W) + (IF r \in finished THEN 1 ELSE 0)
          = IF message[r] = NULL THEN 0 ELSE 1
  BY <1>2, <1>3, <1>4
<1> QED
  BY <1>5 DEF Q, W

LEMMA InvOneReply == Inv => OneReply
<1> SUFFICES ASSUME Inv, NEW r \in Requests
             PROVE  /\ Len(replies[r]) <= 1
                    /\ replies[r] # <<>> => r \in finished /\ message[r].qr = 0
  BY DEF OneReply
<1>1. \/ replies[r] = <<>>
      \/ Len(replies[r]) = 1 /\ r \in finished /\ message[r].qr = 0
  BY DEF Inv, RepliedAtEnd
<1>2. CASE replies[r] = <<>>
  <2>1. Len(<<>>) = 0
    OBVIOUS
  <2> QED
    BY <1>2, <2>1
<1>3. CASE Len(replies[r]) = 1 /\ r \in finished /\ message[r].qr = 0
  BY <1>3
<1> QED
  BY <1>1, <1>2, <1>3

LEMMA InvReloadTakesEffect == Inv => ReloadTakesEffect
BY DEF Inv, FreshComply, Complying, NewRule, Behind, ReloadTakesEffect, Current

\* A request that arrived is in the queue, once, or with one worker, or finished: the pool
\* neither loses nor doubles what run_handler gives it.
THEOREM InOnePlace == Spec => []EachRequestInOnePlace
BY Invariant, InvInOnePlace, PTL

\* handle_dns_request replies at most once to a request, at its end, and never to a
\* datagram that is a response.
THEOREM RepliesOnce == Spec => []OneReply
BY Invariant, InvOneReply, PTL

\* A request taken after poll_filerules swapped the rules is resolved by the new ones,
\* whatever the cache still holds from before.
THEOREM NewRulesApply == Spec => []ReloadTakesEffect
BY Invariant, InvReloadTakesEffect, PTL

-----------------------------------------------------------------------------
(***************************************************************************)
(* What the relay gets from its cache.  The types of all variables hold    *)
(* whatever the cache's size.  That the cache leads no worker to a         *)
(* released record, and that what a reply carries is about what was asked, *)
(* hold while more records fit than there are questions to ask: the        *)
(* condition under which DnsCacheProofs shows the cache right, whose       *)
(* lemmas about one call of match_cacherules or insert_cache are used here *)
(* for the calls the workers make, in whatever order they make them.       *)
(***************************************************************************)
\* The cache of Relay, with what is proved of it.
Room == INSTANCE DnsCacheProofs WITH
    TTLs <- {u.ttl : u \in Upstream},
    ret <- [question |-> NULL, record |-> NULL]

-----------------------------------------------------------------------------
(***************************************************************************)
(* Both instances of DnsCache, that of Relay and the one proved about, are *)
(* the same.                                                               *)
(***************************************************************************)
LEMMA SameData ==
    /\ Cache!Questions = Room!Questions
    /\ Cache!Record = Room!Record
    /\ Cache!TrieKeys = Room!TrieKeys
    /\ \A q : Cache!Cacheable(q) <=> Room!Cacheable(q)
    /\ \A q : Cache!Kept(q) <=> Room!Kept(q)
    /\ \A q : Cache!Lookup(q) = Room!Lookup(q)
<1>1. Cache!Questions = Room!Questions
  BY DEF Cache!Questions, Room!Questions
<1>2. \A q : Cache!Cacheable(q) <=> Room!Cacheable(q)
  BY Zenon DEF Cache!Cacheable, Room!Cacheable, Cache!CacheableTypes, Room!CacheableTypes
<1>3. \A q : Cache!Kept(q) <=> Room!Kept(q)
  BY Zenon DEF Cache!Cacheable, Room!Cacheable, Cache!CacheableTypes, Room!CacheableTypes,
                Cache!Kept, Room!Kept
<1>4. \A q : Cache!Lookup(q) = Room!Lookup(q)
  BY Zenon DEF Cache!Lookup, Room!Lookup, Cache!Key, Room!Key
<1>5. Cache!TrieKeys = Room!TrieKeys
  BY Zenon DEF Cache!TrieKeys, Room!TrieKeys, Cache!Cacheable, Room!Cacheable,
                Cache!CacheableTypes, Room!CacheableTypes, Cache!Key, Room!Key,
                Cache!Questions, Room!Questions
<1>6. Cache!Record = Room!Record
  BY <1>1 DEF Cache!Record, Room!Record
<1> QED
  BY <1>1, <1>2, <1>3, <1>4, <1>5, <1>6, Zenon

LEMMA SameState ==
    /\ Cache!TypeOK <=> Room!TypeOK
    /\ Cache!Init <=> Room!Init
    /\ Cache!NeverUndefined <=> Room!NeverUndefined
    /\ Cache!Tick <=> Room!Tick
<1>1. Cache!TypeOK <=> Room!TypeOK
  BY SameData DEF Cache!TypeOK, Room!TypeOK
<1>2. Cache!Init <=> Room!Init
  BY SameData DEF Cache!Init, Room!Init, Cache!NoReturn, Room!NoReturn
<1> QED
  BY <1>1, <1>2 DEF Cache!NeverUndefined, Room!NeverUndefined, Cache!Tick, Room!Tick

LEMMA SameMatch ==
    \A q : /\ Cache!Hit(q) <=> Room!Hit(q)
           /\ Cache!Expire(q) <=> Room!Expire(q)
           /\ Cache!Miss(q) <=> Room!Miss(q)
           /\ Cache!MatchUndefined(q) <=> Room!MatchUndefined(q)
<1> USE DEF Cache!Lookup, Room!Lookup, Cache!Key, Room!Key, Cache!Cacheable, Room!Cacheable,
            Cache!Kept, Room!Kept, Cache!CacheableTypes, Room!CacheableTypes, Cache!TimedOut, Room!TimedOut,
            Cache!RemoveFirst, Room!RemoveFirst, Cache!RemoveAt, Room!RemoveAt,
            Cache!Contains, Room!Contains, Cache!SelectInSeq, Room!SelectInSeq,
            Cache!Min, Room!Min, Cache!Cons, Room!Cons, Cache!Undefined, Room!Undefined
<1>1. \A q : Cache!Hit(q) <=> Room!Hit(q)
  BY Zenon DEF Cache!Hit, Room!Hit
<1>2. \A q : Cache!Expire(q) <=> Room!Expire(q)
  BY Zenon DEF Cache!Expire, Room!Expire
<1>3. \A q : Cache!Miss(q) <=> Room!Miss(q)
  BY Zenon DEF Cache!Miss, Room!Miss
<1>4. \A q : Cache!MatchUndefined(q) <=> Room!MatchUndefined(q)
  BY Zenon DEF Cache!MatchUndefined, Room!MatchUndefined
<1> QED
  BY <1>1, <1>2, <1>3, <1>4, Zenon

LEMMA SameInsert ==
    \A r : Cache!InsertStored(r) <=> Room!InsertStored(r)
<1> USE DEF Cache!Lookup, Room!Lookup, Cache!Key, Room!Key, Cache!Cacheable, Room!Cacheable,
            Cache!Kept, Room!Kept, Cache!CacheableTypes, Room!CacheableTypes,
            Cache!RemoveFirst, Room!RemoveFirst, Cache!RemoveAt, Room!RemoveAt,
            Cache!Contains, Room!Contains, Cache!SelectInSeq, Room!SelectInSeq,
            Cache!Min, Room!Min, Cache!Cons, Room!Cons, Cache!Undefined, Room!Undefined,
            Cache!Front, Room!Front, Cache!Last, Room!Last, Cache!Prepend, Room!Prepend
<1>2. \A r : Cache!InsertNew(r) <=> Room!InsertNew(r)
  BY Zenon DEF Cache!InsertNew, Room!InsertNew
<1>3. \A r : Cache!InsertReplace(r) <=> Room!InsertReplace(r)
  BY Zenon DEF Cache!InsertReplace, Room!InsertReplace
<1>4. \A r : Cache!InsertEvict(r) <=> Room!InsertEvict(r)
  BY Zenon DEF Cache!InsertEvict, Room!InsertEvict
<1>5. \A r : Cache!InsertUndefined(r) <=> Room!InsertUndefined(r)
  BY Zenon DEF Cache!InsertUndefined, Room!InsertUndefined
<1>6. \A r : Cache!InsertStored(r) <=> Room!InsertStored(r)
  <2> HIDE DEF Cache!Lookup, Room!Lookup
  <2>1. TAKE r
  <2>2. Cache!InsertNew(r) <=> Room!InsertNew(r)
    BY <1>2, Zenon
  <2>3. Cache!InsertReplace(r) <=> Room!InsertReplace(r)
    BY <1>3, Zenon
  <2>4. Cache!InsertEvict(r) <=> Room!InsertEvict(r)
    BY <1>4, Zenon
  <2>5. Cache!InsertUndefined(r) <=> Room!InsertUndefined(r)
    BY <1>5, Zenon
  <2>6. Cache!Kept(r.question) <=> Room!Kept(r.question)
    BY SameData, Zenon
  <2> HIDE DEF Cache!Kept, Room!Kept
  <2> QED
    BY <2>2, <2>3, <2>4, <2>5, <2>6, Zenon DEF Cache!InsertStored, Room!InsertStored
<1> QED
  BY <1>6, Zenon

-----------------------------------------------------------------------------
\* What is assumed of the relay's constants is what the cache's proofs assume.
LEMMA Constants == Room!CacheAssumption
<1>1. \A u \in Upstream : u.ttl \in Nat
  BY UpstreamAssumption
<1> QED
  BY <1>1, CacheAssumption, SameData DEF Room!CacheAssumption

\* A call of the cache, with what the caller does with its result left open.
LEMMA CallKeepsAccounting ==
    ASSUME Room!Accounting, UNCHANGED now,
           \/ \E q \in Questions :
                 Cache!Hit(q) \/ Cache!Expire(q) \/ Cache!Miss(q) \/ Cache!MatchUndefined(q)
           \/ \E record \in Cache!Record : Cache!InsertStored(record)
    PROVE  Room!Accounting'
<1>1. \/ \E q \in Room!Questions :
                 Room!Hit(q) \/ Room!Expire(q) \/ Room!Miss(q) \/ Room!MatchUndefined(q)
      \/ \E record \in Room!Record : Room!InsertIgnored(record) \/ Room!InsertStored(record)
  <2>1. Questions = Room!Questions
    BY DEF Questions, Room!Questions
  <2> QED
    BY <2>1, SameData, SameMatch, SameInsert, Zenon
<1>2. [question |-> NULL, record |-> NULL]
         \in [question : Room!Questions \cup {NULL}, record : Room!Record \cup {NULL}]
  OBVIOUS
<1> QED
  BY <1>1, <1>2, Constants, Room!CallAccounting

-----------------------------------------------------------------------------
(***************************************************************************)
(* A step of dns_resolve or dns_query by a worker: which of its locals     *)
(* change, and what it gets from the rules, the cache or the network.      *)
(***************************************************************************)
Resolving == {"rules"} \cup Behind

\* The answer to the current question that handle_dns_request appends.
Obtains(w, body) ==
    \/ /\ worker[w].pc = "rules"
       /\ body = RuleBody(Current(w))
    \/ /\ worker[w].pc = "cache" /\ Cache!Hit(Current(w))
       /\ body = cell[Cache!Lookup(Current(w))].body
    \/ /\ worker[w].pc = "insert" /\ Cache!InsertStored(worker[w].fetched)
       /\ body = worker[w].fetched.body

\* The record dns_query makes of a packet that answers its query.
MadeNow(record, q) ==
    \E u \in Upstream : record = [question |-> q, body |-> Body(q, u),
                                  ttl |-> u.ttl, cached_time |-> now]

\* The call of the cache in the step.
Calls(w) ==
    /\ UNCHANGED now
    /\ LET q == Current(w) IN
       \/ UNCHANGED cacheVars
       \/ /\ worker[w].pc = "cache"
          /\ Cache!Hit(q) \/ Cache!Expire(q) \/ Cache!Miss(q) \/ Cache!MatchUndefined(q)
       \/ worker[w].pc = "insert" /\ Cache!InsertStored(worker[w].fetched)

\* How the locals go from l to k.
StaysBehind(l, k) ==
    /\ k.answers = l.answers
    /\ k.pc \in (Behind \cup {"fail"}) \ {"insert"}
    /\ k.qid \in {l.qid, id} /\ k.fetched = l.fetched

Fetches(w, l, k) ==
    /\ k.answers = l.answers
    /\ k.pc = "insert" /\ k.qid = l.qid /\ MadeNow(k.fetched, Current(w))

Gathers(w, l, k) ==
    \E body :
        /\ Obtains(w, body)
        /\ k.answers = Append(l.answers, body)
        /\ k.pc = Continue(message[l.job], Len(l.answers) + 1)
        /\ k.qid = NULL /\ k.fetched = NULL

SameRequest(w) == worker'[w].job = worker[w].job /\ worker'[w].fresh = worker[w].fresh

Resolves(w) ==
    LET l == worker[w]
        k == worker'[w]
    IN  /\ UNCHANGED <<message, replies>>
        /\ OnlyWorker(w) /\ Calls(w)
        /\ l.pc \in Resolving /\ SameRequest(w)
        /\ StaysBehind(l, k) \/ Fetches(w, l, k) \/ Gathers(w, l, k)

LEMMA GotoResolves ==
    ASSUME Locals, NEW w \in Workers, NEW pc, Goto(w, pc),
           worker[w].pc \in Resolving, pc \in (Behind \cup {"fail"}) \ {"insert"},
           Calls(w), UNCHANGED <<message, replies>>
    PROVE  Resolves(w)
<1>1. /\ OnlyWorker(w)
      /\ LET l == worker[w] IN
         worker'[w] = LocalsOf(pc, l.job, l.fresh, l.answers, l.qid, l.fetched)
  BY GotoLocals
<1>2. StaysBehind(worker[w], worker'[w]) /\ SameRequest(w)
  BY <1>1 DEF LocalsOf, StaysBehind, SameRequest
<1> QED
  BY <1>1, <1>2 DEF Resolves

LEMMA AnsweredResolves ==
    ASSUME Locals, NEW w \in Workers, NEW body, Answered(w, body), Obtains(w, body),
           Calls(w), UNCHANGED <<message, replies>>
    PROVE  Resolves(w)
<1>1. /\ OnlyWorker(w)
      /\ LET l == worker[w] IN
         worker'[w] = LocalsOf(Continue(message[l.job], Len(l.answers) + 1),
                               l.job, l.fresh, Append(l.answers, body), NULL, NULL)
  BY AnsweredLocals
<1>2. worker[w].pc \in Resolving
  BY DEF Obtains, Resolving, Behind
<1>3. Gathers(w, worker[w], worker'[w]) /\ SameRequest(w)
  BY <1>1 DEF LocalsOf, Gathers, SameRequest
<1> QED
  BY <1>1, <1>2, <1>3 DEF Resolves

LEMMA ResolvingResolves ==
    ASSUME Locals, NEW w \in Workers,
           \/ MatchRules(w) \/ MatchCache(w) \/ NewId(w) \/ Send(w) \/ SendNowhere(w)
           \/ Timeout(w) \/ InsertCache(w) \/ Receive(w)
    PROVE  Resolves(w)
<1> DEFINE q == Current(w)
           same == UNCHANGED <<message, replies>>
<1>1. CASE MatchRules(w)
  <2>1. /\ worker[w].pc = "rules" /\ same /\ UNCHANGED cacheVars
        /\ Goto(w, "fail") \/ Goto(w, "cache") \/ Answered(w, RuleBody(q))
    BY <1>1, Zenon DEF MatchRules
  <2>2. Calls(w) /\ Obtains(w, RuleBody(q))
    BY <2>1 DEF Calls, Obtains, cacheVars
  <2> QED
    BY <2>1, <2>2, GotoResolves, AnsweredResolves DEF Resolving, Behind
<1>2. CASE MatchCache(w)
  <2>1. worker[w].pc = "cache" /\ same /\ UNCHANGED now
    BY <1>2 DEF MatchCache
  <2>2. \/ Cache!Hit(q) /\ Answered(w, cell[Cache!Lookup(q)].body)
        \/ (Cache!Expire(q) \/ Cache!Miss(q)) /\ Goto(w, "id")
        \/ Cache!MatchUndefined(q) /\ worker' = worker
    BY <1>2, Zenon DEF MatchCache
  <2>3. Calls(w)
    BY <2>1, <2>2 DEF Calls
  <2>4. CASE Cache!Hit(q) /\ Answered(w, cell[Cache!Lookup(q)].body)
    <3>1. Obtains(w, cell[Cache!Lookup(q)].body)
      BY <2>1, <2>4 DEF Obtains
    <3> QED
      BY <2>1, <2>3, <2>4, <3>1, AnsweredResolves
  <2>5. CASE Goto(w, "id")
    BY <2>1, <2>3, <2>5, GotoResolves DEF Resolving, Behind
  <2>6. CASE worker' = worker
    BY <2>1, <2>3, <2>6 DEF Resolves, OnlyWorker, StaysBehind, SameRequest, Resolving, Behind,
                                   Locals
  <2> QED
    BY <2>2, <2>4, <2>5, <2>6
<1>3. CASE NewId(w)
  <2>1. /\ worker[w].pc = "id" /\ same /\ UNCHANGED cacheVars
        /\ worker' = [worker EXCEPT ![w].qid = id, ![w].pc = "send"]
    BY <1>3, Zenon DEF NewId
  <2>2. /\ OnlyWorker(w)
        /\ LET l == worker[w] IN
           worker'[w] = LocalsOf("send", l.job, l.fresh, l.answers, id, l.fetched)
    BY <2>1, ReplaceTwoLocals, Zenon
  <2>3. StaysBehind(worker[w], worker'[w]) /\ SameRequest(w)
    BY <2>2 DEF LocalsOf, StaysBehind, SameRequest, Behind
  <2>4. Calls(w)
    BY <2>1 DEF Calls, cacheVars
  <2> QED
    BY <2>1, <2>2, <2>3, <2>4 DEF Resolves, Resolving, Behind
<1>4. CASE Send(w) \/ SendNowhere(w) \/ Timeout(w)
  <2>1. /\ worker[w].pc \in {"send", "recv"} /\ same /\ UNCHANGED cacheVars
        /\ Goto(w, "recv") \/ Goto(w, "spin") \/ Goto(w, "fail")
    BY <1>4, Zenon DEF Send, SendNowhere, Timeout
  <2>2. Calls(w)
    BY <2>1 DEF Calls, cacheVars
  <2> QED
    BY <2>1, <2>2, GotoResolves DEF Resolving, Behind
<1>5. CASE InsertCache(w)
  <2>1. /\ worker[w].pc = "insert" /\ same /\ UNCHANGED now
        /\ Cache!InsertStored(worker[w].fetched) /\ Answered(w, worker[w].fetched.body)
    BY <1>5, Zenon DEF InsertCache
  <2>2. Calls(w) /\ Obtains(w, worker[w].fetched.body)
    BY <2>1 DEF Calls, Obtains
  <2> QED
    BY <2>1, <2>2, AnsweredResolves
<1>6. CASE Receive(w)
  <2>1. worker[w].pc = "recv" /\ same /\ UNCHANGED cacheVars
    BY <1>6, Zenon DEF Receive
  <2>2. PICK packet \in Deliverable(w) :
           /\ Accepts(w, packet)
           /\ \/ Goto(w, "fail")
              \/ worker' = [worker EXCEPT
                     ![w].pc = "insert",
                     ![w].fetched = [question |-> q,
                                     body |-> Body(packet.question, packet.records),
                                     ttl |-> packet.records.ttl,
                                     cached_time |-> now]]
    BY <1>6, Zenon DEF Receive
  <2>3. packet.question = q /\ packet.records \in Upstream
    BY <2>2 DEF Deliverable, Accepts
  <2>4. Calls(w)
    BY <2>1 DEF Calls, cacheVars
  <2>5. CASE Goto(w, "fail")
    BY <2>1, <2>4, <2>5, GotoResolves DEF Resolving, Behind
  <2>6. CASE ~Goto(w, "fail")
    <3> DEFINE u == packet.records
               record == [question |-> q, body |-> Body(q, u), ttl |-> u.ttl,
                          cached_time |-> now]
    <3>1. worker' = [worker EXCEPT ![w].pc = "insert", ![w].fetched = record]
      BY <2>2, <2>3, <2>6
    <3>2. MadeNow(record, q)
      BY <2>3 DEF MadeNow
    <3> HIDE DEF record
    <3>3. /\ OnlyWorker(w)
          /\ LET l == worker[w] IN
             worker'[w] = LocalsOf("insert", l.job, l.fresh, l.answers, l.qid, record)
      BY <3>1, ReplaceTwoLocals, Zenon
    <3>4. Fetches(w, worker[w], worker'[w]) /\ SameRequest(w)
      BY <3>2, <3>3 DEF LocalsOf, Fetches, SameRequest
    <3> QED
      BY <2>1, <2>4, <3>3, <3>4 DEF Resolves, Resolving, Behind
  <2> QED
    BY <2>5, <2>6
<1> QED
  BY <1>1, <1>2, <1>3, <1>4, <1>5, <1>6

-----------------------------------------------------------------------------
(***************************************************************************)
(* The types.                                                              *)
(***************************************************************************)
Places == {"idle", "rules", "cache", "id", "send", "recv", "spin", "insert", "fail", "reply"}

Ids == 0..IdModulus - 1

ReplyType == [rcode : {0, 3}, ancount : Nat, nscount : Nat,
              records : Seq(Answer)]

\* A worker that is to insert a record has one.
TypedLocals(l) ==
    /\ l.pc \in Places
    /\ l.answers \in Seq(Answer)
    /\ l.fresh \in BOOLEAN
    /\ l.qid \in Ids \cup {NULL}
    /\ l.fetched \in Cache!Record \cup {NULL}
    /\ l.pc = "insert" => l.fetched # NULL

\* A worker that resolves is at a question of its request, one that replies is past the
\* last.
AtQuestion(l, asked) ==
    /\ l.pc \in Resolving => Len(l.answers) < Len(asked)
    /\ l.pc = "reply" => Len(l.answers) = Len(asked)

TypedWorkers == \A w \in Workers : TypedLocals(worker[w]) /\ AtQuestion(worker[w], Asked(w))

Typed ==
    /\ Room!Accounting
    /\ id \in Ids /\ sockets \in 0..MaxSockets
    /\ TypedWorkers
    /\ replies \in [Requests -> Seq(ReplyType)]

-----------------------------------------------------------------------------
\* A set of numbers that has 0 and the next of each of its numbers has them all.
LEMMA SetInduction ==
    ASSUME NEW T \in SUBSET Nat, 0 \in T, \A n \in T : n + 1 \in T
    PROVE  T = Nat
<1> DEFINE U == Nat \ T
           R == OpToRel(<, Nat)
<1>1. SUFFICES ASSUME U # {} PROVE FALSE
  OBVIOUS
<1>2. IsWellFoundedOn(R, Nat)
  BY NatLessThanWellFounded
<1>3. \A a, b \in Nat : <<a, b>> \in R <=> a < b
  BY DEF OpToRel
<1> HIDE DEF R
<1>4. PICK m \in U : \A k \in U : <<k, m>> \notin R
  BY <1>1, <1>2, WFMin
<1>5. m \in Nat /\ m # 0
  BY <1>4
<1>6. m - 1 \in Nat /\ m - 1 < m /\ m = (m - 1) + 1
  BY <1>5
<1>7. m - 1 \in T
  BY <1>3, <1>4, <1>5, <1>6
<1> QED
  BY <1>4, <1>6, <1>7

\* Induction up to N.
LEMMA UpTo ==
    ASSUME NEW N \in Nat, NEW S, 0 \in S, \A n \in 1 .. N : n - 1 \in S => n \in S
    PROVE  0 .. N \subseteq S
<1> DEFINE T == {n \in Nat : n <= N => n \in S}
<1>1. ASSUME NEW n \in Nat, n <= N => n \in S, n + 1 <= N PROVE n + 1 \in S
  <2>1. n + 1 \in 1 .. N /\ (n + 1) - 1 = n
    BY <1>1
  <2> QED
    BY <1>1, <2>1
<1>2. T \in SUBSET Nat /\ 0 \in T /\ \A n \in T : n + 1 \in T
  BY <1>1
<1> HIDE DEF T
<1>3. T = Nat
  BY <1>2, SetInduction
<1> QED
  BY <1>3 DEF T

\* The partial sums of the numbers x[1], x[2], ... x[n].
Sums(f, x, n) ==
    /\ f \in [0 .. n -> Nat] /\ f[0] = 0
    /\ \A k \in 1 .. n : f[k] = f[k - 1] + x[k]

LEMMA SumsExist ==
    ASSUME NEW N \in Nat, NEW x \in [1 .. N -> Nat]
    PROVE  \E f : Sums(f, x, N)
<1> DEFINE S == {n \in 0 .. N : \E f : Sums(f, x, n)}
<1>1. 0 \in S
  <2>1. Sums([n \in 0 .. 0 |-> 0], x, 0)
    BY DEF Sums
  <2> QED
    BY <2>1
<1>2. ASSUME NEW n \in 1 .. N, n - 1 \in S PROVE n \in S
  <2>1. PICK f : Sums(f, x, n - 1)
    BY <1>2
  <2> DEFINE last == f[n - 1] + x[n]
             g == [k \in 0 .. n |-> IF k = n THEN last ELSE f[k]]
  <2>2. last \in Nat /\ last = f[n - 1] + x[n]
    BY <2>1 DEF Sums
  <2> HIDE DEF last
  <2>3. g \in [0 .. n -> Nat] /\ g[0] = 0
    BY <2>1, <2>2 DEF Sums
  <2>4. ASSUME NEW k \in 1 .. n PROVE g[k] = g[k - 1] + x[k]
    <3>1. CASE k = n
      BY <2>2, <3>1
    <3>2. CASE k # n
      <4>1. k \in 1 .. n - 1 /\ k - 1 \in 0 .. n - 1
        BY <3>2
      <4> QED
        BY <2>1, <4>1 DEF Sums
    <3> QED
      BY <3>1, <3>2
  <2> HIDE DEF g
  <2>5. Sums(g, x, n)
    BY <2>3, <2>4 DEF Sums
  <2> QED
    BY <2>5
<1> HIDE DEF S
<1>3. 0 .. N \subseteq S
  BY <1>1, <1>2, UpTo
<1> QED
  BY <1>3 DEF S

\* What the counts of a reply are.
LEMMA TotalIsNumber ==
    ASSUME NEW answers \in Seq(Answer), NEW field \in {"an", "ns"}
    PROVE  Total(answers, field) \in Nat
<1> DEFINE N == Len(answers)
           total[n \in 0 .. N] == IF n = 0 THEN 0 ELSE total[n - 1] + answers[n][field]
           x == [n \in 1 .. N |-> answers[n][field]]
           Rec(f) == [n \in 0 .. N |-> IF n = 0 THEN 0 ELSE f[n - 1] + answers[n][field]]
<1>1. Total(answers, field) = total[N] /\ N \in Nat
  BY DEF Total
<1>2. x \in [1 .. N -> Nat]
  <2>1. \A n \in 1 .. N : answers[n] \in Answer
    OBVIOUS
  <2>2. \A body \in Answer : body[field] \in Nat
    BY DEF Answer
  <2> QED
    BY <2>1, <2>2
<1>3. \A n \in 1 .. N : x[n] = answers[n][field]
  OBVIOUS
<1>4. total = CHOOSE f : f = Rec(f)
  OBVIOUS
<1> HIDE DEF total, N, x
<1>5. PICK f : Sums(f, x, N)
  BY <1>1, <1>2, SumsExist
<1>6. f = Rec(f)
  <2>1. \A n \in 0 .. N : n = 0 \/ n \in 1 .. N
    BY <1>1
  <2> QED
    BY <1>3, <1>5, <2>1 DEF Sums
<1>7. total = Rec(total)
  <2> HIDE DEF Rec
  <2> QED
    BY <1>4, <1>6
<1>8. total[0] = 0 /\ \A n \in 1 .. N : total[n] = total[n - 1] + x[n]
  BY <1>1, <1>3, <1>7
<1> DEFINE S == {n \in 0 .. N : total[n] \in Nat}
<1>9. 0 \in S /\ \A n \in 1 .. N : n - 1 \in S => n \in S
  BY <1>1, <1>2, <1>8
<1> HIDE DEF S
<1>10. 0 .. N \subseteq S
  BY <1>1, <1>9, UpTo
<1> QED
  BY <1>1, <1>10 DEF S

\* What the rules, the cache and upstream answer is an answer.
LEMMA BodiesAreAnswers ==
    /\ Bodies \subseteq Answer
    /\ \A q \in Questions : RuleBody(q) \in Answer
<1>1. ASSUME NEW q \in Questions, NEW u \in Upstream PROVE Body(q, u) \in Answer
  BY UpstreamAssumption DEF Body, Answer, Questions
<1>2. Bodies \subseteq Answer
  BY <1>1 DEF Bodies
<1> QED
  BY <1>2 DEF RuleBody, Answer, Questions

\* The question a worker resolves is one.
LEMMA CurrentQuestion ==
    ASSUME Locals, Apart, NEW w \in Workers, worker[w].pc \in Resolving,
           AtQuestion(worker[w], Asked(w))
    PROVE  /\ Asked(w) \in Seq(Questions)
           /\ Len(worker[w].answers) + 1 \in 1 .. Len(Asked(w))
           /\ Current(w) \in Questions
<1> DEFINE n == Len(worker[w].answers)
<1>1. Asked(w) \in Seq(Questions)
  <2>1. worker[w].pc # "idle"
    BY DEF Resolving, Behind
  <2> QED
    BY <2>1, MessagesAssumption DEF Apart, Asked
<1>2. n \in Nat /\ n < Len(Asked(w))
  BY AppendAnything DEF Locals, AtQuestion
<1> HIDE DEF n
<1>3. Len(Asked(w)) \in Nat
  BY <1>1
<1>4. n + 1 \in 1 .. Len(Asked(w))
  BY <1>2, <1>3
<1>5. Asked(w)[n + 1] \in Questions
  BY <1>1, <1>4
<1> QED
  BY <1>1, <1>4, <1>5 DEF n, Current

\* The record made of a packet is one that the cache can take.
LEMMA MadeRecord ==
    ASSUME Room!Accounting, NEW q \in Questions, NEW record, MadeNow(record, q)
    PROVE  record \in Cache!Record /\ record # NULL /\ record.question = q /\ record.body.about = q
<1>1. PICK u \in Upstream : record = [question |-> q, body |-> Body(q, u),
                                      ttl |-> u.ttl, cached_time |-> now]
  BY DEF MadeNow
<1>2. now \in 0..MaxTime
  BY SameState DEF Room!Accounting, Cache!TypeOK
<1>3. Body(q, u) \in Bodies /\ Body(q, u).about = q
  BY DEF Bodies, Body
<1>4. q \in Cache!Questions
  BY DEF Cache!Questions, Questions
<1>5. record \in Cache!Record
  BY <1>1, <1>2, <1>3, <1>4 DEF Cache!Record
<1> QED
  BY <1>1, <1>3, <1>5, CacheAssumption

\* The call of the cache in a worker's step is one the cache's accounts survive.
LEMMA CallOfWorker ==
    ASSUME Inv, Typed, NEW w \in Workers, Resolves(w)
    PROVE  /\ Current(w) \in Questions
           /\ \/ UNCHANGED cacheVars
              \/ /\ UNCHANGED now
                 /\ \/ \E q \in Questions :
                          \/ Cache!Hit(q) \/ Cache!Expire(q) \/ Cache!Miss(q)
                          \/ Cache!MatchUndefined(q)
                    \/ \E record \in Cache!Record : Cache!InsertStored(record)
<1>1. worker[w].pc \in Resolving /\ Calls(w)
  BY DEF Resolves
<1>2. TypedLocals(worker[w]) /\ AtQuestion(worker[w], Asked(w))
  BY DEF Typed, TypedWorkers
<1>3. Current(w) \in Questions
  BY <1>1, <1>2, CurrentQuestion DEF Inv
<1>4. worker[w].pc = "insert" => worker[w].fetched \in Cache!Record
  BY <1>2 DEF TypedLocals
<1> QED
  BY <1>1, <1>3, <1>4, Zenon DEF Calls

LEMMA AccountingKept ==
    ASSUME Room!Accounting,
           \/ UNCHANGED cacheVars
           \/ /\ UNCHANGED now
              /\ \/ \E q \in Questions :
                       \/ Cache!Hit(q) \/ Cache!Expire(q) \/ Cache!Miss(q)
                       \/ Cache!MatchUndefined(q)
                 \/ \E record \in Cache!Record : Cache!InsertStored(record)
    PROVE  Room!Accounting'
<1>1. CASE UNCHANGED cacheVars
  BY <1>1 DEF cacheVars, Room!Accounting, Room!TypeOK, Room!CountsItsCells, Room!ListOwnsCells
<1>2. CASE ~UNCHANGED cacheVars
  BY <1>2, CallKeepsAccounting, Zenon
<1> QED
  BY <1>1, <1>2

\* What a worker obtains is an answer, whatever the cache returns.
LEMMA ObtainedTyped ==
    ASSUME Typed, NEW w \in Workers, Current(w) \in Questions, NEW body, Obtains(w, body)
    PROVE  body \in Answer
<1> DEFINE q == Current(w)
           a == Cache!Lookup(q)
<1>1. Cache!TypeOK /\ TypedLocals(worker[w])
  BY SameState DEF Typed, TypedWorkers, Room!Accounting
<1>2. \A record \in Cache!Record : record.body \in Answer
  BY BodiesAreAnswers DEF Cache!Record
<1>3. CASE body = RuleBody(q)
  BY <1>3, BodiesAreAnswers
<1>4. CASE Cache!Hit(q) /\ body = cell[a].body
  <2>1. Cache!Cacheable(q) /\ a # NULL /\ cell[a] # NULL
    BY <1>4 DEF Cache!Hit, Cache!Kept
  <2>2. Cache!Key(q) \in Cache!TrieKeys
    BY <2>1 DEF Cache!TrieKeys, Questions, Cache!Questions
  <2>3. a \in Addr
    BY <1>1, <2>1, <2>2 DEF Cache!TypeOK, Cache!Lookup
  <2>4. cell[a] \in Cache!Record
    BY <1>1, <2>1, <2>3 DEF Cache!TypeOK
  <2> QED
    BY <1>2, <1>4, <2>4
<1>5. CASE worker[w].pc = "insert" /\ body = worker[w].fetched.body
  BY <1>1, <1>2, <1>5 DEF TypedLocals
<1> QED
  BY <1>3, <1>4, <1>5 DEF Obtains

LEMMA AppendLength ==
    ASSUME NEW s, IsSequence(s), NEW x
    PROVE  Len(Append(s, x)) = Len(s) + 1 /\ Len(s) \in Nat
<1> DEFINE S == {s[i] : i \in DOMAIN s} \cup {x}
<1>1. s \in Seq(S) /\ x \in S
  BY DEF IsSequence
<1> QED
  BY <1>1

\* A resolving worker keeps the types of its locals.
LEMMA ResolvingTyped ==
    ASSUME Inv, Typed, NEW w \in Workers, Resolves(w)
    PROVE  TypedLocals(worker'[w]) /\ AtQuestion(worker'[w], Asked(w)')
<1> DEFINE l == worker[w]
           k == worker'[w]
<1>1. /\ l.pc \in Resolving /\ k.job = l.job /\ k.fresh = l.fresh /\ message' = message
      /\ StaysBehind(l, k) \/ Fetches(w, l, k) \/ Gathers(w, l, k)
  BY DEF Resolves, SameRequest
<1>2. TypedLocals(l) /\ AtQuestion(l, Asked(w)) /\ id \in Ids
  BY DEF Typed, TypedWorkers
<1>3. /\ Asked(w) \in Seq(Questions) /\ Current(w) \in Questions
      /\ Len(l.answers) + 1 \in 1 .. Len(Asked(w))
  BY <1>1, <1>2, CurrentQuestion DEF Inv
<1>4. Asked(w)' = Asked(w) /\ k.fresh \in BOOLEAN
  BY <1>1, <1>2 DEF Asked, TypedLocals
<1>5. CASE StaysBehind(l, k)
  <2>1. /\ k.pc \in Places /\ k.qid \in Ids \cup {NULL} /\ k.fetched \in Cache!Record \cup {NULL}
        /\ k.pc # "insert" /\ k.pc # "reply" /\ k.answers = l.answers
    BY <1>2, <1>5 DEF StaysBehind, TypedLocals, Places, Behind
  <2>2. Len(l.answers) < Len(Asked(w))
    BY <1>1, <1>2 DEF AtQuestion
  <2> QED
    BY <1>2, <1>4, <2>1, <2>2 DEF TypedLocals, AtQuestion
<1>6. CASE Fetches(w, l, k)
  <2>1. /\ k.pc = "insert" /\ k.qid \in Ids \cup {NULL} /\ k.answers = l.answers
        /\ MadeNow(k.fetched, Current(w))
    BY <1>2, <1>6 DEF Fetches, TypedLocals
  <2>2. k.fetched \in Cache!Record /\ k.fetched # NULL
    BY <1>3, <2>1, MadeRecord DEF Typed
  <2>3. Len(l.answers) < Len(Asked(w))
    BY <1>1, <1>2 DEF AtQuestion
  <2> QED
    BY <1>2, <1>4, <2>1, <2>2, <2>3 DEF TypedLocals, AtQuestion, Places
<1>7. CASE Gathers(w, l, k)
  <2> DEFINE n == Len(l.answers)
  <2>1. PICK body : Obtains(w, body) /\ k.answers = Append(l.answers, body)
    BY <1>7 DEF Gathers
  <2>2. k.pc = Continue(message[l.job], n + 1) /\ k.qid = NULL /\ k.fetched = NULL
    BY <1>7 DEF Gathers
  <2>3. n \in Nat /\ Len(k.answers) = n + 1
    <3>1. IsSequence(l.answers)
      BY DEF Inv, Locals
    <3> QED
      BY <2>1, <3>1, AppendAnything, AppendLength
  <2> HIDE DEF n
  <2>4. n + 1 <= Len(Asked(w)) /\ Len(Asked(w)) \in Nat
    BY <1>3 DEF n
  <2>5. k.pc = IF n + 1 < Len(Asked(w)) THEN "rules" ELSE "reply"
    BY <2>2 DEF Continue, Asked
  <2>6. AtQuestion(k, Asked(w))
    BY <2>3, <2>4, <2>5 DEF AtQuestion, Resolving, Behind
  <2>7. k.answers \in Seq(Answer)
    <3>1. l.answers \in Seq(Answer) /\ body \in Answer
      BY <1>2, <1>3, <2>1, ObtainedTyped DEF TypedLocals
    <3> QED
      BY <2>1, <3>1
  <2>8. TypedLocals(k)
    BY <1>4, <2>2, <2>5, <2>7 DEF TypedLocals, Places
  <2> QED
    BY <1>4, <2>6, <2>8
<1> QED
  BY <1>1, <1>5, <1>6, <1>7

LEMMA ResolvingKeepsTypes ==
    ASSUME Inv, Typed, NEW w \in Workers, Resolves(w), id' \in Ids, sockets' \in 0..MaxSockets
    PROVE  Typed'
<1>1. Room!Accounting'
  BY CallOfWorker, AccountingKept DEF Typed
<1>2. ASSUME NEW v \in Workers
      PROVE  TypedLocals(worker'[v]) /\ AtQuestion(worker'[v], Asked(v)')
  <2>1. CASE v = w
    BY <2>1, ResolvingTyped
  <2>2. CASE v # w
    <3>1. worker'[v] = worker[v] /\ message' = message
      BY <2>2 DEF Resolves, OnlyWorker
    <3>2. TypedLocals(worker[v]) /\ AtQuestion(worker[v], Asked(v))
      BY DEF Typed, TypedWorkers
    <3> QED
      BY <3>1, <3>2 DEF Asked
  <2> QED
    BY <2>1, <2>2
<1>3. replies' = replies
  BY DEF Resolves
<1> QED
  BY <1>1, <1>2, <1>3 DEF Typed, TypedWorkers, Ids

\* The counters that the steps of dns_query move.
LEMMA CountersTyped ==
    ASSUME Typed, NEW w \in Workers,
           \/ MatchRules(w) \/ MatchCache(w) \/ NewId(w) \/ Send(w) \/ SendNowhere(w)
           \/ Timeout(w) \/ InsertCache(w) \/ Receive(w)
    PROVE  id' \in Ids /\ sockets' \in 0..MaxSockets
<1>1. id \in Ids /\ sockets \in 0..MaxSockets
  BY DEF Typed
<1>2. /\ id' = id \/ id' = (id + 1) % IdModulus
      /\ sockets' = sockets \/ (sockets < MaxSockets /\ sockets' = sockets + 1)
  BY Zenon DEF MatchRules, MatchCache, NewId, Send, SendNowhere, Timeout, InsertCache, Receive
<1> QED
  BY <1>1, <1>2, BoundsAssumption DEF Ids

\* The steps outside dns_resolve change the locals of one worker or none, and no variable
\* of the cache.
LEMMA ElsewhereKeepsTypes ==
    ASSUME Typed, UNCHANGED <<cacheVars, id, sockets>>, TypedWorkers',
           replies' \in [Requests -> Seq(ReplyType)]
    PROVE  Typed'
<1>1. Room!Accounting'
  BY AccountingKept DEF Typed
<1> QED
  BY <1>1 DEF Typed, Ids

LEMMA TakeKeepsTypes ==
    ASSUME Inv, Typed, NEW w \in Workers, Take(w)
    PROVE  Typed'
<1>1. /\ worker[w].pc = "idle" /\ UNCHANGED <<cacheVars, message, id, sockets, replies>>
      /\ Locals /\ reloaded \in BOOLEAN
  BY DEF Take, Inv, FreshIsReloaded
<1>2. PICK r : Takes(w, r, reloaded, Continue(message[r], 0))
  BY DEF Take, Takes
<1>3. /\ OnlyWorker(w)
      /\ worker'[w] = LocalsOf(Continue(message[r], 0), r, reloaded, <<>>,
                               worker[w].qid, worker[w].fetched)
  BY <1>1, <1>2, TakeLocals
<1>4. /\ worker'[w].pc = Continue(message[r], 0) /\ worker'[w].job = r
      /\ worker'[w].fresh = reloaded /\ worker'[w].answers = <<>>
      /\ worker'[w].qid = worker[w].qid /\ worker'[w].fetched = worker[w].fetched
  BY <1>3 DEF LocalsOf
<1>5. TypedLocals(worker'[w])
  <2>1. worker'[w].pc \in {"rules", "reply"}
    BY <1>4 DEF Continue
  <2> QED
    BY <1>1, <1>4, <2>1 DEF Typed, TypedWorkers, TypedLocals, Places
<1>6. AtQuestion(worker'[w], Asked(w)')
  <2>1. /\ Asked(w)' = message[r].questions
        /\ worker'[w].pc = IF 0 < Len(message[r].questions) THEN "rules" ELSE "reply"
        /\ Len(<<>>) = 0
    BY <1>1, <1>4 DEF Asked, Continue
  <2>2. Len(message[r].questions) \in Nat
    <3>1. Inv'
      BY TakeKeeps
    <3>2. message'[worker'[w].job] \in Messages
      BY <1>4, <3>1 DEF Inv, Apart, Continue
    <3>3. message[r].questions \in Seq(Questions)
      BY <1>1, <1>4, <3>2, MessagesAssumption
    <3> QED
      BY <3>3
  <2> QED
    BY <1>4, <2>1, <2>2 DEF AtQuestion, Resolving, Behind
<1>7. TypedWorkers'
  BY <1>1, <1>3, <1>5, <1>6 DEF TypedWorkers, Typed, OnlyWorker, Asked
<1> QED
  BY <1>1, <1>7, ElsewhereKeepsTypes DEF Typed

LEMMA FinishingKeepsTypes ==
    ASSUME Inv, Typed, NEW w \in Workers, ReplyFailure(w) \/ ReplyAnswers(w) \/ DropAnswers(w)
    PROVE  Typed'
<1>1. /\ worker' = [worker EXCEPT ![w] = Idle]
      /\ UNCHANGED <<cacheVars, message, id, sockets>>
  BY DEF ReplyFailure, ReplyAnswers, DropAnswers, Finish
<1>2. /\ worker'[w] = Idle
      /\ \A v \in Workers \ {w} : worker'[v] = worker[v]
  BY <1>1 DEF Inv, Locals
<1>3. TypedLocals(Idle) /\ \A asked : AtQuestion(Idle, asked)
  BY DEF Idle, TypedLocals, AtQuestion, Places, Resolving, Behind
<1>4. TypedWorkers'
  BY <1>1, <1>2, <1>3 DEF TypedWorkers, Typed, Asked
<1> DEFINE l == worker[w]
<1>5. l.job \in Requests /\ l.answers \in Seq(Answer)
  <2>1. l.pc # "idle"
    BY DEF ReplyFailure, ReplyAnswers, DropAnswers
  <2> QED
    BY <2>1, MessagesAssumption DEF Inv, Locals, Apart, Typed, TypedWorkers, TypedLocals
<1>6. ASSUME NEW rcode \in {0, 3}, NEW records \in Seq(Answer)
      PROVE  Reply(w, rcode, records) \in ReplyType
  BY <1>5, TotalIsNumber DEF Reply, ReplyType
<1>7. \/ UNCHANGED replies
      \/ \E reply \in ReplyType : replies' = [replies EXCEPT ![l.job] = Append(@, reply)]
  <2>1. CASE ReplyFailure(w)
    <3>1. 3 \in {0, 3} /\ <<>> \in Seq(Answer)
      OBVIOUS
    <3>2. Reply(w, 3, <<>>) \in ReplyType
      BY <1>6, <3>1, Zenon
    <3> QED
      BY <2>1, <3>2 DEF ReplyFailure
  <2>2. CASE ReplyAnswers(w)
    <3>1. PICK rcode \in {0, 3} :
             replies' = [replies EXCEPT ![l.job] = Append(@, Reply(w, rcode, l.answers))]
      BY <2>2 DEF ReplyAnswers
    <3>2. Reply(w, rcode, l.answers) \in ReplyType
      BY <1>5, <1>6
    <3> QED
      BY <3>1, <3>2
  <2>3. CASE DropAnswers(w)
    BY <2>3 DEF DropAnswers
  <2> QED
    BY <2>1, <2>2, <2>3
<1>8. replies' \in [Requests -> Seq(ReplyType)]
  <2>1. replies \in [Requests -> Seq(ReplyType)] /\ replies[l.job] \in Seq(ReplyType)
    BY <1>5 DEF Typed
  <2> HIDE DEF ReplyType, l
  <2>2. CASE UNCHANGED replies
    BY <2>1, <2>2
  <2>3. CASE \E reply \in ReplyType : replies' = [replies EXCEPT ![l.job] = Append(@, reply)]
    <3>1. PICK reply \in ReplyType : replies' = [replies EXCEPT ![l.job] = Append(@, reply)]
      BY <2>3
    <3>2. Append(replies[l.job], reply) \in Seq(ReplyType)
      BY <2>1
    <3> QED
      BY <2>1, <3>1, <3>2
  <2> QED
    BY <1>7, <2>2, <2>3
<1> QED
  BY <1>1, <1>4, <1>8, ElsewhereKeepsTypes

LEMMA ArriveKeepsTypes ==
    ASSUME Inv, Typed, NEW r \in Requests, NEW m \in Messages, Arrive(r, m)
    PROVE  Typed'
<1>1. /\ message[r] = NULL /\ message' = [message EXCEPT ![r] = m]
      /\ UNCHANGED <<cacheVars, worker, id, sockets, replies>>
  BY DEF Arrive
<1>2. ASSUME NEW v \in Workers
      PROVE  AtQuestion(worker[v], Asked(v)')
  <2>1. CASE worker[v].pc = "idle"
    BY <2>1 DEF AtQuestion, Resolving, Behind
  <2>2. CASE worker[v].pc # "idle"
    <3>1. worker[v].job # r
      BY <1>1, <2>2, NullAssumption DEF Inv, Apart
    <3>2. Asked(v)' = Asked(v)
      BY <1>1, <3>1 DEF Asked, Inv, Apart
    <3> QED
      BY <3>2 DEF Typed, TypedWorkers
  <2> QED
    BY <2>1, <2>2
<1>3. TypedWorkers'
  BY <1>1, <1>2 DEF TypedWorkers, Typed
<1> QED
  BY <1>1, <1>3, ElsewhereKeepsTypes DEF Typed

LEMMA TickKeepsTypes ==
    ASSUME Typed, Tick
    PROVE  Typed'
<1>1. Room!Tick /\ UNCHANGED <<message, worker, id, sockets, replies>>
  BY SameState DEF Tick
<1>2. Room!Accounting'
  <2>1. now' \in 0..MaxTime
    BY <1>1, CacheAssumption DEF Typed, Room!Accounting, Room!TypeOK, Room!Tick
  <2> QED
    BY <1>1, <2>1 DEF Typed, Room!Accounting, Room!TypeOK, Room!CountsItsCells,
                      Room!ListOwnsCells, Room!Tick
<1> QED
  BY <1>1, <1>2 DEF Typed, TypedWorkers, Asked, Ids

LEMMA InitTyped == Init => Typed
<1> SUFFICES ASSUME Init PROVE Typed
  OBVIOUS
<1>1. Room!Accounting
  BY SameState, Constants, Room!AccountingInit DEF Init
<1>2. worker = [w \in Workers |-> Idle] /\ id = 0 /\ sockets = 0
  BY DEF Init
<1>3. TypedLocals(Idle) /\ \A asked : AtQuestion(Idle, asked)
  BY DEF Idle, TypedLocals, AtQuestion, Places, Resolving, Behind
<1>4. id \in Ids /\ sockets \in 0..MaxSockets
  BY <1>2, BoundsAssumption DEF Ids
<1>5. replies \in [Requests -> Seq(ReplyType)]
  BY DEF Init
<1> QED
  BY <1>1, <1>2, <1>3, <1>4, <1>5 DEF Typed, TypedWorkers

LEMMA NextTyped == Inv /\ Typed /\ [Next]_vars => Typed'
<1> SUFFICES ASSUME Inv, Typed, [Next]_vars PROVE Typed'
  OBVIOUS
<1>1. ASSUME NEW r \in Requests, NEW m \in Messages, Arrive(r, m)
      PROVE  Typed'
  BY <1>1, ArriveKeepsTypes
<1>2. ASSUME NEW w \in Workers, Step(w) \/ Receive(w)
      PROVE  Typed'
  <2>1. CASE Take(w)
    BY <2>1, TakeKeepsTypes
  <2>2. CASE \/ MatchRules(w) \/ MatchCache(w) \/ NewId(w) \/ Send(w) \/ SendNowhere(w)
             \/ Timeout(w) \/ InsertCache(w) \/ Receive(w)
    BY <2>2, ResolvingResolves, CountersTyped, ResolvingKeepsTypes DEF Inv
  <2>3. CASE ReplyFailure(w) \/ ReplyAnswers(w) \/ DropAnswers(w)
    BY <2>3, FinishingKeepsTypes
  <2>4. CASE TakeResponse(w)
    <3>1. UNCHANGED <<cacheVars, message, worker, id, sockets, replies>>
      BY <2>4 DEF TakeResponse
    <3> QED
      BY <3>1, ElsewhereKeepsTypes DEF Typed, TypedWorkers, Asked
  <2> QED
    BY <1>2, <2>1, <2>2, <2>3, <2>4 DEF Step
<1>3. CASE Reload
  <2>1. UNCHANGED <<cacheVars, message, worker, id, sockets, replies>>
    BY <1>3 DEF Reload
  <2> QED
    BY <2>1, ElsewhereKeepsTypes DEF Typed, TypedWorkers, Asked
<1>4. CASE Tick
  BY <1>4, TickKeepsTypes
<1>5. CASE UNCHANGED vars
  <2>1. UNCHANGED <<cacheVars, message, worker, id, sockets, replies>>
    BY <1>5 DEF vars, cacheVars
  <2> QED
    BY <2>1, ElsewhereKeepsTypes DEF Typed, TypedWorkers, Asked
<1> QED
  BY <1>1, <1>2, <1>3, <1>4, <1>5 DEF Next

LEMMA TypedInvariant == Spec => []Typed
BY Invariant, InitTyped, NextTyped, PTL DEF Spec

LEMMA TypedTypeOK == Inv /\ Typed => TypeOK
<1> SUFFICES ASSUME Inv, Typed PROVE TypeOK
  OBVIOUS
<1>1. Cache!TypeOK
  BY SameState DEF Typed, Room!Accounting
<1>2. ASSUME NEW w \in Workers
      PROVE  worker[w].job \in Requests \cup {NULL}
  BY DEF Inv, Locals
<1> QED
  BY <1>1, <1>2 DEF TypeOK, Inv, Apart, FreshIsReloaded, Typed, TypedWorkers, TypedLocals,
                    ReplyType, Places, Ids

\* The locals of the workers, the answers they collected, the replies, the cache, the
\* queue and the requests keep their types whatever the size of the cache, evictions
\* included: the counts of a reply are numbers, a worker that is to insert has a record,
\* and one that resolves is at a question of its request.
THEOREM TypesHold == Spec => []TypeOK
BY Invariant, TypedInvariant, TypedTypeOK, PTL

-----------------------------------------------------------------------------
(***************************************************************************)
(* The answers, as long as the cache has room for every question.          *)
(***************************************************************************)

\* What an answer to q is about.
Answers(body, q) == body.about = q \/ body = RuleBody(q)

\* A record of the cache is about the question it is kept under, ...
CellsGenuine == \A a \in Addr : cell[a] # NULL => cell[a].body.about = cell[a].question

\* ... so is what a worker fetched and has yet to insert, and what a worker collected
\* is about the questions of its request.
WorkerGenuine(l, asked) ==
    /\ l.pc = "insert" =>
          /\ l.fetched.question = asked[Len(l.answers) + 1]
          /\ l.fetched.body.about = asked[Len(l.answers) + 1]
    /\ \A k \in DOMAIN l.answers : Answers(l.answers[k], asked[k])

WorkersGenuine == \A w \in Workers : WorkerGenuine(worker[w], Asked(w))

\* A request is replied to with an answer to each of its questions, or with none.
ReplyGenuine(reply, asked) ==
    reply.records # <<>> =>
        /\ Len(reply.records) = Len(asked)
        /\ \A k \in DOMAIN reply.records : Answers(reply.records[k], asked[k])

RepliesGenuine ==
    \A r \in Requests : \A i \in DOMAIN replies[r] :
        ReplyGenuine(replies[r][i], message[r].questions)

Genuine ==
    /\ Room!Answering
    /\ CellsGenuine /\ WorkersGenuine /\ RepliesGenuine

-----------------------------------------------------------------------------
LEMMA AnsweringKept ==
    ASSUME Room!SmallWorkingSet, Room!Answering,
           \/ UNCHANGED cacheVars
           \/ /\ UNCHANGED now
              /\ \/ \E q \in Questions :
                       \/ Cache!Hit(q) \/ Cache!Expire(q) \/ Cache!Miss(q)
                       \/ Cache!MatchUndefined(q)
                 \/ \E record \in Cache!Record : Cache!InsertStored(record)
    PROVE  Room!Answering'
<1>1. Room!Accounting'
  BY AccountingKept DEF Room!Answering
<1>2. Room!AnswersItsQuestion'
  BY DEF Room!AnswersItsQuestion
<1>3. CASE UNCHANGED cacheVars
  BY <1>1, <1>2, <1>3
     DEF cacheVars, Room!Answering, Room!IndexMatchesList, Room!ListedAreCacheable,
         Room!NeverUndefined, Room!Lookup
<1>4. CASE ~UNCHANGED cacheVars
  <2>1. \/ \E q \in Room!Questions :
                 Room!Hit(q) \/ Room!Expire(q) \/ Room!Miss(q) \/ Room!MatchUndefined(q)
        \/ \E record \in Room!Record : Room!InsertIgnored(record) \/ Room!InsertStored(record)
    <3>1. Questions = Room!Questions
      BY DEF Questions, Room!Questions
    <3> QED
      BY <1>4, <3>1, SameData, SameMatch, SameInsert, Zenon
  <2>2. Room!IndexMatchesList' /\ Room!ListedAreCacheable' /\ Room!NeverUndefined'
    BY <2>1, Constants, Room!CallIndex
  <2> QED
    BY <1>1, <1>2, <2>2 DEF Room!Answering
<1> QED
  BY <1>3, <1>4

\* The record of a hit is that of the question: the trie led to the right cell.
LEMMA HitAnswers ==
    ASSUME Room!Answering, CellsGenuine, NEW q \in Questions, Cache!Hit(q)
    PROVE  cell[Cache!Lookup(q)].body.about = q
<1> DEFINE a == Cache!Lookup(q)
<1>1. Room!Hit(q) /\ q \in Room!Questions /\ a = Room!Lookup(q)
  BY SameData, SameMatch DEF Questions, Cache!Questions
<1>2. cell[a].question = q
  BY <1>1, Constants, Room!HitIndex DEF Room!Answering
<1>3. a # NULL /\ cell[a] # NULL
  BY DEF Cache!Hit
<1>4. a \in Addr
  BY <1>1, <1>3, Constants, Room!LookupListed
     DEF Room!Answering, Room!Accounting, Room!Hit, Room!Kept
<1> QED
  BY <1>2, <1>3, <1>4 DEF CellsGenuine

\* A call of the cache leaves in each cell what it was, nothing, or the record inserted.
LEMMA CellsAfterInsert ==
    ASSUME Room!TypeOK, NEW record, Cache!InsertStored(record), NEW a \in Addr
    PROVE  cell'[a] \in {cell[a], NULL, record}
<1>1. CASE Cache!InsertUndefined(record)
  BY <1>1 DEF Cache!InsertUndefined, Cache!Undefined
<1>2. CASE \E released, rest, index : Cache!Prepend(record, released, rest, index)
  BY <1>2 DEF Cache!Prepend
<1> QED
  BY <1>1, <1>2, Zenon
     DEF Cache!InsertStored, Cache!InsertNew, Cache!InsertReplace, Cache!InsertEvict

LEMMA CellsKept ==
    ASSUME Inv, Typed, Genuine, NEW w \in Workers, Resolves(w)
    PROVE  CellsGenuine'
<1> DEFINE q == Current(w)
           record == worker[w].fetched
<1>1. CellsGenuine /\ Room!TypeOK /\ Calls(w)
  BY DEF Genuine, Room!Answering, Room!Accounting, Resolves
<1>2. CASE UNCHANGED cell
  BY <1>1, <1>2 DEF CellsGenuine
<1>3. CASE Cache!Expire(q)
  BY <1>1, <1>3 DEF CellsGenuine, Cache!Expire, Room!TypeOK
<1>4. CASE worker[w].pc = "insert" /\ Cache!InsertStored(record)
  <2>1. record.body.about = record.question
    BY <1>4 DEF Genuine, WorkersGenuine, WorkerGenuine
  <2>2. \A a \in Addr : cell'[a] \in {cell[a], NULL, record}
    BY <1>1, <1>4, CellsAfterInsert
  <2> QED
    BY <1>1, <2>1, <2>2 DEF CellsGenuine
<1> QED
  BY <1>1, <1>2, <1>3, <1>4, Zenon
     DEF Calls, cacheVars, Cache!Hit, Cache!Miss, Cache!MatchUndefined, Cache!Undefined

LEMMA ObtainedAnswers ==
    ASSUME Inv, Typed, Genuine, NEW w \in Workers, Resolves(w), NEW body, Obtains(w, body)
    PROVE  Answers(body, Current(w))
<1>1. Current(w) \in Questions
  BY CallOfWorker
<1>2. CASE body = RuleBody(Current(w))
  BY <1>2 DEF Answers
<1>3. CASE Cache!Hit(Current(w)) /\ body = cell[Cache!Lookup(Current(w))].body
  BY <1>1, <1>3, HitAnswers DEF Genuine, Answers
<1>4. CASE worker[w].pc = "insert" /\ body = worker[w].fetched.body
  BY <1>4 DEF Genuine, WorkersGenuine, WorkerGenuine, Answers, Current
<1> QED
  BY <1>2, <1>3, <1>4 DEF Obtains

LEMMA WorkersKept ==
    ASSUME Inv, Typed, Genuine, NEW w \in Workers, Resolves(w)
    PROVE  WorkersGenuine'
<1> DEFINE l == worker[w]
           k == worker'[w]
<1>1. /\ message' = message /\ OnlyWorker(w) /\ k.job = l.job
      /\ StaysBehind(l, k) \/ Fetches(w, l, k) \/ Gathers(w, l, k)
  BY DEF Resolves, SameRequest
<1>2. WorkerGenuine(l, Asked(w)) /\ Asked(w)' = Asked(w)
  BY <1>1 DEF Genuine, WorkersGenuine, Asked
<1>3. WorkerGenuine(k, Asked(w))
  <2>1. CASE StaysBehind(l, k)
    BY <1>2, <2>1 DEF StaysBehind, WorkerGenuine
  <2>2. CASE Fetches(w, l, k)
    <3>1. k.answers = l.answers /\ MadeNow(k.fetched, Current(w)) /\ Current(w) \in Questions
      BY <2>2, CallOfWorker DEF Fetches
    <3>2. k.fetched.question = Current(w) /\ k.fetched.body.about = Current(w)
      BY <3>1, MadeRecord DEF Typed
    <3> QED
      BY <1>2, <3>1, <3>2 DEF WorkerGenuine, Current
  <2>3. CASE Gathers(w, l, k)
    <3> DEFINE n == Len(l.answers)
    <3>1. PICK body : Obtains(w, body) /\ k.answers = Append(l.answers, body)
      BY <2>3 DEF Gathers
    <3>2. Answers(body, Asked(w)[n + 1])
      BY <3>1, ObtainedAnswers DEF Current
    <3>3. /\ n \in Nat /\ DOMAIN l.answers = 1 .. n /\ DOMAIN k.answers = 1 .. n + 1
          /\ \A i \in 1 .. n : k.answers[i] = l.answers[i]
          /\ k.answers[n + 1] = body
      <4>1. IsSequence(l.answers)
        BY DEF Inv, Locals
      <4> QED
        BY <3>1, <4>1, AppendAnything
    <3> HIDE DEF n
    <3>4. ASSUME NEW i \in 1 .. n + 1 PROVE Answers(k.answers[i], Asked(w)[i])
      <4>1. CASE i \in 1 .. n
        BY <1>2, <3>3, <4>1 DEF WorkerGenuine
      <4>2. CASE i = n + 1
        BY <3>2, <3>3, <4>2
      <4> QED
        BY <3>3, <4>1, <4>2
    <3>5. k.pc # "insert"
      BY <2>3 DEF Gathers, Continue
    <3> QED
      BY <3>3, <3>4, <3>5 DEF WorkerGenuine
  <2> QED
    BY <1>1, <2>1, <2>2, <2>3
<1>4. ASSUME NEW v \in Workers \ {w} PROVE WorkerGenuine(worker'[v], Asked(v)')
  BY <1>1 DEF OnlyWorker, Asked, Genuine, WorkersGenuine
<1> QED
  BY <1>2, <1>3, <1>4 DEF WorkersGenuine

LEMMA ResolvingKeepsGenuine ==
    ASSUME Room!SmallWorkingSet, Inv, Typed, Genuine, NEW w \in Workers, Resolves(w)
    PROVE  Genuine'
<1>1. Room!Answering'
  BY CallOfWorker, AnsweringKept DEF Genuine
<1>2. CellsGenuine' /\ WorkersGenuine'
  BY CellsKept, WorkersKept
<1>3. RepliesGenuine'
  BY DEF Resolves, Genuine, RepliesGenuine
<1> QED
  BY <1>1, <1>2, <1>3 DEF Genuine

\* The steps outside dns_resolve leave the cache alone.
LEMMA ElsewhereKeepsGenuine ==
    ASSUME Room!SmallWorkingSet, Genuine, UNCHANGED cacheVars, WorkersGenuine', RepliesGenuine'
    PROVE  Genuine'
<1>1. Room!Answering'
  BY AnsweringKept DEF Genuine
<1>2. CellsGenuine'
  BY DEF Genuine, CellsGenuine, cacheVars
<1> QED
  BY <1>1, <1>2 DEF Genuine

LEMMA TakeKeepsGenuine ==
    ASSUME Room!SmallWorkingSet, Inv, Genuine, NEW w \in Workers, Take(w)
    PROVE  Genuine'
<1>1. /\ worker[w].pc = "idle" /\ UNCHANGED <<cacheVars, message, replies>> /\ Locals
  BY DEF Take, Inv
<1>2. PICK r : Takes(w, r, reloaded, Continue(message[r], 0))
  BY DEF Take, Takes
<1>3. /\ OnlyWorker(w)
      /\ worker'[w] = LocalsOf(Continue(message[r], 0), r, reloaded, <<>>,
                               worker[w].qid, worker[w].fetched)
  BY <1>1, <1>2, TakeLocals
<1>4. worker'[w].pc \in {"rules", "reply"} /\ worker'[w].answers = <<>>
  BY <1>3 DEF LocalsOf, Continue
<1>5. \A asked : WorkerGenuine(worker'[w], asked)
  BY <1>4 DEF WorkerGenuine
<1>6. WorkersGenuine'
  BY <1>1, <1>3, <1>5 DEF WorkersGenuine, Genuine, OnlyWorker, Asked
<1>7. RepliesGenuine'
  BY <1>1 DEF Genuine, RepliesGenuine
<1> QED
  BY <1>1, <1>6, <1>7, ElsewhereKeepsGenuine

\* handle_dns_request sends what its worker collected, or no record at all.
LEMMA FinishingKeepsGenuine ==
    ASSUME Room!SmallWorkingSet, Inv, Typed, Genuine, NEW w \in Workers,
           ReplyFailure(w) \/ ReplyAnswers(w) \/ DropAnswers(w)
    PROVE  Genuine'
<1> DEFINE l == worker[w]
           r == l.job
           sent(reply) == replies' = [replies EXCEPT ![r] = Append(@, reply)]
<1>1. /\ worker' = [worker EXCEPT ![w] = Idle]
      /\ UNCHANGED <<cacheVars, message>> /\ l.pc # "idle"
      /\ \/ UNCHANGED replies
         \/ sent(Reply(w, 3, <<>>))
         \/ l.pc = "reply" /\ \E rcode : sent(Reply(w, rcode, l.answers))
  BY DEF ReplyFailure, ReplyAnswers, DropAnswers, Finish
<1>2. /\ worker'[w] = Idle
      /\ \A v \in Workers \ {w} : worker'[v] = worker[v]
  BY <1>1 DEF Inv, Locals
<1>3. \A asked : WorkerGenuine(Idle, asked)
  BY DEF Idle, WorkerGenuine
<1>4. WorkersGenuine'
  BY <1>1, <1>2, <1>3 DEF WorkersGenuine, Genuine, Asked
<1>5. r \in Requests /\ replies[r] = <<>> /\ replies = [q \in Requests |-> replies[q]]
  BY <1>1 DEF Inv, Locals, Apart, RepliedAtEnd
<1>6. ASSUME NEW reply, sent(reply), ReplyGenuine(reply, message[r].questions)
      PROVE  RepliesGenuine'
  <2>1. /\ replies'[r] = Append(<<>>, reply)
        /\ \A q \in Requests \ {r} : replies'[q] = replies[q]
    BY <1>5, <1>6
  <2>2. DOMAIN Append(<<>>, reply) = {1} /\ Append(<<>>, reply)[1] = reply
    OBVIOUS
  <2> QED
    BY <1>1, <1>6, <2>1, <2>2 DEF Genuine, RepliesGenuine
<1>7. RepliesGenuine'
  <2>1. CASE UNCHANGED replies
    BY <1>1, <2>1 DEF Genuine, RepliesGenuine
  <2>2. CASE sent(Reply(w, 3, <<>>))
    <3>1. ReplyGenuine(Reply(w, 3, <<>>), message[r].questions)
      BY DEF ReplyGenuine, Reply
    <3> QED
      BY <1>6, <2>2, <3>1
  <2>3. CASE l.pc = "reply" /\ \E rcode : sent(Reply(w, rcode, l.answers))
    <3>1. PICK rcode : sent(Reply(w, rcode, l.answers))
      BY <2>3
    <3>2. Reply(w, rcode, l.answers).records = l.answers
      BY DEF Reply
    <3>3. Len(l.answers) = Len(Asked(w))
      BY <2>3 DEF Typed, TypedWorkers, AtQuestion
    <3>4. \A k \in DOMAIN l.answers : Answers(l.answers[k], Asked(w)[k])
      BY DEF Genuine, WorkersGenuine, WorkerGenuine
    <3>5. ReplyGenuine(Reply(w, rcode, l.answers), message[r].questions)
      BY <3>2, <3>3, <3>4 DEF ReplyGenuine, Asked
    <3> QED
      BY <1>6, <3>1, <3>5
  <2> QED
    BY <1>1, <2>1, <2>2, <2>3
<1> QED
  BY <1>1, <1>4, <1>7, ElsewhereKeepsGenuine

LEMMA ArriveKeepsGenuine ==
    ASSUME Room!SmallWorkingSet, Inv, Genuine, NEW r \in Requests, NEW m \in Messages,
           Arrive(r, m)
    PROVE  Genuine'
<1>1. /\ message[r] = NULL /\ message' = [message EXCEPT ![r] = m]
      /\ UNCHANGED <<cacheVars, worker, replies>>
  BY DEF Arrive
<1>2. \A q \in Requests \ {r} : message'[q] = message[q]
  BY <1>1 DEF Inv, Apart
<1>3. ASSUME NEW v \in Workers
      PROVE  WorkerGenuine(worker[v], Asked(v)')
  <2>1. CASE worker[v].pc = "idle"
    BY <2>1 DEF WorkerGenuine, Inv, Locals
  <2>2. CASE worker[v].pc # "idle"
    <3>1. worker[v].job \in Requests \ {r}
      BY <1>1, <2>2, NullAssumption DEF Inv, Apart, Locals
    <3>2. Asked(v)' = Asked(v)
      BY <1>1, <1>2, <3>1 DEF Asked
    <3> QED
      BY <3>2 DEF Genuine, WorkersGenuine
  <2> QED
    BY <2>1, <2>2
<1>4. WorkersGenuine'
  BY <1>1, <1>3 DEF WorkersGenuine
<1>5. replies[r] = <<>>
  BY <1>1 DEF Inv, Apart, RepliedAtEnd
<1>6. RepliesGenuine'
  BY <1>1, <1>2, <1>5 DEF Genuine, RepliesGenuine
<1> QED
  BY <1>1, <1>4, <1>6, ElsewhereKeepsGenuine

LEMMA TickKeepsGenuine ==
    ASSUME Typed, Genuine, Tick
    PROVE  Genuine'
<1>1. Room!Tick /\ UNCHANGED <<message, worker, replies>>
  BY SameState DEF Tick
<1>2. Room!Accounting'
  BY TickKeepsTypes DEF Typed
<1>3. Room!Answering'
  BY <1>1, <1>2
     DEF Genuine, Room!Answering, Room!IndexMatchesList, Room!ListedAreCacheable,
         Room!NeverUndefined, Room!AnswersItsQuestion, Room!Lookup, Room!Tick
<1> QED
  BY <1>1, <1>3 DEF Genuine, CellsGenuine, WorkersGenuine, RepliesGenuine, Asked, Room!Tick

LEMMA InitGenuine == Init => Genuine
<1> SUFFICES ASSUME Init PROVE Genuine
  OBVIOUS
<1>1. Room!Answering
  BY SameState, Constants, Room!AnsweringInit DEF Init
<1>2. CellsGenuine
  BY DEF Init, Cache!Init, CellsGenuine
<1>3. WorkersGenuine
  BY DEF Init, WorkersGenuine, WorkerGenuine, Idle
<1>4. RepliesGenuine
  BY DEF Init, RepliesGenuine
<1> QED
  BY <1>1, <1>2, <1>3, <1>4 DEF Genuine

LEMMA NextGenuine ==
    ASSUME Room!SmallWorkingSet, Inv, Typed, Genuine, [Next]_vars
    PROVE  Genuine'
<1>1. ASSUME NEW r \in Requests, NEW m \in Messages, Arrive(r, m)
      PROVE  Genuine'
  BY <1>1, ArriveKeepsGenuine
<1>2. ASSUME UNCHANGED <<cacheVars, message, worker, replies>>
      PROVE  Genuine'
  <2>1. WorkersGenuine' /\ RepliesGenuine'
    BY <1>2 DEF Genuine, WorkersGenuine, RepliesGenuine, Asked
  <2> QED
    BY <1>2, <2>1, ElsewhereKeepsGenuine
<1>3. ASSUME NEW w \in Workers, Step(w) \/ Receive(w)
      PROVE  Genuine'
  <2>1. CASE Take(w)
    BY <2>1, TakeKeepsGenuine
  <2>2. CASE \/ MatchRules(w) \/ MatchCache(w) \/ NewId(w) \/ Send(w) \/ SendNowhere(w)
             \/ Timeout(w) \/ InsertCache(w) \/ Receive(w)
    BY <2>2, ResolvingResolves, ResolvingKeepsGenuine DEF Inv
  <2>3. CASE ReplyFailure(w) \/ ReplyAnswers(w) \/ DropAnswers(w)
    BY <2>3, FinishingKeepsGenuine
  <2>4. CASE TakeResponse(w)
    BY <1>2, <2>4 DEF TakeResponse
  <2> QED
    BY <1>3, <2>1, <2>2, <2>3, <2>4 DEF Step
<1>4. CASE Reload
  BY <1>2, <1>4 DEF Reload
<1>5. CASE Tick
  BY <1>5, TickKeepsGenuine
<1>6. CASE UNCHANGED vars
  BY <1>2, <1>6 DEF vars, cacheVars
<1> QED
  BY <1>1, <1>3, <1>4, <1>5, <1>6 DEF Next

LEMMA GenuineInvariant ==
    ASSUME Room!SmallWorkingSet
    PROVE  Spec => []Genuine
<1>1. Inv /\ Typed /\ Genuine /\ [Next]_vars => Genuine'
  BY NextGenuine
<1> QED
  BY <1>1, InitGenuine, Invariant, TypedInvariant, PTL DEF Spec

LEMMA GenuineMatches == Genuine => RecordsMatchQuestions
BY DEF Genuine, RepliesGenuine, ReplyGenuine, Answers, RecordsMatchQuestions

\* With room for every question, the records of a reply are about its questions, in their
\* order, through the rules, the cache and the network alike: no interleaving of the
\* workers makes match_cacherules return, or handle_dns_request send, the answer to
\* another question.
THEOREM RepliesMatch ==
    ASSUME Room!SmallWorkingSet
    PROVE  Spec => []RecordsMatchQuestions
BY GenuineInvariant, GenuineMatches, PTL
=============================================================================
