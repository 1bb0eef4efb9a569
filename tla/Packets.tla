------------------------------ MODULE Packets ------------------------------
(***************************************************************************)
(* One request through one worker, octet by octet: handle_dns_request,     *)
(* dns_resolve and dns_query of src/dns.c over the conversions of DnsWire  *)
(* and the trie of the rules.  What other threads do meanwhile is module   *)
(* Relay; the cache, which returns a copy of what was inserted, is left    *)
(* out, and so are strays and timeouts but for their outcome.              *)
(*                                                                         *)
(* Clients and the upstream server are external: their packets are well    *)
(* formed, and the server repeats the question of the query.               *)
(***************************************************************************)
EXTENDS Integers, Sequences, FiniteSets, SequencesExt

CONSTANTS
    BufLen,         \* MAX_DNSBUF_LEN, 1024
    MaxDomainLen,   \* MAX_DOMAIN_LEN, 256
    ReplyRoom,      \* 512, the most octets of a reply
    Messages,       \* what clients send: an id, qr, arcount and questions
    Files,          \* the rules file: sequences of a name and an address, both octets
    Answers,        \* what the upstream server answers: the records of each section, and
                    \* whether any of their names are compressed
    NULL

VARIABLES
    message,    \* what the client sent
    file,       \* the rules file
    pc,         \* where the worker is
    buf,        \* args->buf
    questions,  \* the questions parsed
    offset,     \* where they end
    query,      \* the query sent upstream, NULL if none is under way
    answers,    \* the answers collected
    sources,    \* of each, the query it is for and what the server gave, NULL for a rule
    sent,       \* the reply, NULL if none was sent
    status      \* "up" or "undefined"

vars == <<message, file, pc, buf, questions, offset, query, answers, sources, sent, status>>

INSTANCE DnsWire

\* N = 46 children from FIRST_CHAR, the dash.
Alphabet == 45 .. 90

\* SearchTrie and InsertTrie index the children outside of the array for other letters.
Table == INSTANCE Trie WITH Letter <- Octet, Data <- [1 .. 4 -> Octet], NoData <- NULL

ASSUME NullAssumption ==
    /\ NULL \notin [1 .. 4 -> Octet]
    /\ NULL \notin [query : Seq(Int), given : Answers]
    /\ NULL \notin Seq(Nat)

\* 512 is the most octets of a packet of DNS over UDP.
ASSUME LengthsAssumption ==
    BufLen \in 0 .. 1024 /\ ReplyRoom \in Nat /\ 2 * ReplyRoom <= BufLen /\ MaxDomainLen \in Nat

ASSUME FilesAssumption ==
    Files \subseteq Seq([name : Seq(Octet), address : [1 .. 4 -> Octet]])

InAlphabet(name) == \A i \in DOMAIN name : name[i] \in Alphabet

-----------------------------------------------------------------------------
\* A name in a packet: labels behind their lengths, each of which begins at a place of its
\* own, up to the root or, if it is compressed, to the offset of the rest of it.
NameInPacket(name, compressed) ==
    \E places \in SUBSET DOMAIN name :
        /\ 1 \in places
        /\ \A k \in places : \/ name[k] = 0 /\ k = Len(name)
                             \/ name[k] >= 192 /\ k = Len(name) - 1 /\ compressed
                             \/ name[k] \in 1 .. 63 /\ k + name[k] + 1 \in places

WireName(name) == NameInPacket(name, TRUE)

\* The client's datagram.
ClientPacket(m) ==
    PutHeader([id |-> m.id, qr |-> m.qr, rcode |-> 0, qdcount |-> Len(m.questions),
               ancount |-> 0, nscount |-> 0, arcount |-> m.arcount])
    \o FlattenSeq([i \in DOMAIN m.questions |->
                      m.questions[i].name \o Put16(m.questions[i].qtype) \o Put16(1)])

ASSUME MessagesAssumption == \A m \in Messages : ClientPacket(m) \in Seq(Octet)

\* A name is compressed with one before it, which the first question has not.
ASSUME QuestionsAssumption ==
    /\ Messages \subseteq [id : Word, qr : {0, 1}, arcount : Word,
                           questions : Seq([name : Seq(Octet), qtype : Word])]
    /\ \A m \in Messages :
          /\ Len(ClientPacket(m)) <= ReplyRoom
          /\ \A i \in DOMAIN m.questions : NameInPacket(m.questions[i].name, i # 1)

RecordBuf(r) ==
    r.name \o Put16(r.type) \o Put16(1) \o Put32(r.ttl) \o Put16(Len(r.data)) \o r.data

Section(records) == FlattenSeq([i \in DOMAIN records |-> RecordBuf(records[i])])

\* The data of a record, as far as its type says what they are.
WireData(type, data) ==
    /\ type = A => Len(data) = 4
    /\ type = AAAA => Len(data) = 16
    /\ type = CNAME => WireName(data)
    /\ type = MX => Len(data) > 2 /\ WireName(SubSeq(data, 3, Len(data)))
    /\ type = SOA => \E k \in 1 .. Len(data) - 21 :
                        /\ WireName(SubSeq(data, 1, k))
                        /\ WireName(SubSeq(data, k + 1, Len(data) - 20))

WireRecord(r) == WireName(r.name) /\ WireData(r.type, r.data)

ASSUME AnswersAssumption ==
    \A a \in Answers : \A records \in {a.an, a.ns, a.ar} :
        /\ records \in Seq([name : Seq(Octet), type : Word, ttl : 0 .. MaxTtl,
                            data : Seq(Octet)])
        /\ \A i \in DOMAIN records : Len(records[i].data) \in Word /\ WireRecord(records[i])

\* The server's packet with answer a to query q.
UpstreamPacket(q, a) ==
    PutHeader([Header(q) EXCEPT !.qr = 1, !.ancount = Len(a.an), !.nscount = Len(a.ns),
                                !.arcount = Len(a.ar)])
    \o SubSeq(q, HeaderLen + 1, Len(q)) \o Section(a.an) \o Section(a.ns) \o Section(a.ar)

-----------------------------------------------------------------------------
\* The front trie: read_rules_to_trie, line by line.
Rules ==
    LET table[k \in 0 .. Len(file)] ==
            IF k = 0 THEN Table!EmptyTrie
            ELSE Table!InsertTrie(table[k - 1], ToUpper(file[k].name), file[k].address)
    IN  table[Len(file)]

\* fscanf reads a word into an array for a name, and then insert_trie finds a child for
\* each letter, or else it writes outside of the children.
RulesFit(lines) ==
    \A k \in DOMAIN lines : /\ Len(lines[k].name) < MaxDomainLen
                            /\ InAlphabet(ToUpper(lines[k].name))

Init ==
    /\ message \in Messages /\ file \in Files
    /\ pc = "parse"
    /\ buf = ClientPacket(message)
    /\ questions = <<>> /\ offset = 0
    /\ query = NULL
    /\ answers = <<>> /\ sources = <<>>
    /\ sent = NULL
    /\ status = IF RulesFit(file) THEN "up" ELSE "undefined"

\* The question that is resolved next.
Current == questions[Len(answers) + 1]

Goto(next) ==
    /\ pc' = next
    /\ UNCHANGED <<message, file, buf>>

\* A datagram that is a response is dropped.
ParseResponse ==
    /\ pc = "parse" /\ status = "up" /\ Header(buf).qr = 1
    /\ Goto("done")
    /\ UNCHANGED <<questions, offset, query, answers, sources, sent, status>>

\* Mutant of ParseRequest: names keep the client's case.
ParseRequestAsWritten ==
    /\ pc = "parse" /\ status = "up" /\ Header(buf).qr = 0
    /\ LET parsed == ParseQuestions(buf) IN
       /\ questions' = parsed.questions
       /\ offset' = parsed.offset
       /\ status' = IF QuestionsFit(buf) THEN "up" ELSE "undefined"
    /\ Goto(IF Len(questions') = 0 THEN "reply" ELSE "resolve")
    /\ UNCHANGED <<query, answers, sources, sent>>

\* dns_parse_questions and str_toupper.
ParseRequest ==
    /\ pc = "parse" /\ status = "up" /\ Header(buf).qr = 0
    /\ LET parsed == ParseQuestions(buf) IN
       /\ questions' = [i \in DOMAIN parsed.questions |->
                           [parsed.questions[i] EXCEPT !.qname = ToUpper(@)]]
       /\ offset' = parsed.offset
       /\ status' = IF QuestionsFit(buf) THEN "up" ELSE "undefined"
    /\ Goto(IF Len(questions') = 0 THEN "reply" ELSE "resolve")
    /\ UNCHANGED <<query, answers, sources, sent>>

\* An answer is appended, and the next question is up.
Collect(answer, source) ==
    /\ answers' = Append(answers, answer)
    /\ sources' = Append(sources, source)
    /\ query' = NULL
    /\ Goto(IF Len(answers) + 1 < Len(questions) THEN "resolve" ELSE "reply")
    /\ UNCHANGED <<questions, offset, sent, status>>

Resolving == pc = "resolve" /\ status = "up"

Supported(q) == q.qtype \in {A, AAAA, CNAME, MX}

\* dns_resolve fails: an unsupported type, or a rule that blocks the name.
Refuse ==
    /\ Resolving
    /\ \/ ~Supported(Current)
       \/ /\ InAlphabet(Current.qname)
          /\ Table!SearchTrie(Rules, Current.qname) = <<0, 0, 0, 0>>
    /\ Goto("fail")
    /\ UNCHANGED <<questions, offset, query, answers, sources, sent, status>>

\* The key of the cache is the name behind five characters, in an array for a name.
KeyFits(qname) == 5 + Len(qname) < MaxDomainLen

\* A letter without a child of its own in the array of children, or a name that no rule
\* has and that is too long for the key of the cache.
SearchOutside ==
    /\ Resolving /\ Supported(Current)
    /\ \/ ~InAlphabet(Current.qname)
       \/ Table!SearchTrie(Rules, Current.qname) = NULL /\ ~KeyFits(Current.qname)
    /\ status' = "undefined"
    /\ Goto("done")
    /\ UNCHANGED <<questions, offset, query, answers, sources, sent>>

AnswerByRule ==
    /\ Resolving /\ Supported(Current) /\ InAlphabet(Current.qname)
    /\ LET address == Table!SearchTrie(Rules, Current.qname)
       IN  /\ address \notin {NULL, <<0, 0, 0, 0>>}
           /\ Collect([ok |-> TRUE, answer_rr |-> 1, authority_rr |-> 0,
                       answer_buf |-> ResourceToBuf(Current.qname, address),
                       authority_buf |-> <<>>, ttl |-> 600], NULL)

\* dns_query sends its packet.
Ask ==
    /\ Resolving /\ Supported(Current) /\ InAlphabet(Current.qname)
    /\ Table!SearchTrie(Rules, Current.qname) = NULL /\ KeyFits(Current.qname)
    /\ query' = QueryBuf(Current, 258)
    /\ Goto("recv")
    /\ UNCHANGED <<questions, offset, answers, sources, sent, status>>

\* The answer to it comes and is read.  The server sends no more than the array holds:
\* the query asks for no more than the 512 octets of DNS over UDP.
Receive(a) ==
    /\ pc = "recv" /\ Len(UpstreamPacket(query, a)) <= BufLen
    /\ LET packet == UpstreamPacket(query, a)
           answer == ReadAnswer(packet, Len(query))
           fits == NamesFit(packet, Len(query))
       IN  \/ fits /\ answer.ok /\ Collect(answer, [query |-> query, given |-> a])
           \/ /\ fits /\ ~answer.ok
              /\ Goto("fail")
              /\ UNCHANGED <<questions, offset, query, answers, sources, sent, status>>
           \/ /\ ~fits
              /\ status' = "undefined"
              /\ Goto("done")
              /\ UNCHANGED <<questions, offset, query, answers, sources, sent>>

\* Nothing comes in time.
GiveUp ==
    /\ pc = "recv"
    /\ Goto("fail")
    /\ UNCHANGED <<questions, offset, query, answers, sources, sent, status>>

-----------------------------------------------------------------------------
\* What is added to a count of the header, answer by answer.
Total(field) ==
    LET total[n \in 0 .. Len(answers)] == IF n = 0 THEN 0 ELSE total[n - 1] + answers[n][field]
    IN  total[Len(answers)]

\* Mutant of ReplyHeader: dns_header_htons is forgotten.
ReplyHeaderUnconverted(rcode) ==
    LET h == Header(buf)
        host(n) == <<n % 256, n \div 256>>
    IN  host(h.id) \o <<128, rcode>> \o host(h.qdcount) \o host(h.ancount + Total("answer_rr"))
        \o host(h.nscount + Total("authority_rr")) \o host(h.arcount)

\* The client's header with what the answers add.
ReplyHeader(rcode) ==
    PutHeader([Header(buf) EXCEPT !.qr = 1, !.rcode = rcode, !.ancount = @ + Total("answer_rr"),
                                  !.nscount = @ + Total("authority_rr")])

Asked == SubSeq(buf, HeaderLen + 1, offset)

ReplyFailure ==
    /\ pc = "fail"
    /\ sent' = ReplyHeader(3) \o Asked
    /\ Goto("done")
    /\ UNCHANGED <<questions, offset, query, answers, sources, status>>

\* What is written behind the questions, in this order: the answer sections of all
\* answers, then their authority sections.
Body ==
    [i \in DOMAIN answers |-> IF answers[i].answer_rr > 0 THEN answers[i].answer_buf ELSE <<>>]
    \o [i \in DOMAIN answers |-> IF answers[i].authority_rr > 0 THEN answers[i].authority_buf
                                 ELSE <<>>]

\* Where writing stops: behind the first part that leaves the room of a reply, which
\* is checked when it is written.
End(k) == offset + Len(FlattenSeq(SubSeq(Body, 1, k)))

TooLong == {k \in DOMAIN Body : End(k) > ReplyRoom}

Written == IF TooLong = {} THEN Len(Body) ELSE CHOOSE k \in TooLong : \A j \in TooLong : k <= j

\* The reply is put together in an array of BufLen octets, and sent unless it is too long.
ReplyAnswers ==
    /\ pc = "reply"
    /\ \/ /\ End(Written) > BufLen
          /\ status' = "undefined"
          /\ UNCHANGED sent
       \/ /\ End(Written) <= BufLen /\ TooLong # {}
          /\ UNCHANGED <<sent, status>>
       \/ /\ TooLong = {}
          /\ sent' = ReplyHeader(IF \E i \in DOMAIN answers : answers[i].answer_rr = 0
                                 THEN 3 ELSE 0) \o Asked \o FlattenSeq(Body)
          /\ UNCHANGED status
    /\ Goto("done")
    /\ UNCHANGED <<questions, offset, query, answers, sources>>

Next ==
    \/ ParseResponse \/ ParseRequest
    \/ Refuse \/ SearchOutside \/ AnswerByRule \/ Ask
    \/ GiveUp \/ \E a \in Answers : Receive(a)
    \/ ReplyFailure \/ ReplyAnswers

Spec == Init /\ [][Next]_vars

-----------------------------------------------------------------------------
(***************************************************************************)
(* Properties                                                              *)
(***************************************************************************)

\* The variables have their types: packets are octets.
TypeOK ==
    /\ message \in Messages /\ file \in Files
    /\ pc \in {"parse", "resolve", "recv", "fail", "reply", "done"}
    /\ offset \in 0 .. BufLen
    /\ \A packet \in {buf, sent, query} \ {NULL} : packet \in Seq(Octet)
    /\ \A i \in DOMAIN questions : questions[i].qname \in Seq(Octet)
    /\ \A i \in DOMAIN answers : answers[i].answer_buf \o answers[i].authority_buf \in Seq(Octet)
    /\ Len(sources) = Len(answers) /\ Len(answers) <= Len(questions)
    /\ status \in {"up", "undefined"}

\* How packets are read by the rules of DNS, for reference: a name is its labels, in
\* upper case and no more than the packet has octets, and a record ends where its
\* rdlength says.
Name(p, start) ==
    LET name[left \in 0 .. Len(p)] == [k \in Nat |->
            LET n == U8(p, k) IN
            IF n = 0 \/ left = 0 THEN <<>>
            ELSE IF n >= 192 THEN name[left - 1][U16(p, k) - 49152]
            ELSE <<ToUpper(Octets(p, k + 1, k + n + 1))>> \o name[left - 1][k + n + 1]]
    IN  name[Len(p)][start]

PastName(p, start) ==
    LET past[left \in 0 .. Len(p)] == [k \in Nat |->
            IF U8(p, k) = 0 \/ left = 0 THEN k + 1
            ELSE IF U8(p, k) >= 192 THEN k + 2 ELSE past[left - 1][k + U8(p, k) + 1]]
    IN  past[Len(p)][start]

\* Question i of packet p, and where the first i end.
PastQuestions(p, i) ==
    LET past[k \in 0 .. i] == IF k = 0 THEN HeaderLen ELSE PastName(p, past[k - 1]) + 4
    IN  past[i]

QuestionOf(p, i) ==
    LET start == PastQuestions(p, i - 1)
    IN  [name |-> Name(p, start), qtype |-> U16(p, PastName(p, start))]

\* A dot may be part of a label, but not in the program.
HasDot(question) == \E label \in ToSet(question.name) : Dot \in ToSet(label)

\* The record at k, of which data other than names are octets, and count records.
RecordAt(p, k) ==
    LET fixed == PastName(p, k)
        type == U16(p, fixed)
        data == fixed + 10
    IN  [name |-> Name(p, k), type |-> type, ttl |-> U32(p, fixed + 4),
         data |-> CASE type = CNAME -> Name(p, data)
                    [] type = MX -> <<U16(p, data), Name(p, data + 2)>>
                    [] OTHER -> SubSeq(p, data + 1, data + U16(p, fixed + 8))]

PastRecord(p, k) == PastName(p, k) + 10 + U16(p, PastName(p, k) + 8)

Records(p, start, count) ==
    LET past[n \in 0 .. count] == IF n = 0 THEN start ELSE PastRecord(p, past[n - 1])
    IN  [n \in 1 .. count |-> RecordAt(p, past[n - 1])]

\* The records that answer i has to pass on.
Given(i, section) ==
    LET p == UpstreamPacket(sources[i].query, sources[i].given)
        all == Records(p, Len(sources[i].query), Len(sources[i].given.an) + Len(sources[i].given.ns))
        an == Len(sources[i].given.an)
    IN  IF sources[i] # NULL
        THEN IF section = "an" THEN SubSeq(all, 1, an) ELSE SubSeq(all, an + 1, Len(all))
        ELSE IF section = "an"
             THEN <<[name |-> QuestionOf(buf, i).name, type |-> A, ttl |-> 600,
                     data |-> SubSeq(answers[i].answer_buf, Len(answers[i].answer_buf) - 3,
                                     Len(answers[i].answer_buf))]>>
             ELSE <<>>

\* The server is asked the client's question, whatever the case of the name and however
\* it was compressed behind the questions before it.  A label with a dot in it becomes
\* two.
QueryAsksTheQuestion ==
    LET asked == QuestionOf(buf, Len(answers) + 1)
    IN  pc = "recv" /\ ~HasDot(asked) =>
            /\ Header(query).qdcount = 1
            /\ QuestionOf(query, 1) = asked
            /\ PastQuestions(query, 1) = Len(query)

\* The answers of the server's packet are cut from the rest exactly, though the code goes
\* by the types of the records and not by their lengths.
SectionsAreCut ==
    \A i \in DOMAIN answers : sources[i] # NULL =>
        LET given == sources[i].given IN
        /\ answers[i].answer_buf = Section(given.an)
        /\ answers[i].authority_buf = Section(given.ns) \o Section(given.ar)

\* An answer is cached no longer than any record of its answer and authority sections
\* allows, if it has some and those of the authority are a SOA or a single one: the
\* records behind one of another type are read from the wrong place.  The additional
\* records are passed on with the authority (dns.c lines 313 to 316), but nobody looks at
\* their times to live, although line 272 speaks of every record.
TtlIsLeast ==
    \A i \in DOMAIN answers : sources[i] # NULL =>
        LET given == sources[i].given
            ttls == {r.ttl : r \in ToSet(given.an \o given.ns)}
        IN  /\ ttls # {}
            /\ Len(given.ns) <= 1 \/ \A r \in ToSet(given.ns) : r.type = SOA
            => answers[i].ttl \in ttls /\ \A t \in ttls : answers[i].ttl <= t

\* A rule answers a question exactly if a line of the file has its name, in whatever
\* case, with the address of the last such line; what else is answered the server was
\* asked.
RulesDecide ==
    \A i \in DOMAIN answers :
        LET lines == {k \in DOMAIN file : ToUpper(file[k].name) = questions[i].qname}
            data == answers[i].answer_buf
        IN  /\ sources[i] = NULL <=> lines # {}
            /\ sources[i] = NULL =>
                  \E k \in lines : /\ \A l \in lines : l <= k
                                  /\ SubSeq(data, Len(data) - 3, Len(data)) = file[k].address

\* A reply reads back as what was asked and found: the id and the questions are the
\* client's, the counts are those of the records, and each record has the name, the
\* time to live and the data it came with.  Compressed names and additional records
\* of the server's packets are at the wrong offset in a reply to several questions, and
\* the record of a rule names no label with a dot.
ReplyReadsBack ==
    /\ sent # NULL
    /\ Len(answers) = Len(questions)
    /\ \A i \in DOMAIN questions : ~HasDot(QuestionOf(buf, i))
    /\ Len(questions) = 1 \/ \A i \in DOMAIN sources :
          sources[i] # NULL => ~sources[i].given.compressed /\ sources[i].given.ar = <<>>
    => LET h == Header(sent)
           all(section) == FlattenSeq([i \in DOMAIN answers |-> Given(i, section)])
           n == Len(questions)
       IN  /\ h.id = message.id /\ h.qr = 1 /\ h.qdcount = n
           /\ \A i \in 1 .. n : QuestionOf(sent, i) = QuestionOf(buf, i)
           /\ h.ancount = Len(all("an")) /\ h.nscount = Len(all("ns"))
           /\ Records(sent, PastQuestions(sent, n), h.ancount + h.nscount) = all("an") \o all("ns")

\* Undefined behaviour needs an odd rule, several questions, whose answers together may be
\* longer than the array of the reply, a question with a root name, with a letter that the
\* trie has no child for or with a name of more than 252 of the 255 octets it may have in
\* a packet, or a query to which the server may answer with a name that does not fit.  The
\* reply to a single question stays inside of its array, though its length is checked
\* behind the writing.
UndefinedNeedsOddity ==
    status = "undefined" =>
        \/ ~RulesFit(file)
        \/ Len(questions) > 1
        \/ LET name == QuestionOf(buf, 1).name
           IN  name = <<>> \/ \E i \in DOMAIN name : ~InAlphabet(name[i])
        \/ questions # <<>> /\ Len(message.questions[1].name) > MaxDomainLen - 4
        \/ query # NULL /\ \E a \in Answers : ~NamesFit(UpstreamPacket(query, a), Len(query))
=============================================================================
