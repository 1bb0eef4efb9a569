------------------------------ MODULE DnsWire ------------------------------
(***************************************************************************)
(* How src/dns.c reads and writes packets.  A packet is the sequence of    *)
(* its octets, at offsets that count from 0 as in the code; a name in the  *)
(* program is the sequence of its characters, with dots.                   *)
(***************************************************************************)
EXTENDS Integers, Sequences, FiniteSets, SequencesExt

CONSTANT MaxDomainLen   \* MAX_DOMAIN_LEN, 256

Octet == 0 .. 255
Word == {n \in Nat : n < 65536}
Dot == 46

\* Numbers are in network byte order: ntohs, ntohl, htons and htonl.  Behind the end of
\* a packet its array holds what it held before, for which 0 stands.
U8(buf, k) == IF k < Len(buf) THEN buf[k + 1] ELSE 0
U16(buf, k) == 256 * U8(buf, k) + U8(buf, k + 1)

\* The octets from offset first to before offset last.
Octets(buf, first, last) == [i \in 1 .. last - first |-> U8(buf, first + i - 1)]

\* What dns_query starts the least time to live with.
MaxTtl == 2147483647

\* From there on it is all one.
U32(buf, k) == IF U16(buf, k) >= 32768 THEN MaxTtl ELSE 65536 * U16(buf, k) + U16(buf, k + 2)

Put16(n) == <<n \div 256, n % 256>>

Put32(n) == Put16(n \div 65536) \o Put16(n % 65536)

HeaderLen == 12

\* The header in host order, without the bits that nothing looks at.
Header(buf) ==
    [id |-> U16(buf, 0), qr |-> U8(buf, 2) \div 128, rcode |-> U8(buf, 3) % 16,
     qdcount |-> U16(buf, 4), ancount |-> U16(buf, 6), nscount |-> U16(buf, 8),
     arcount |-> U16(buf, 10)]

PutHeader(h) ==
    Put16(h.id) \o <<128 * h.qr, h.rcode>> \o Put16(h.qdcount) \o Put16(h.ancount)
    \o Put16(h.nscount) \o Put16(h.arcount)

\* str_toupper
ToUpper(name) == [i \in DOMAIN name |-> IF name[i] \in 97 .. 122 THEN name[i] - 32 ELSE name[i]]

\* Mutant of ParseQname: reading goes on where the compressed name was found.
ParseQnameThrough(buf, offset) ==
    LET parse[left \in 0 .. Len(buf)] == [k \in Nat |->
            LET n == U8(buf, k) IN
            IF n = 0 \/ left = 0 THEN [name |-> <<>>, next |-> k + 1]
            ELSE IF n >= 192 THEN parse[left - 1][U16(buf, k) % 16384]
            ELSE LET rest == parse[left - 1][k + n + 1]
                 IN  [rest EXCEPT !.name = Octets(buf, k + 1, k + n + 1) \o <<Dot>> \o @]]
        parsed == parse[Len(buf)][offset]
    IN  [parsed EXCEPT !.name = SubSeq(@, 1, Len(@) - 1)]

\* dns_parse_qname: the name at offset, and where reading goes on.  Two high bits
\* make a length the offset of the rest of the name.  A name has no more labels left
\* than the packet has octets, unless it contains itself: that one does not fit.
ParseQname(buf, offset) ==
    LET parse[left \in 0 .. Len(buf)] == [k \in Nat |->
            LET n == U8(buf, k) IN
            IF n = 0 \/ left = 0 THEN [name |-> <<>>, next |-> k + 1]
            ELSE IF n >= 192
                 THEN [name |-> parse[left - 1][U16(buf, k) % 16384].name, next |-> k + 2]
            ELSE LET rest == parse[left - 1][k + n + 1]
                 IN  [rest EXCEPT !.name = Octets(buf, k + 1, k + n + 1) \o <<Dot>> \o @]]
        parsed == parse[Len(buf)][offset]
    IN  [parsed EXCEPT !.name = SubSeq(@, 1, Len(@) - 1)]

\* What it writes: each label with a dot, of which the last becomes the end of the
\* string.  A name that leaves the packet or contains itself is as good as too long.
QnameLen(buf, offset) ==
    LET len[left \in 0 .. Len(buf)] == [k \in Nat |->
            LET n == U8(buf, k) IN
            IF left = 0 \/ k >= Len(buf) THEN MaxDomainLen + 1
            ELSE IF n = 0 THEN 0
            ELSE IF n >= 192 THEN len[left - 1][U16(buf, k) % 16384]
            ELSE n + 1 + len[left - 1][k + n + 1]]
    IN  len[Len(buf)][offset]

\* Whether that stays inside of the array for a name.  The end of a root name is
\* written in front of it.
NameFits(buf, offset) == QnameLen(buf, offset) \in 1 .. MaxDomainLen

\* dns_parse_questions: question by question.
FirstQuestions(buf, count) ==
    LET parse[n \in 0 .. count] ==
            IF n = 0 THEN [questions |-> <<>>, offset |-> HeaderLen]
            ELSE LET name == ParseQname(buf, parse[n - 1].offset)
                 IN  [questions |-> Append(parse[n - 1].questions,
                                           [qname |-> name.name,
                                            qtype |-> U16(buf, name.next),
                                            qclass |-> U16(buf, name.next + 2)]),
                      offset |-> name.next + 4]
    IN  parse[count]

ParseQuestions(buf) == FirstQuestions(buf, Header(buf).qdcount)

QuestionsFit(buf) ==
    \A n \in 0 .. Header(buf).qdcount - 1 : NameFits(buf, FirstQuestions(buf, n).offset)

\* Mutant of ToQname: the length of a label with the wrong sign.
ToQnameNegative(name) ==
    LET labelEnd(i) == CHOOSE e \in i .. Len(name) + 1 :
                           /\ e = Len(name) + 1 \/ name[e] = Dot
                           /\ \A j \in i .. e - 1 : name[j] # Dot
    IN  [i \in 1 .. Len(name) + 2 |->
            IF i = Len(name) + 2 THEN 0
            ELSE IF i = 1 \/ name[i - 1] = Dot THEN i - labelEnd(i)
            ELSE name[i - 1]]

\* dns_to_qname: in front of each label, where the dot before it was, its length.
ToQname(name) ==
    LET labelEnd(i) == CHOOSE e \in i .. Len(name) + 1 :
                           /\ e = Len(name) + 1 \/ name[e] = Dot
                           /\ \A j \in i .. e - 1 : name[j] # Dot
    IN  [i \in 1 .. Len(name) + 2 |->
            IF i = Len(name) + 2 THEN 0
            ELSE IF i = 1 \/ name[i - 1] = Dot THEN labelEnd(i) - i
            ELSE name[i - 1]]

\* dns_query_buf_new
QueryBuf(question, id) ==
    PutHeader([id |-> id, qr |-> 0, rcode |-> 0, qdcount |-> 1, ancount |-> 0, nscount |-> 0,
               arcount |-> 0])
    \o ToQname(question.qname) \o Put16(question.qtype) \o Put16(question.qclass)

\* dns_resource_to_buf, for the type A that all rules have.
ResourceToBuf(name, address) ==
    ToQname(name) \o Put16(1) \o Put16(1) \o Put32(600) \o Put16(4) \o address

-----------------------------------------------------------------------------
\* The types of records that dns_query knows in an answer, and the one it takes every
\* record of the authority for.
A == 1
CNAME == 5
SOA == 6
MX == 15
AAAA == 28

\* Mutant of SkipData: the preference of a mail exchange is forgotten.
SkipDataWithoutPreference(buf, type, offset) ==
    CASE type = A -> offset + 4
      [] type = AAAA -> offset + 16
      [] type \in {CNAME, MX} -> ParseQname(buf, offset).next

\* Where a record's data end that begin at offset: by its type, not by its rdlength.
SkipData(buf, type, offset) ==
    CASE type = A -> offset + 4
      [] type = AAAA -> offset + 16
      [] type = CNAME -> ParseQname(buf, offset).next
      [] type = MX -> ParseQname(buf, offset + 2).next

\* Where they end in the authority section, where every record is taken for a SOA.
SkipSoa(buf, offset) ==
    LET mailbox == ParseQname(buf, offset).next
    IN  ParseQname(buf, mailbox).next + 20

\* Mutant of MinTtl: the last record counts.
LastTtl(ttl, buf, offset) == U32(buf, offset)

MinTtl(ttl, buf, offset) == IF U32(buf, offset) < ttl THEN U32(buf, offset) ELSE ttl

\* One record of dns_query's loop over the answers; ok is FALSE behind a type it does
\* not know.
NextAnswer(buf, acc) ==
    LET fixed == ParseQname(buf, acc.offset).next
        type == U16(buf, fixed)
    IN  IF ~acc.ok \/ type \notin {A, AAAA, CNAME, MX} THEN [acc EXCEPT !.ok = FALSE]
        ELSE [acc EXCEPT !.ttl = MinTtl(@, buf, fixed + 4),
                         !.offset = SkipData(buf, type, fixed + 10)]

\* One record of its loop over the authority.
NextAuthority(buf, acc) ==
    LET fixed == ParseQname(buf, acc.offset).next
    IN  [acc EXCEPT !.ttl = MinTtl(@, buf, fixed + 4), !.offset = SkipSoa(buf, fixed + 10)]

\* The loops, from acc on.
ReadAnswers(buf, acc, count) ==
    LET read[n \in 0 .. count] == IF n = 0 THEN acc ELSE NextAnswer(buf, read[n - 1])
    IN  read[count]

ReadAuthority(buf, acc, count) ==
    LET read[n \in 0 .. count] == IF n = 0 THEN acc ELSE NextAuthority(buf, read[n - 1])
    IN  read[count]

\* The offsets of the names that the loops read.
AnswerNames(buf, acc) ==
    LET fixed == ParseQname(buf, acc.offset).next
        type == U16(buf, fixed)
    IN  {acc.offset} \cup CASE type = CNAME -> {fixed + 10}
                           [] type = MX -> {fixed + 12}
                           [] OTHER -> {}

AuthorityNames(buf, acc) ==
    LET data == ParseQname(buf, acc.offset).next + 10
    IN  {acc.offset, data, ParseQname(buf, data).next}

NamesFit(buf, queryLen) ==
    LET h == Header(buf)
        answers(n) == ReadAnswers(buf, [offset |-> queryLen, ttl |-> MaxTtl, ok |-> TRUE], n)
        authority(n) == ReadAuthority(buf, answers(h.ancount), n)
    IN  /\ \A n \in 0 .. h.ancount - 1 :
              answers(n).ok => \A k \in AnswerNames(buf, answers(n)) : NameFits(buf, k)
        /\ answers(h.ancount).ok =>
              \A n \in 0 .. h.nscount - 1 :
                  \A k \in AuthorityNames(buf, authority(n)) : NameFits(buf, k)

\* dns_query from the packet it accepted, the answer to a query of queryLen octets.
\* What follows the answers is kept as the authority, additional records included.
ReadAnswer(buf, queryLen) ==
    LET h == Header(buf)
        answers == ReadAnswers(buf, [offset |-> queryLen, ttl |-> MaxTtl, ok |-> TRUE],
                               h.ancount)
    IN  [ok |-> answers.ok,
         answer_rr |-> h.ancount,
         authority_rr |-> h.nscount,
         answer_buf |-> Octets(buf, queryLen, answers.offset),
         authority_buf |-> Octets(buf, answers.offset, Len(buf)),
         ttl |-> IF answers.ok THEN ReadAuthority(buf, answers, h.nscount).ttl ELSE 0]
=============================================================================
