----------------------------- MODULE MCPackets -----------------------------
(***************************************************************************)
(* The instance of Packets for TLC.  Lengths are a sixth of the code's.    *)
(***************************************************************************)
EXTENDS Packets

\* Names in a packet: a.b in either case and as one label, _, the root, and behind a.b at
\* 12 the rest of it, alone and with a label in front.  Then names of the most octets that
\* fit the key of the cache, of one more, of the most that fit an array for a name, of one
\* more, and one behind a.b that contains itself.
ab == <<1, 97, 1, 98, 0>>
AB == <<1, 65, 1, 66, 0>>
underscore == <<1, 95, 0>>
oneLabel == <<3, 65, 46, 66, 0>>
root == <<0>>
rest == <<192, 14>>
cRest == <<1, 99>> \o rest
whole == <<192, 12>>
long(n) == <<n>> \o [i \in 1 .. n |-> 65] \o <<0>>
itself == <<1, 97, 192, 21>>

Question(name, qtype) == [name |-> name, qtype |-> qtype]
Message(qs) == [id |-> 513, qr |-> 0, arcount |-> 0, questions |-> qs]

MixedMessages ==
    {Message(<<Question(name, qtype)>>) : name \in {ab, AB}, qtype \in {A, AAAA, MX, 16}}
    \cup {Message(<<Question(name, A)>>) : name \in {underscore, root, oneLabel}}
    \cup {Message(<<Question(long(n), A)>>) : n \in {37, 38, 42, 43}}
    \cup {Message(<<Question(ab, A), Question(name, CNAME)>>) :
              name \in {rest, cRest, AB, itself}}
    \cup {[Message(<<Question(ab, A)>>) EXCEPT !.arcount = 1],
          [Message(<<Question(ab, A)>>) EXCEPT !.qr = 1],
          Message(<<>>)}

\* No rules, two for one name in different case, one of which blocks, one in which it is
\* the part of a longer name, one with an odd letter and two for long names.
Rule(name, address) == [name |-> name, address |-> address]

MixedFiles ==
    {<<>>,
     <<Rule(<<97, 46, 98>>, <<10, 0, 0, 1>>), Rule(<<97, 46, 66>>, <<10, 0, 0, 2>>)>>,
     <<Rule(<<98>>, <<10, 0, 0, 3>>), Rule(<<65, 46, 66>>, <<0, 0, 0, 0>>)>>,
     <<Rule(<<97, 46, 98, 46, 99>>, <<10, 0, 0, 4>>)>>,
     <<Rule(<<95>>, <<10, 0, 0, 5>>)>>,
     <<Rule([i \in 1 .. 42 |-> 65], <<10, 0, 0, 6>>)>>,
     <<Rule([i \in 1 .. 43 |-> 65], <<10, 0, 0, 7>>)>>}

Record(name, type, ttl, data) == [name |-> name, type |-> type, ttl |-> ttl, data |-> data]

Soa(name, ttl) ==
    Record(name, SOA, ttl, <<1, 110>> \o rest \o <<1, 109>> \o rest \o [i \in 1 .. 20 |-> i])

Answer(an, ns, ar, compressed) == [an |-> an, ns |-> ns, ar |-> ar, compressed |-> compressed]

MixedAnswers ==
    LET address == <<10, 1, 200, 4>> IN
    {\* an address, of which the name is written in full
     Answer(<<Record(ab, A, 300, address)>>, <<>>, <<>>, FALSE),
     \* an alias and its address, with a name server and its address
     Answer(<<Record(whole, CNAME, 100000, cRest), Record(<<1, 99>> \o rest, A, 60, address)>>,
            <<>>, <<Record(rest, A, 60, address)>>, TRUE),
     \* two addresses of version 6 and a mail exchange
     Answer(<<Record(whole, AAAA, 300, [i \in 1 .. 16 |-> i]), Record(whole, MX, 60, <<0, 10>> \o cRest)>>,
            <<Soa(rest, 100)>>, <<>>, TRUE),
     \* a mail exchange alone
     Answer(<<Record(whole, MX, 60, <<0, 10>> \o cRest)>>, <<>>, <<>>, TRUE),
     \* nothing, and for how long
     Answer(<<>>, <<Soa(rest, 100)>>, <<>>, TRUE),
     Answer(<<>>, <<Soa(rest, 100), Soa(whole, 50)>>, <<>>, TRUE),
     Answer(<<>>, <<>>, <<>>, FALSE),
     \* two name servers, and one with its address, which is read as the rest of a SOA
     Answer(<<Record(whole, A, 300, address)>>,
            <<Record(rest, 2, 60, cRest), Record(rest, 2, 20, cRest)>>, <<>>, TRUE),
     Answer(<<>>, <<Record(rest, 2, 60, cRest)>>, <<Record(whole, A, 60, address)>>, TRUE),
     \* an alias of the root, and one of a name that contains itself
     Answer(<<Record(whole, CNAME, 300, root)>>, <<>>, <<>>, FALSE),
     Answer(<<Record(whole, CNAME, 300, <<192, 33>>)>>, <<>>, <<>>, TRUE),
     \* a text
     Answer(<<Record(whole, 16, 300, <<1, 97>>)>>, <<>>, <<>>, TRUE)}
=============================================================================
