------------------------------ MODULE MCRelay ------------------------------
(***************************************************************************)
(* Instances of Relay for TLC.                                             *)
(***************************************************************************)
EXTENDS Relay

x == <<"x">>
y == <<"y">>

TwoNames == {x, y}

Ask(name, type) == [qname |-> name, qtype |-> type]
Query(questions) == [qr |-> 0, questions |-> questions]

\* One question, two questions, and a response that was sent to the relay's port.
MixedMessages ==
    {Query(<<Ask(x, "A")>>),
     Query(<<Ask(x, "A"), Ask(y, "A")>>),
     [Query(<<Ask(x, "A")>>) EXCEPT !.qr = 1]}

PlainMessages == {Query(<<Ask(name, "A")>>) : name \in TwoNames}

PairMessages == {Query(<<Ask(x, "A"), Ask(y, "A")>>)}

NoRules == [b \in BOOLEAN |-> [n \in Names |-> NULL]]

\* The reload blocks one name and gives an address to the other.
NewRules ==
    [b \in BOOLEAN |->
        [n \in Names |-> IF ~b THEN NULL ELSE IF n = x THEN Blocked ELSE "10.0.0.1"]]

Records(an, ns, len, known) == [an |-> an, ns |-> ns, len |-> len, ttl |-> 1, known |-> known]

OneRecord == {Records(1, 0, 1, TRUE)}

\* Records of which a reply can carry one set, with a rule's or without, but not
\* two; and a record of an unknown type.
MixedRecords == {Records(1, 1, 2, TRUE), Records(0, 0, 1, FALSE)}
=============================================================================
