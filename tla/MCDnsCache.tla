----------------------------- MODULE MCDnsCache -----------------------------
(***************************************************************************)
(* Instances of DnsCache for TLC.                                          *)
(***************************************************************************)
EXTENDS DnsCache

\* Three plain names, one for the runs that fill the cache with them.
PlainNames == {<<"x">>, <<"y">>, <<"z">>}

TwoNames == {<<"x">>, <<"y">>}

\* A name whose key does not fit.
TooLong == {<<"long">>}

\* The plain name of the second is the trie key of the first, for type "A".
OverlappingNames == {<<"x">>, <<"A", "x">>} \cup TooLong

\* The heap's addresses are interchangeable.
AddrSymmetry == Permutations(Addr)
=============================================================================
