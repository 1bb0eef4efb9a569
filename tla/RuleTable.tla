----------------------------- MODULE RuleTable -----------------------------
(***************************************************************************)
(* What the rules promise the workers (include/filerules.h lines 14 to     *)
(* 39): at any moment one table is in service, and a lookup answers from   *)
(* it at one moment.  The table is replaced as a whole, only while nobody  *)
(* holds an answer, and only by the rules of a good version of the file.   *)
(*                                                                         *)
(* There is no trie, no second buffer and no mutex here: FileRules is      *)
(* shown to implement this module.                                         *)
(***************************************************************************)
CONSTANTS
    Readers,    \* who looks names up
    Names,      \* the names they look up
    Start,      \* the table in service at first
    Tables,     \* the tables that may be published
    None        \* no rule, no answer, no table

VARIABLES
    table,      \* the table in service, None once the service is closed
    answer      \* the answer each reader holds, None between its lookups

tableVars == <<table, answer>>

NobodyAnswered == \A r \in Readers : answer[r] = None

TableInit ==
    /\ table = Start
    /\ answer = [r \in Readers |-> None]

Publish ==
    /\ table # None /\ NobodyAnswered
    /\ table' \in Tables
    /\ UNCHANGED answer

Lookup(r, n) ==
    /\ table # None /\ NobodyAnswered
    /\ answer' = [answer EXCEPT ![r] = [name |-> n, address |-> table[n]]]
    /\ UNCHANGED table

Leave(r) ==
    /\ answer[r] # None
    /\ answer' = [answer EXCEPT ![r] = None]
    /\ UNCHANGED table

Close ==
    /\ table # None /\ NobodyAnswered
    /\ table' = None
    /\ UNCHANGED answer

TableNext ==
    \/ Publish
    \/ \E r \in Readers : Leave(r) \/ \E n \in Names : Lookup(r, n)
    \/ Close

TableSpec == TableInit /\ [][TableNext]_tableVars
=============================================================================
