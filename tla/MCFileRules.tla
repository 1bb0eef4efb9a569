---------------------------- MODULE MCFileRules ----------------------------
(***************************************************************************)
(* Instances of FileRules for TLC.                                         *)
(***************************************************************************)
EXTENDS FileRules

FamilyOf ==
    [word \in {"x", "y", "10.0.0", "0.0.0.0", "10.0.0.1", "10.0.0.2", "2001:db8::1"} |->
        IF word \in {"x", "y", "10.0.0"} THEN 0 ELSE IF word = "2001:db8::1" THEN 6 ELSE 4]

\* One rule; three of which two are for the same name; the first of these with what is
\* left of the second when the file is cut; and a bad pair behind a good one.  Whatever
\* can be read has a rule for "x".
EditedVersions ==
    {<<"2001:db8::1", "x">>,
     <<"10.0.0.1", "x", "0.0.0.0", "y", "10.0.0.2", "x">>,
     <<"10.0.0.1", "x", "0.0.0.0">>,
     <<"10.0.0.1", "y", "10.0.0", "x">>}
=============================================================================
