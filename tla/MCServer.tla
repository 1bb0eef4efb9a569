------------------------------ MODULE MCServer ------------------------------
(***************************************************************************)
(* Instances of Server for TLC.  Descriptors 0 to 2 are the standard       *)
(* streams; one request goes to each socket.                               *)
(***************************************************************************)
EXTENDS Server, TLC

CONSTANTS r4, r6

OneOfEach == r4 :> "v4" @@ r6 :> "v6"
=============================================================================
