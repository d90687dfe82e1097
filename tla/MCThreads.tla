------------------------------ MODULE MCThreads ------------------------------
(* Small instances of ServerThreads.                                       *)
EXTENDS ServerThreads

CONSTANTS l1, l2, c1, c2
=============================================================================
