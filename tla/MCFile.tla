------------------------------- MODULE MCFile -------------------------------
(* Small instances of RingFile, without readers.                           *)
EXTENDS RingFile

CONSTANTS s1, s2

NoReaders == [r \in {} |-> {}]
=============================================================================
