------------------------------- MODULE MCRing -------------------------------
(* Small instances of RingBuffer.                                          *)
EXTENDS RingBuffer

CONSTANTS s1, s2, r1

OneReader  == [r \in {r1} |-> {s1, NoStream}]
NoReaders  == [r \in {} |-> {}]
Times == {1, 2}
=============================================================================
