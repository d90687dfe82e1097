------------------------------- MODULE MCRace -------------------------------
(* Small instances of RingRace.                                            *)
EXTENDS RingRace
=============================================================================
