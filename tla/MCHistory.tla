----------------------------- MODULE MCHistory -----------------------------
(* One DataLink client that flushes each record, one SeedLink client, a     *)
(* ring of three packets, pages of two rows.  Packets may have the same     *)
(* time and come late; those of stream "b" are not selected.                *)
EXTENDS SeedLinkHistory

Packet(s, d, p) == [stream |-> s, start |-> d, payload |-> p]
Kinds == {Packet("a", 2, "miniSEED"), Packet("a", 4, "miniSEED"), Packet("b", 4, "empty")}
=============================================================================
