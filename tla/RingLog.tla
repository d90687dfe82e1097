------------------------------- MODULE RingLog -------------------------------
(***************************************************************************)
(* What the packet ring promises: a log of which the last Capacity packets *)
(* are kept, and readers that are each handed packets of the log in log    *)
(* order, any number of times over after a repositioning.                  *)
(***************************************************************************)
EXTENDS Integers, Sequences

CONSTANTS Capacity, Packets, Readers

VARIABLES
  log,      \* the packets kept, oldest first
  written,  \* how many packets were ever appended
  given     \* given[r]: ordinal of the last packet handed to r, 0 for none

vars == <<log, written, given>>

Ordinal(i) == written - Len(log) + i

Init ==
  /\ log = <<>>
  /\ written = 0
  /\ given = [r \in Readers |-> 0]

Record(p) ==
  /\ log' = Append(IF Len(log) < Capacity THEN log ELSE Tail(log), p)
  /\ written' = written + 1
  /\ UNCHANGED given

Hand(r) ==
  /\ \E i \in 1 .. Len(log) :
       /\ Ordinal(i) > given[r]
       /\ given' = [given EXCEPT ![r] = Ordinal(i)]
  /\ UNCHANGED <<log, written>>

Restart(r) ==
  /\ given' = [given EXCEPT ![r] = 0]
  /\ UNCHANGED <<log, written>>

Next ==
  \/ \E p \in Packets : Record(p)
  \/ \E r \in Readers : Hand(r) \/ Restart(r)

Spec == Init /\ [][Next]_vars
=============================================================================
