------------------------------- MODULE MCScan -------------------------------
(* A file of three records in a directory below the base directory, and two *)
(* faults.                                                                   *)
EXTENDS MSeedScan

Tree == [d \in {"base", "sub"} |-> IF d = "base" THEN <<"sub">> ELSE <<"f">>]
NoLimit == -1
=============================================================================
