------------------------- MODULE MCLeaveRequests -------------------------
(* Constants for TLC.  Two instants make a day here: midnight and noon.       *)
EXTENDS LeaveRequests, TLC

\* The last day of a year at midnight and at noon, and the midnight after it.
Hours == {62, 63, 64}
Midnights == {62, 64}

\* getFullYear where the server keeps UTC, and where it is some hours behind.
NewYear == [m \in Midnights |-> IF m < 64 THEN 2025 ELSE 2026]
OldYear == [m \in Hours |-> 2025]

Interchangeable == Permutations(Handlers) \cup Permutations(Requests)
=============================================================================
