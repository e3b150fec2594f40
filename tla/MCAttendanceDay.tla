------------------------- MODULE MCAttendanceDay -------------------------
EXTENDS AttendanceDay, TLC

Interchangeable == Permutations(Handlers) \cup Permutations(Adjustments)
=============================================================================
