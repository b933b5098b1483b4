--------------------------- MODULE MCStaffRecords ---------------------------
EXTENDS StaffRecords, TLC

\* Requests are interchangeable, and accounts are.
Symmetric == Permutations(Workers) \cup Permutations(Users)
=============================================================================
