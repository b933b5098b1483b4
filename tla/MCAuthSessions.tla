-------------------------- MODULE MCAuthSessions ----------------------------
EXTENDS AuthSessions, TLC

\* Requests and token rows are interchangeable; accounts too when all are.
Symmetric == Permutations(Workers) \cup Permutations(Tokens) \cup Permutations(Users)

\* done only reports what the last step did: no guard and no assignment reads it,
\* so states that differ in it alone have the same behaviours ahead of them, and
\* the properties that mention it constrain the step that sets it (done').
WithoutOutcome == <<user, rows, token, txn>>
=============================================================================
