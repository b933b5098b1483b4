------------------------------ MODULE MCSignup ------------------------------
EXTENDS Signup, TLC

\* Requests, codes, addresses and usernames are interchangeable.
Symmetry == Permutations(Workers) \cup Permutations(Codes)
            \cup Permutations(Emails) \cup Permutations(Usernames)

=============================================================================
