---------------------------- MODULE MCPersonnel ----------------------------
\* Personnel with two workers: forms meet forms, and what else the admin site and the
\* organizations' API do meets what the employees' API does.
EXTENDS Personnel, TLC

CONSTANTS w1, w2

MCServes == w1 :> {"admin", "remove", "head", "activate", "unit"}
            @@ w2 :> {"create", "update", "delete", "admin"}

Symmetric == Permutations(Organizations)

=============================================================================
