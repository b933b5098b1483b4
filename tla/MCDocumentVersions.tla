------------------------- MODULE MCDocumentVersions -------------------------
EXTENDS DocumentVersions, TLC

CONSTANTS w1, w2

\* Documents are interchangeable, and requests; Cron is not one of them.
Symmetry == Permutations(Workers \ {Cron}) \cup Permutations(Docs)

ServesAll == [w \in Workers |-> {"upload", "submit", "decide", "callback", "update", "delete"}]

ServesUploads == [w \in Workers |-> {"upload", "submit", "command"}]

\* One worker submits and one uploads.
ServesApart == Cron :> {"command"} @@ w1 :> {"submit"} @@ w2 :> {"upload"}

=============================================================================
