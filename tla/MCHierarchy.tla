---------------------------- MODULE MCHierarchy ----------------------------
\* Hierarchy with one worker for moves and counted deletions, and one for everything
\* but the latter: each meets all that it could conflict with.
EXTENDS Hierarchy, TLC

CONSTANTS w1, w2

MCServes == w1 :> Ops \ {"delete"} @@ w2 :> {"move", "delete"}

=============================================================================
