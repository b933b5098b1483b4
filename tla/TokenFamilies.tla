--------------------------- MODULE TokenFamilies ----------------------------
(***************************************************************************)
(* What the refresh-token tables promise: a family is opened by a login    *)
(* and named after its first token; it has at most one current token;      *)
(* rotation replaces the current token by one never used before; a closed  *)
(* family and a spent token never come back.                               *)
(***************************************************************************)
CONSTANTS Tokens, None

VARIABLES
    current,   \* each family's current token, or None
    spent      \* the tokens that were current once and are no longer

familyVars == <<current, spent>>

Fresh(t) == t \notin spent /\ \A f \in Tokens : current[f] # t

Init == current = [f \in Tokens |-> None] /\ spent = {}

Open(f) ==
    /\ current[f] = None
    /\ Fresh(f)
    /\ current' = [current EXCEPT ![f] = f]
    /\ UNCHANGED spent

Rotate(f, t) ==
    /\ current[f] # None
    /\ Fresh(t)
    /\ current' = [current EXCEPT ![f] = t]
    /\ spent' = spent \cup {current[f]}

\* Logout, expiry, reuse detection and suspension close one or several families.
Close(F) ==
    /\ \A f \in F : current[f] # None
    /\ current' = [f \in Tokens |-> IF f \in F THEN None ELSE current[f]]
    /\ spent' = spent \cup {current[f] : f \in F}

Next ==
    \/ \E f \in Tokens : Open(f) \/ \E t \in Tokens : Rotate(f, t)
    \/ \E F \in SUBSET Tokens : Close(F)

Spec == Init /\ [][Next]_familyVars
=============================================================================
