--------------------------- MODULE AtomicSecrets ---------------------------
(***************************************************************************)
(* What the secrets commands promise: a map from keys to values, which     *)
(* changes only by carrying out, all at once, the change somebody asked    *)
(* for, and touches nothing else.                                          *)
(***************************************************************************)
CONSTANTS Terms, Keys, Values, None

VARIABLES secret,    \* the value every key has for those who read it
          want       \* per terminal: the change it asks for, a partial map

(* None for a value means that the key shall go. *)
Changes == UNION {[S -> Values \union {None}] : S \in SUBSET Keys}

Init == /\ secret \in [Keys -> Values \union {None}]
        /\ want = [t \in Terms |-> [k \in {} |-> None]]

(* A terminal asks for something, for something else, or gives up. *)
Ask(t) == /\ want' \in [Terms -> Changes]
          /\ \A u \in Terms \ {t} : want'[u] = want[u]
          /\ UNCHANGED secret

(* The change is made whole, and the terminal goes on to its next one. *)
Commit(t) ==
    /\ secret' = [k \in Keys |-> IF k \in DOMAIN want[t] THEN want[t][k] ELSE secret[k]]
    /\ want' \in [Terms -> Changes]
    /\ \A u \in Terms \ {t} : want'[u] = want[u]

Next == \E t \in Terms : Ask(t) \/ Commit(t)

Spec == Init /\ [][Next]_<<secret, want>>
============================================================================
