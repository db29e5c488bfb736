--------------------------- MODULE SessionPromise ---------------------------
(***************************************************************************)
(* What an account holder is promised about logins, without tokens, rows or *)
(* locks: a login that ended stays ended, and a new password ends all of    *)
(* them but the one it was set from.                                        *)
(***************************************************************************)
EXTENDS Naturals

CONSTANT Logins

VARIABLES open, ended, changes

promiseVars == <<open, ended, changes>>

Init == open = {} /\ ended = {} /\ changes = 0

LogIn(l) ==
    /\ l \notin open \union ended
    /\ open' = open \union {l} /\ UNCHANGED <<ended, changes>>

End(S) == open' = open \ S /\ ended' = ended \union S

LogOut(S) == S \subseteq open /\ End(S) /\ UNCHANGED changes

NewPassword(kept) ==
    /\ kept \subseteq open /\ (\A k, l \in kept : k = l)
    /\ End(open \ kept) /\ changes' = changes + 1

Next ==
    \/ \E l \in Logins : LogIn(l)
    \/ \E S \in SUBSET Logins : LogOut(S) \/ NewPassword(S)

Spec == Init /\ [][Next]_promiseVars
=============================================================================
