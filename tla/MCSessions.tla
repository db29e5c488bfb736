----------------------------- MODULE MCSessions -----------------------------
(* TLC instance of AccountSessions: three tokens, two links, two requests,  *)
(* two accounts in one tab and one account in two tabs.                     *)
EXTENDS AccountSessions, TLC

Symmetry == Permutations(Tokens) \union Permutations(Links) \union Permutations(Requests)

\* Bound: the last session and the last link are not both used up.
SessionsOrLinks == (\E n \in Tokens : state[n] = "none") \/ (\E l \in Links : link[l] = "none")
=============================================================================
