----------------------------- MODULE WebSession -----------------------------
(***************************************************************************)
(* The sessions a browser holds (web/lib/api/client.ts, auth.ts and        *)
(* auth-context.tsx): tabs with an access token each and one refresh       *)
(* cookie they share, rotated by the API on every refresh.  Refreshes are  *)
(* single flight within a tab only.  Requests and responses are separate   *)
(* steps; a refresh or its response may be lost.                           *)
(***************************************************************************)
EXTENDS Naturals, FiniteSets

CONSTANTS Tabs, Accounts, Tokens, \* Tokens: refresh tokens that may be issued
          None,                   \* not an account nor a token
          MaxLosses               \* bound on refreshes that fail on the network

WebWellFormed == None \notin Accounts \union Tokens /\ MaxLosses \in Nat

VARIABLES state, family, owner,   \* of each token: issued, live, rotated, revoked; family; account
          cookie,                 \* the browser's refresh cookie
          access, stale,          \* of each tab: account of its access token; whether it lapsed
          user, restoring,        \* of each tab: the user shown; restoreSession at work
          refresh, logout,        \* of each tab: refreshes and logouts under way
          served,                 \* history: the user shown when data was fetched, and the data's account
          losses, reuse           \* history: families whose reuse was seen
server == <<state, family, owner, reuse>>
browser == <<access, stale, user, restoring>>
vars == <<server, cookie, browser, refresh, logout, served, losses>>

Idle == {}
Live == {n \in Tokens : state[n] = "live"}
Issued == {n \in Tokens : state[n] # "none"}
Family(n) == {m \in Issued : family[m] = family[n]}

Init == /\ state = [n \in Tokens |-> "none"] /\ family = [n \in Tokens |-> n]
        /\ owner \in [Tokens -> {None}]
        /\ cookie = None /\ access = [t \in Tabs |-> None] /\ stale = [t \in Tabs |-> FALSE]
        /\ user = [t \in Tabs |-> None] /\ restoring = [t \in Tabs |-> FALSE]
        /\ refresh = [t \in Tabs |-> Idle] /\ logout = [t \in Tabs |-> Idle]
        /\ served = {} /\ losses = 0 /\ reuse = {}

-----------------------------------------------------------------------------
(* The API, as AuthSessions details it. *)

Rotated(n, m) == state' = [state EXCEPT ![n] = "rotated", ![m] = "live"]
Accepted_Unended(n) == n \in Issued /\ state[n] # "rotated"
Accepted(n) == n \in Live
\* The answer is the new token, or None: 401, which leaves the cookie alone.
Answer(t, f, token) ==
    refresh' = [refresh EXCEPT ![t] = (@ \ {f}) \union {[step |-> "answered", token |-> token, no |-> f.no]}]
ServeRefresh(t) == \E f \in refresh[t] :
    /\ f.step = "sent"
    /\ \/ /\ Accepted(f.token)
          /\ \E m \in Tokens : /\ state[m] = "none" /\ Rotated(f.token, m)
                               /\ family' = [family EXCEPT ![m] = family[f.token]]
                               /\ owner' = [owner EXCEPT ![m] = owner[f.token]]
                               /\ Answer(t, f, m)
          /\ UNCHANGED reuse
       \/ /\ f.token \in Issued /\ state[f.token] = "rotated"
          /\ state' = [n \in Tokens |-> IF n \in Family(f.token) \intersect Live THEN "revoked" ELSE state[n]]
          /\ reuse' = reuse \union {family[f.token]}
          /\ Answer(t, f, None) /\ UNCHANGED <<family, owner>>
       \/ /\ f.token = None \/ (f.token \in Issued /\ state[f.token] = "revoked")
          /\ Answer(t, f, None) /\ UNCHANGED server
    /\ UNCHANGED <<cookie, browser, logout, served, losses>>

ServeLogout(t) == \E f \in logout[t] :
    /\ f.step = "sent"
    /\ state' = [n \in Tokens |-> IF n = f.token /\ n \in Live THEN "revoked" ELSE state[n]]
    /\ logout' = [logout EXCEPT ![t] = {[f EXCEPT !.step = "answered"]}]
    /\ UNCHANGED <<family, owner, reuse, cookie, browser, refresh, served, losses>>

-----------------------------------------------------------------------------
(* One tab. *)

\* refreshAccessToken: a refresh under way is shared, not repeated.
Refreshing(t) == refresh[t] # Idle
Send_Parallel(t) == refresh' = [refresh EXCEPT ![t] =
    @ \union {[step |-> "sent", token |-> cookie, no |-> Cardinality(@)]}]
Send(t) == refresh' = IF Refreshing(t) THEN refresh
                      ELSE [refresh EXCEPT ![t] = {[step |-> "sent", token |-> cookie, no |-> 0]}]

\* restoreSession, on mount and on request: refresh, then load the user.
Restore(t) == /\ ~restoring[t] /\ restoring' = [restoring EXCEPT ![t] = TRUE]
              /\ Send(t)
              /\ UNCHANGED <<server, cookie, access, stale, user, logout, served, losses>>

\* authenticatedFetch: a 401 refreshes; with a fresh token the data arrives.
FetchRefused(t) == /\ user[t] # None /\ (access[t] = None \/ stale[t])
                   /\ Cardinality(refresh[t]) <= 1 /\ Send(t)
                   /\ UNCHANGED <<server, cookie, browser, logout, served, losses>>
FetchData(t) == /\ user[t] # None /\ access[t] # None /\ ~stale[t]
                /\ served' = served \union {<<user[t], access[t]>>}
                /\ UNCHANGED <<server, cookie, browser, refresh, logout, losses>>

\* performRefresh: the browser stores the cookie of the response; a refusal
\* invalidates the session shown in this tab.
SignedOut(t) == /\ access' = [access EXCEPT ![t] = None] /\ user' = [user EXCEPT ![t] = None]
ReceiveRefresh(t) == \E f \in refresh[t] :
    /\ f.step = "answered"
    /\ refresh' = [refresh EXCEPT ![t] = @ \ {f}]
    /\ \/ /\ f.token # None /\ cookie' = f.token
          /\ access' = [access EXCEPT ![t] = owner[f.token]] /\ stale' = [stale EXCEPT ![t] = FALSE]
          /\ UNCHANGED <<user, restoring>>
       \/ /\ f.token = None /\ SignedOut(t)
          /\ restoring' = [restoring EXCEPT ![t] = FALSE]
          /\ UNCHANGED <<cookie, stale>>
    /\ UNCHANGED <<server, logout, served, losses>>
\* The network fails: the promise rejects and nothing else changes, whether or
\* not the API has rotated the token.
LoseRefresh(t) == \E f \in refresh[t] :
    /\ losses < MaxLosses /\ losses' = losses + 1
    /\ refresh' = [refresh EXCEPT ![t] = @ \ {f}]
    /\ restoring' = [restoring EXCEPT ![t] = FALSE]
    /\ UNCHANGED <<server, cookie, access, stale, user, logout, served>>

\* loadCurrentUser of restoreSession.
LoadUser_Held(t) == /\ restoring[t] /\ ~Refreshing(t) /\ access[t] # None
                    /\ user' = [user EXCEPT ![t] = access[t]]
                    /\ UNCHANGED <<server, cookie, access, stale, restoring, refresh, logout, served, losses>>
LoadUser(t) == /\ restoring[t] /\ ~Refreshing(t) /\ access[t] # None /\ ~stale[t]
               /\ restoring' = [restoring EXCEPT ![t] = FALSE]
               /\ user' = [user EXCEPT ![t] = access[t]]
               /\ UNCHANGED <<server, cookie, access, stale, refresh, logout, served, losses>>
\* Its own 401: the access token is gone or lapsed by then.
Reload(t) == /\ restoring[t] /\ ~Refreshing(t) /\ (access[t] = None \/ stale[t])
             /\ Send(t)
             /\ UNCHANGED <<server, cookie, browser, logout, served, losses>>

\* The login form is shown once nothing is restored and no user is shown.
Login(t, a) == /\ user[t] = None /\ ~restoring[t] /\ logout[t] = Idle
               /\ \E n \in Tokens : /\ state[n] = "none" /\ cookie' = n
                                    /\ state' = [state EXCEPT ![n] = "live"]
                                    /\ owner' = [owner EXCEPT ![n] = a]
               /\ access' = [access EXCEPT ![t] = a] /\ user' = [user EXCEPT ![t] = a]
               /\ stale' = [stale EXCEPT ![t] = FALSE]
               /\ UNCHANGED <<family, reuse, restoring, refresh, logout, served, losses>>
StartLogout(t) == /\ user[t] # None /\ logout[t] = Idle
                  /\ logout' = [logout EXCEPT ![t] = {[step |-> "sent", token |-> cookie]}]
                  /\ UNCHANGED <<server, cookie, browser, refresh, served, losses>>
\* The response deletes the cookie.
FinishLogout(t) == /\ \E f \in logout[t] : f.step = "answered"
                   /\ logout' = [logout EXCEPT ![t] = Idle] /\ cookie' = None /\ SignedOut(t)
                   /\ UNCHANGED <<server, stale, restoring, refresh, served, losses>>
\* Ten minutes pass.
Expire(t) == /\ access[t] # None /\ ~stale[t] /\ stale' = [stale EXCEPT ![t] = TRUE]
             /\ UNCHANGED <<server, cookie, access, user, restoring, refresh, logout, served, losses>>

Network(t) == ServeRefresh(t) \/ ReceiveRefresh(t) \/ LoadUser(t) \/ Reload(t)
Next == \E t \in Tabs :
    \/ Network(t) \/ LoseRefresh(t) \/ ServeLogout(t) \/ FinishLogout(t)
    \/ Restore(t) \/ FetchRefused(t) \/ FetchData(t) \/ StartLogout(t) \/ Expire(t)
    \/ \E a \in Accounts : Login(t, a)
Spec == Init /\ [][Next]_vars
FairSpec == Spec /\ \A t \in Tabs : WF_vars(Network(t))

-----------------------------------------------------------------------------
(* Properties. *)

Step(f) == f.step \in {"sent", "answered"} /\ f.token \in Tokens \union {None}
TypeOK == /\ state \in [Tokens -> {"none", "live", "rotated", "revoked"}]
          /\ family \in [Tokens -> Tokens] /\ owner \in [Tokens -> Accounts \union {None}]
          /\ cookie \in Issued \union {None} /\ reuse \subseteq Issued
          /\ access \in [Tabs -> Accounts \union {None}] /\ stale \in [Tabs -> BOOLEAN]
          /\ user \in [Tabs -> Accounts \union {None}] /\ restoring \in [Tabs -> BOOLEAN]
          /\ \A t \in Tabs : \A f \in refresh[t] \union logout[t] : Step(f)
          /\ served \subseteq Accounts \X Accounts /\ losses \in 0 .. MaxLosses

\* A browser with one tab and a working network never presents a token twice.
NoSelfInflictedReuse == Cardinality(Tabs) = 1 /\ losses = 0 => reuse = {}

\* Whatever the tabs do, a login that ended on the API stays ended, and its
\* refreshes never open a second one.
Promise == INSTANCE SessionPromise
    WITH Logins <- Tokens, changes <- 0,
         open <- {n \in Tokens : \E m \in Live : family[m] = n},
         ended <- {n \in Tokens : state[n] # "none" /\ ~\E m \in Live : family[m] = family[n]}
                     \intersect {n \in Tokens : family[n] = n}
KeepsSessionPromise == Promise!Spec

\* A session that is being restored is shown or refused in the end (as long as
\* the model has tokens to issue).
RestoringEnds == \A t \in Tabs : restoring[t] ~> ~restoring[t] \/ Issued = Tokens

\* account-query-provider.tsx: the whole private cache is swapped with the
\* identity, so data shown to a user was fetched for that user.
DataOfShownUser == \A p \in served : p[1] = p[2]

\* auth.ts: whatever the API answers, logging out leaves the tab no access token.
LoggedOutHoldsNoToken == \A t \in Tabs :
    user[t] = None /\ logout[t] = Idle /\ ~Refreshing(t) /\ ~restoring[t] => access[t] = None

\* auth-context.test.tsx: "does not clear a displayed user for a temporary
\* network failure": without a logout the user stays shown.
TransientFailureKeepsUser ==
    [][\A t \in Tabs : user[t] # None /\ user'[t] = None => logout[t] # Idle]_vars
=============================================================================
