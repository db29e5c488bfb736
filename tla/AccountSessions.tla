-------------------------- MODULE AccountSessions --------------------------
(***************************************************************************)
(* The sessions of an account, on the service and in browsers.  The three  *)
(* parts share no variable, so interleaving them would multiply the states *)
(* without adding a behaviour of any of them: focus is the one that moves,  *)
(* the service under concurrent requests, a browser with one tab and any   *)
(* accounts, or one account in several tabs.                               *)
(***************************************************************************)
EXTENDS Naturals, FiniteSets

CONSTANTS
    Tokens,      \* refresh tokens that may be issued
    Links,       \* links that may be sent by email
    Requests,    \* requests at work on the service
    MaxChanges,  \* bound: password changes
    Tab, Tabs,   \* the tab of the first browser, those of the second
    Accounts,    \* accounts that log in to the first browser
    Holder,      \* the account of the second browser
    MaxLosses,   \* bound: refreshes that fail on the network
    None         \* not an account nor a token

VARIABLES focus,
    account, verified, password, outdated, changes, state, family, aged, issued,
    purpose, link, lapsed, born, mailed, pc, shown, seen, candidate, reused, uses,
    webState, webFamily, owner, cookie, access, stale, user, restoring,
    refresh, logout, served, losses, reuse

authVars == <<account, verified, password, outdated, changes, state, family, aged, issued,
              purpose, link, lapsed, born, mailed, pc, shown, seen, candidate, reused, uses>>
webVars  == <<webState, webFamily, owner, cookie, access, stale, user, restoring,
              refresh, logout, served, losses, reuse>>

Auth == INSTANCE AuthSessions WITH Sessions <- Tokens
OneTab == INSTANCE WebSession WITH
    Tabs <- {Tab}, state <- webState, family <- webFamily
ManyTabs == INSTANCE WebSession WITH
    Accounts <- {Holder}, state <- webState, family <- webFamily

ASSUME WellFormed == Auth!AuthAssumption /\ OneTab!WebWellFormed /\ ManyTabs!WebWellFormed

Init == /\ focus \in {"service", "one tab", "many tabs"}
        /\ Auth!Init /\ (focus # "service" => ~outdated)
        /\ IF focus = "one tab" THEN OneTab!Init ELSE ManyTabs!Init
Next == /\ UNCHANGED focus
        /\ \/ focus = "service"   /\ Auth!Next     /\ UNCHANGED webVars
           \/ focus = "one tab"   /\ OneTab!Next   /\ UNCHANGED authVars
           \/ focus = "many tabs" /\ ManyTabs!Next /\ UNCHANGED authVars
Spec == Init /\ [][Next]_<<focus, authVars, webVars>>

-----------------------------------------------------------------------------
(* Properties.                                                              *)

\* A login that ended stays ended and a new password ends all but one, for
\* every interleaving of rotations with resets, changes and revocations.
KeepsSessionPromise == Auth!KeepsSessionPromise

\* Requests that present one token at the same time never both get a
\* replacement, a family whose reuse was seen has no live session then or
\* later, and a link is used once and never after a later change of the
\* password (refresh, verify_email, reset_password, change_password).
TokensWorkOnce ==
    /\ Auth!TypeOK /\ Auth!OneLivePerFamily /\ Auth!ReuseEndsFamily
    /\ Auth!LinkUsedOnce /\ Auth!ResetLinkIsCurrent

\* Whatever the tabs of a browser do, with answers lost and cookies shared, a
\* login that ended on the API stays ended and its refreshes never open a
\* second one (auth.ts, refresh and _refresh_session).
KeepsBrowserPromise == ManyTabs!KeepsSessionPromise

\* A browser with one tab and a working network never presents a token twice,
\* whatever requests fail with 401 at once (auth.ts, the single flight).
NoSelfInflictedReuse == focus = "one tab" => OneTab!TypeOK /\ OneTab!NoSelfInflictedReuse

\* test_authentication.py, "password reset racing login leaves no old password
\* session": broken by a login that read the user before the reset.
NoOldPasswordSession == Auth!NoOldPasswordSession
=============================================================================
