---------------------------- MODULE AuthSessions ----------------------------
(***************************************************************************)
(* The sessions of one account (src/app/auth/service.py): refresh tokens   *)
(* that rotate within a family, one-time links sent by email, and the      *)
(* operations that end sessions.                                           *)
(*                                                                         *)
(* Security operations of one account are serialized by a transaction      *)
(* lock.  login, refresh and the consumption of a link read a row before   *)
(* they take it: these are two actions each.  Everything else is one.      *)
(***************************************************************************)
EXTENDS Naturals

CONSTANTS
    Sessions,    \* RefreshSession rows that may be created
    Links,       \* AccountToken rows that may be created
    Requests,    \* requests at work
    MaxChanges   \* bound: password changes

AuthAssumption == MaxChanges \in Nat

VARIABLES
    account,     \* User.account_status; "none" before registration
    verified,    \* User.email_verified_at is not null
    password,    \* User.password_hash, named by the change that set it
    outdated,    \* the hash was made with earlier parameters
    changes,     \* number of password changes
    state,       \* of each session: revocation_reason, or none, or live
    family,      \* token_family_id, named by the family's first session
    aged,        \* sessions with expires_at <= now
    issued,      \* history: the password last proved for the session
    purpose, link,  \* of each link: purpose, and its terminal columns
    lapsed,      \* links with expires_at <= now
    born,        \* history: number of changes when the link was created
    mailed,      \* links their owner has received
    pc, shown, seen, candidate,
                 \* of each request: step, token presented, row and user it read
    reused, uses \* history: families whose reuse was seen; uses of each link

userVars == <<account, verified, password, outdated, changes>>
rowVars  == <<state, family, aged, issued>>
linkVars == <<purpose, link, lapsed, born, mailed, uses>>
reqVars  == <<pc, shown, seen, candidate>>
vars     == <<userVars, rowVars, linkVars, reqVars, reused>>

Purposes == {"email_verification", "password_reset"}
Reasons  == {"rotated", "refresh_token_reuse", "expired", "account_unavailable", "logout",
             "password_reset", "password_changed", "user_revoked", "user_revoke_all"}
LinkStates == {"none", "active", "consumed", "invalidated"}

UserRow == [password : 0..MaxChanges, account : {"active", "disabled"}, outdated : BOOLEAN]
NotRead == "none"
NoUser  == [password |-> 0, account |-> "disabled", outdated |-> FALSE]

TypeOK ==
    /\ account \in {"none", "active", "disabled"}
    /\ verified \in BOOLEAN /\ outdated \in BOOLEAN
    /\ password \in 0..MaxChanges /\ changes \in 0..MaxChanges
    /\ state \in [Sessions -> {"none", "live"} \union Reasons]
    /\ family \in [Sessions -> Sessions]
    /\ aged \subseteq Sessions /\ issued \in [Sessions -> 0..MaxChanges]
    /\ purpose \in [Links -> Purposes] /\ link \in [Links -> LinkStates]
    /\ lapsed \subseteq Links /\ mailed \subseteq Links
    /\ born \in [Links -> 0..MaxChanges] /\ uses \in [Links -> Nat]
    /\ pc \in [Requests -> {"idle", "login", "refresh"} \union Purposes]
    /\ shown \in [Requests -> SUBSET (Sessions \union Links)]
    /\ seen \in [Requests -> {NotRead, "live"} \union Reasons \union LinkStates]
    /\ candidate \in [Requests -> UserRow]
    /\ reused \subseteq Sessions

Init ==
    /\ account = "none" /\ verified = FALSE /\ password = 0 /\ changes = 0
    /\ outdated \in BOOLEAN
    /\ state = [s \in Sessions |-> "none"] /\ family = [s \in Sessions |-> s]
    /\ aged = {} /\ issued = [s \in Sessions |-> 0]
    /\ purpose = [l \in Links |-> "email_verification"]
    /\ link = [l \in Links |-> "none"]
    /\ lapsed = {} /\ mailed = {}
    /\ born = [l \in Links |-> 0] /\ uses = [l \in Links |-> 0]
    /\ pc = [r \in Requests |-> "idle"] /\ shown = [r \in Requests |-> {}]
    /\ seen = [r \in Requests |-> NotRead] /\ candidate = [r \in Requests |-> NoUser]
    /\ reused = {}

-----------------------------------------------------------------------------
(* Building blocks.                                                         *)

Live     == {s \in Sessions : state[s] = "live"}
Known    == {s \in Sessions : state[s] # "none"}
Family(s) == {x \in Known : family[x] = family[s]}

\* The live ones of S are revoked for the reason given.
Revoked(S, reason) == [x \in Sessions |-> IF x \in S \intersect Live THEN reason ELSE state[x]]
\* _revoke_family.
FamilyOf(s) == Family(s)

\* _create_session: a family of its own.
NewSession(n) ==
    /\ state[n] = "none"
    /\ state' = [state EXCEPT ![n] = "live"]
    /\ family' = [family EXCEPT ![n] = n]

\* The presented session is replaced by one of its family; others may be
\* revoked in the same transaction.
Others_Kept(s, reason) == state
Others(s, reason) == Revoked(Sessions \ {s}, reason)
Rotate(s, n, base) ==
    /\ state[n] = "none"
    /\ state' = [base EXCEPT ![s] = "rotated", ![n] = "live"]
    /\ family' = [family EXCEPT ![n] = family[s]]

\* _invalidate_active_tokens.
Invalid(p, except) ==
    [l \in Links |-> IF link[l] = "active" /\ purpose[l] = p /\ l \notin except
                     THEN "invalidated" ELSE link[l]]
\* _create_account_token, after the active ones were invalidated; the mail may
\* get lost.
NewLink(l, p) ==
    /\ link[l] = "none"
    /\ link' = [Invalid(p, {}) EXCEPT ![l] = "active"]
    /\ purpose' = [purpose EXCEPT ![l] = p]
    /\ born' = [born EXCEPT ![l] = changes]
    /\ mailed' \in {mailed, mailed \union {l}}
    /\ UNCHANGED <<lapsed, uses>>

\* _active_refresh_session and _require_active_matching_session.
Usable(s) == state[s] = "live" /\ s \notin aged

Done(r) ==
    /\ pc' = [pc EXCEPT ![r] = "idle"] /\ shown' = [shown EXCEPT ![r] = {}]
    /\ seen' = [seen EXCEPT ![r] = NotRead]
    /\ candidate' = [candidate EXCEPT ![r] = NoUser]
Read(r, step, what, row, user) ==
    /\ pc[r] = "idle" /\ pc' = [pc EXCEPT ![r] = step]
    /\ shown' = [shown EXCEPT ![r] = what] /\ seen' = [seen EXCEPT ![r] = row]
    /\ candidate' = [candidate EXCEPT ![r] = user]
    /\ UNCHANGED <<userVars, rowVars, linkVars, reused>>

-----------------------------------------------------------------------------
(* Registration and login.                                                  *)

\* The user, a verification link and a first session; the mail is sent before
\* the commit and its failure rolls everything back.
Register ==
    /\ account = "none" /\ account' = "active"
    /\ \E n \in Sessions : NewSession(n) /\ issued' = [issued EXCEPT ![n] = password]
    /\ \E l \in Links : NewLink(l, "email_verification") /\ mailed' = mailed \union {l}
    /\ UNCHANGED <<verified, password, outdated, changes, aged, reqVars, reused>>

\* The candidate is read to find its lock.  The user presents the password
\* that is current now.
LoginRead(r) ==
    /\ account # "none"
    /\ Read(r, "login", {}, NotRead, [password |-> password, account |-> account, outdated |-> outdated])

\* Under the lock the row is selected again, but the object read before stays:
\* status and hash are those of the candidate.
Login(r) ==
    /\ pc[r] = "login" /\ Done(r)
    /\ \/ /\ candidate[r].account = "active"
          /\ \E n \in Sessions : /\ NewSession(n)
                                 /\ issued' = [issued EXCEPT ![n] = candidate[r].password]
          /\ IF candidate[r].outdated THEN password' = candidate[r].password /\ outdated' = FALSE
                                 ELSE UNCHANGED <<password, outdated>>
       \/ /\ candidate[r].account # "active"
          /\ UNCHANGED <<state, family, issued, password, outdated>>
    /\ UNCHANGED <<account, verified, changes, aged, linkVars, reused>>

-----------------------------------------------------------------------------
(* Rotation.                                                                *)

\* The row of the token is read to find the account to lock.
RefreshRead(r) == \E s \in Known : Read(r, "refresh", {s}, state[s], NoUser)

\* populate_existing: the row is read again under the lock.
Reread_Cached(r, s) == seen[r]
Reread(r, s) == state[s]

Rejected == UNCHANGED <<family, issued>>
Refresh(r) ==
    /\ pc[r] = "refresh" /\ Done(r)
    /\ \E s \in shown[r] :
          LET row == Reread(r, s) IN
          \/ /\ row = "rotated" /\ Rejected
             /\ state' = Revoked(FamilyOf(s), "refresh_token_reuse")
             /\ reused' = reused \union {family[s]}
          \/ row \notin {"rotated", "live"} /\ Rejected /\ UNCHANGED <<state, reused>>
          \/ /\ row = "live" /\ s \in aged /\ Rejected /\ UNCHANGED reused
             /\ state' = [state EXCEPT ![s] = "expired"]
          \/ /\ row = "live" /\ s \notin aged /\ account # "active" /\ Rejected
             /\ state' = Revoked(FamilyOf(s), "account_unavailable") /\ UNCHANGED reused
          \/ /\ row = "live" /\ s \notin aged /\ account = "active" /\ UNCHANGED reused
             /\ \E n \in Sessions : /\ Rotate(s, n, state)
                                    /\ issued' = [issued EXCEPT ![n] = issued[s]]
    /\ UNCHANGED <<userVars, aged, linkVars>>

\* logout takes the row, not the lock of the account.
Logout ==
    /\ \E s \in Live : state' = [state EXCEPT ![s] = "logout"]
    /\ UNCHANGED <<userVars, family, aged, issued, linkVars, reqVars, reused>>

-----------------------------------------------------------------------------
(* Links.                                                                   *)

ResendVerification ==
    /\ account = "active" /\ ~verified
    /\ \E l \in Links : NewLink(l, "email_verification")
    /\ UNCHANGED <<userVars, rowVars, reqVars, reused>>

RequestPasswordReset ==
    /\ account = "active"
    /\ \E l \in Links : NewLink(l, "password_reset")
    /\ UNCHANGED <<userVars, rowVars, reqVars, reused>>

\* _lock_account_token: its row is read to find the account to lock; a
\* verification carries the browser's refresh token, if any.
LinkRead(r) ==
    \E l \in mailed, s \in {{}} \union {{x} : x \in Known} :
        /\ s # {} => purpose[l] = "email_verification"
        /\ Read(r, purpose[l], {l} \union s, link[l], NoUser)

\* populate_existing, then _validate_account_token.
Consumable(r, l) == link[l] = "active" /\ l \notin lapsed

Consume(l) ==
    /\ link' = [Invalid(purpose[l], {l}) EXCEPT ![l] = "consumed"]
    /\ uses' = [uses EXCEPT ![l] = @ + 1]
    /\ UNCHANGED <<purpose, lapsed, born, mailed>>

\* The current session is rotated, or a first one created.
VerifyEmail(r) ==
    /\ pc[r] = "email_verification" /\ Done(r)
    /\ \E l \in shown[r] \intersect Links :
          \/ /\ Consumable(r, l) /\ account = "active"
             /\ verified' = TRUE /\ Consume(l)
             /\ LET current == {s \in shown[r] \intersect Sessions : Usable(s)} IN
                \E n \in Sessions :
                   \/ /\ current = {} /\ NewSession(n)
                      /\ issued' = [issued EXCEPT ![n] = password]
                   \/ \E s \in current : /\ Rotate(s, n, state)
                                         /\ issued' = [issued EXCEPT ![n] = issued[s]]
          \/ /\ ~(Consumable(r, l) /\ account = "active")
             /\ UNCHANGED <<verified, state, family, issued, linkVars>>
    /\ UNCHANGED <<account, password, outdated, changes, aged, reused>>

ResetPassword(r) ==
    /\ pc[r] = "password_reset" /\ Done(r)
    /\ \E l \in shown[r] :
          \/ /\ Consumable(r, l) /\ account = "active" /\ changes < MaxChanges
             /\ changes' = changes + 1 /\ password' = changes + 1 /\ outdated' = FALSE
             /\ state' = Revoked(Sessions, "password_reset")
             /\ Consume(l)
          \/ /\ ~(Consumable(r, l) /\ account = "active")
             /\ UNCHANGED <<changes, password, outdated, state, linkVars>>
    /\ UNCHANGED <<account, verified, family, aged, issued, reused>>

-----------------------------------------------------------------------------
(* Operations of the account page.                                          *)

\* What an access token lets in: an account that was active and verified when
\* the token was resolved.  The operation itself may find it disabled since.
LetIn == account # "none" /\ verified

Revalidated == Invalid("password_reset", {})
ChangePassword ==
    /\ LetIn /\ account = "active" /\ changes < MaxChanges
    /\ \E s \in Sessions, n \in Sessions :
          /\ Usable(s) /\ Rotate(s, n, Others(s, "password_changed"))
          /\ issued' = [issued EXCEPT ![n] = changes + 1]
    /\ changes' = changes + 1 /\ password' = changes + 1 /\ outdated' = FALSE
    /\ link' = Revalidated
    /\ UNCHANGED <<account, verified, aged, purpose, lapsed, born, mailed, uses, reqVars, reused>>

\* The account is not read again.
RevokeSession ==
    /\ LetIn
    /\ \E s \in Live : state' = [state EXCEPT ![s] = "user_revoked"]
    /\ UNCHANGED <<userVars, family, aged, issued, linkVars, reqVars, reused>>

\* With preserve_current_session the current one is rotated.
RevokeAll ==
    /\ LetIn /\ account = "active"
    /\ \/ state' = Revoked(Sessions, "user_revoke_all") /\ UNCHANGED <<family, issued>>
       \/ \E s \in Sessions, n \in Sessions :
             /\ Usable(s) /\ Rotate(s, n, Others(s, "user_revoke_all"))
             /\ issued' = [issued EXCEPT ![n] = issued[s]]
    /\ UNCHANGED <<userVars, aged, linkVars, reqVars, reused>>

-----------------------------------------------------------------------------
(* Time, and an administrator at the database.                              *)

SessionExpires ==
    /\ \E s \in Live \ aged : aged' = aged \union {s}
    /\ UNCHANGED <<userVars, state, family, issued, linkVars, reqVars, reused>>
LinkExpires ==
    /\ \E l \in mailed \ lapsed : link[l] = "active" /\ lapsed' = lapsed \union {l}
    /\ UNCHANGED <<userVars, rowVars, purpose, link, born, mailed, uses, reqVars, reused>>
Disable ==
    /\ account = "active" /\ account' = "disabled"
    /\ UNCHANGED <<verified, password, outdated, changes, rowVars, linkVars, reqVars, reused>>

Next ==
    \/ Register \/ Logout \/ ResendVerification \/ RequestPasswordReset
    \/ ChangePassword \/ RevokeSession \/ RevokeAll
    \/ \E r \in Requests : \/ LoginRead(r) \/ Login(r) \/ RefreshRead(r) \/ Refresh(r)
                           \/ LinkRead(r) \/ VerifyEmail(r) \/ ResetPassword(r)
    \/ SessionExpires \/ LinkExpires \/ Disable

Spec == Init /\ [][Next]_vars

-----------------------------------------------------------------------------
(* Properties.                                                              *)

\* A family holds one live session at most, and every other row of a family
\* that is still open was rotated: requests that present one token at the
\* same time never both get a replacement (refresh, verify_email,
\* change_password, revoke_all_managed_sessions).
OneLivePerFamily ==
    \A s \in Live : \A x \in Family(s) \ {s} : state[x] = "rotated"

\* A family whose rotated token was presented again has no live session, then
\* or later, whatever was in flight (refresh, reuse).
ReuseEndsFamily == \A s \in Live : family[s] \notin reused

\* A link is used once, also when two requests present it at the same time
\* (_lock_account_token).
LinkUsedOnce == \A l \in Links : uses[l] <= 1

\* A reset link that was requested before the last change of the password no
\* longer works, whether that change used a link or the account page.
ResetLinkIsCurrent ==
    \A l \in Links : link[l] = "active" /\ purpose[l] = "password_reset" => born[l] = changes

\* A login that ended stays ended and a new password ends all but one, for
\* every interleaving of rotations with resets, changes and revocations.
Promise == INSTANCE SessionPromise
    WITH Logins <- Sessions, open <- {family[s] : s \in Live},
         ended <- {family[s] : s \in Known} \ {family[s] : s \in Live}
KeepsSessionPromise == Promise!Spec

\* test_authentication.py, "password reset racing login leaves no old password
\* session".
NoOldPasswordSession == \A s \in Live : issued[s] = password
=============================================================================
