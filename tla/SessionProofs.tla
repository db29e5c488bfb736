---------------------------- MODULE SessionProofs ----------------------------
(***************************************************************************)
(* Proofs that tokens and links work once and that ended logins stay       *)
(* ended, for any tokens, links, requests, tabs and accounts.              *)
(***************************************************************************)
EXTENDS AccountSessions, TLAPS

-----------------------------------------------------------------------------
(* The service.                                                             *)

\* A family is named by one of its tokens, and so is a reuse that was seen.
FamilyInv ==
    /\ \A x \in Auth!Known : family[x] \in Auth!Known
    /\ reused \subseteq Auth!Known
    /\ Auth!OneLivePerFamily /\ Auth!ReuseEndsFamily

\* Only a consumed link was used; a link that was received keeps its purpose.
LinkInv ==
    /\ \A l \in Links : uses[l] <= 1 /\ (link[l] # "consumed" => uses[l] = 0)
    /\ \A l \in mailed : link[l] # "none"
    /\ Auth!ResetLinkIsCurrent

\* What a request carries exists, and a reset is asked for by a reset link.
RequestInv == \A r \in Requests :
    /\ pc[r] = "refresh" => shown[r] \subseteq Auth!Known
    /\ pc[r] = "password_reset" =>
         \A l \in shown[r] : l \in Links /\ link[l] # "none" /\ purpose[l] = "password_reset"

AuthInv == Auth!TypeOK /\ FamilyInv /\ LinkInv /\ RequestInv


LEMMA AuthInit == ASSUME WellFormed, Auth!Init PROVE AuthInv
<1>. USE DEF WellFormed, Auth!AuthAssumption, Auth!Init
<1>1. Auth!TypeOK
  <2>1. Auth!NoUser \in Auth!UserRow BY DEF Auth!NoUser, Auth!UserRow
  <2>2. 0 \in 0..MaxChanges OBVIOUS
  <2>3. seen \in [Requests -> {Auth!NotRead, "live"} \union Auth!Reasons \union Auth!LinkStates]
    BY DEF Auth!NotRead
  <2>4. candidate \in [Requests -> Auth!UserRow] BY <2>1
  <2>5. shown \in [Requests -> SUBSET (Tokens \union Links)] OBVIOUS
  <2>6. /\ state \in [Tokens -> {"none", "live"} \union Auth!Reasons] /\ family \in [Tokens -> Tokens]
        /\ issued \in [Tokens -> 0..MaxChanges] /\ aged \subseteq Tokens /\ reused \subseteq Tokens
    BY <2>2
  <2>7. /\ purpose \in [Links -> Auth!Purposes] /\ link \in [Links -> Auth!LinkStates]
        /\ born \in [Links -> 0..MaxChanges] /\ uses \in [Links -> Nat]
        /\ lapsed \subseteq Links /\ mailed \subseteq Links
    BY <2>2 DEF Auth!Purposes, Auth!LinkStates
  <2>8. pc \in [Requests -> {"idle", "login", "refresh"} \union Auth!Purposes] OBVIOUS
  <2>. QED BY <2>2, <2>3, <2>4, <2>5, <2>6, <2>7, <2>8 DEF Auth!TypeOK
<1>2. FamilyInv
  BY DEF FamilyInv, Auth!Known, Auth!Live, Auth!OneLivePerFamily, Auth!ReuseEndsFamily
<1>3. LinkInv
  BY DEF LinkInv, Auth!ResetLinkIsCurrent
<1>4. RequestInv
  BY DEF RequestInv
<1>. QED BY <1>1, <1>2, <1>3, <1>4 DEF AuthInv

-----------------------------------------------------------------------------
(* What a step of the service does to sessions and to links, whichever      *)
(* request takes it.                                                        *)

Ended(R, why) ==
    /\ R \subseteq Auth!Live /\ why \in Auth!Reasons \ {"rotated"} /\ family' = family
    /\ state' = [x \in Tokens |-> IF x \in R THEN why ELSE state[x]]

RowMove ==
    \/ UNCHANGED <<state, family, changes, reused>>
    \/ \E n \in Tokens : Auth!NewSession(n) /\ UNCHANGED <<changes, reused>>
    \/ \E s \in Auth!Live, n \in Tokens : Auth!Rotate(s, n, state) /\ UNCHANGED <<changes, reused>>
    \/ \E s \in Auth!Live, n \in Tokens, why \in Auth!Reasons \ {"rotated"} :
          /\ Auth!Rotate(s, n, Auth!Others(s, why))
          /\ changes' \in {changes, changes + 1} /\ UNCHANGED reused
    \/ \E R \in SUBSET Auth!Live, why \in Auth!Reasons \ {"rotated"} :
          /\ Ended(R, why) /\ UNCHANGED reused
          /\ changes' = changes \/ (changes' = changes + 1 /\ R = Auth!Live)
    \/ \E s \in Auth!Known :
          /\ Ended(Auth!Family(s) \intersect Auth!Live, "refresh_token_reuse")
          /\ reused' = reused \union {family[s]} /\ UNCHANGED changes

LinkMove ==
    \/ /\ UNCHANGED <<purpose, link, born, mailed, uses, changes>>
       /\ lapsed' \subseteq lapsed \union mailed
    \/ \E l \in Links, p \in Auth!Purposes : Auth!NewLink(l, p) /\ UNCHANGED changes
    \/ \E l \in Links :
          /\ link[l] = "active" /\ Auth!Consume(l)
          /\ changes' = changes \/ (changes' = changes + 1 /\ purpose[l] = "password_reset")
    \/ /\ link' = Auth!Invalid("password_reset", {}) /\ changes' = changes + 1
       /\ UNCHANGED <<purpose, lapsed, born, mailed, uses>>


LEMMA RowStep ==
    ASSUME AuthInv, [Auth!Next]_authVars
    PROVE  RowMove
<1>. USE DEF RowMove, Ended, AuthInv, Auth!Live, Auth!Known, Auth!Reasons, Auth!userVars, Auth!rowVars, Auth!linkVars, Auth!reqVars
<1>1. CASE Auth!Register
  BY <1>1 DEF Auth!Register, Auth!NewSession
<1>2. CASE Auth!Logout
  <2>1. PICK s \in Auth!Live : state' = [state EXCEPT ![s] = "logout"] BY <1>2 DEF Auth!Logout
  <2>2. Ended({s}, "logout") BY <1>2, <2>1 DEF Auth!Logout, Auth!TypeOK
  <2>. QED BY <1>2, <2>2 DEF Auth!Logout
<1>3. CASE Auth!ResendVerification
  BY <1>3 DEF Auth!ResendVerification
<1>4. CASE Auth!RequestPasswordReset
  BY <1>4 DEF Auth!RequestPasswordReset
<1>5. CASE Auth!ChangePassword
  BY <1>5 DEF Auth!ChangePassword, Auth!Usable, Auth!Revalidated
<1>6. CASE Auth!RevokeSession
  <2>1. PICK s \in Auth!Live : state' = [state EXCEPT ![s] = "user_revoked"] BY <1>6 DEF Auth!RevokeSession
  <2>2. Ended({s}, "user_revoked") BY <1>6, <2>1 DEF Auth!RevokeSession, Auth!TypeOK
  <2>. QED BY <1>6, <2>2 DEF Auth!RevokeSession
<1>7. CASE Auth!RevokeAll
  BY <1>7 DEF Auth!RevokeAll, Auth!Usable, Auth!Revoked
<1>8. ASSUME NEW r \in Requests, Auth!LoginRead(r) PROVE RowMove
  BY <1>8 DEF Auth!LoginRead, Auth!Read
<1>9. ASSUME NEW r \in Requests, Auth!Login(r) PROVE RowMove
  BY <1>9 DEF Auth!Login, Auth!Done
<1>10. ASSUME NEW r \in Requests, Auth!RefreshRead(r) PROVE RowMove
  BY <1>10 DEF Auth!RefreshRead, Auth!Read
<1>11. ASSUME NEW r \in Requests, Auth!Refresh(r) PROVE RowMove
  <2>. UNCHANGED changes BY <1>11 DEF Auth!Refresh
  <2>. shown[r] \subseteq Auth!Known BY <1>11 DEF Auth!Refresh, RequestInv
  <2>1. PICK s \in shown[r] :
      \/ /\ Auth!Rejected /\ state' = Auth!Revoked(Auth!FamilyOf(s), "refresh_token_reuse")
         /\ reused' = reused \union {family[s]}
      \/ Auth!Rejected /\ UNCHANGED <<state, reused>>
      \/ /\ state[s] = "live" /\ Auth!Rejected /\ UNCHANGED reused
         /\ state' = [state EXCEPT ![s] = "expired"]
      \/ Auth!Rejected /\ state' = Auth!Revoked(Auth!FamilyOf(s), "account_unavailable") /\ UNCHANGED reused
      \/ /\ state[s] = "live" /\ UNCHANGED reused
         /\ \E n \in Tokens : Auth!Rotate(s, n, state)
    BY <1>11 DEF Auth!Refresh, Auth!Reread
  <2>2. ASSUME NEW why \in Auth!Reasons \ {"rotated"}, state' = Auth!Revoked(Auth!FamilyOf(s), why), Auth!Rejected
        PROVE  Ended(Auth!Family(s) \intersect Auth!Live, why)
    BY <2>2 DEF Auth!Revoked, Auth!FamilyOf, Auth!Family, Auth!Rejected
  <2>3. ASSUME state[s] = "live", state' = [state EXCEPT ![s] = "expired"], Auth!Rejected
        PROVE  Ended({s}, "expired")
    BY <2>3 DEF Auth!Rejected, Auth!TypeOK
  <2>4. Auth!Family(s) \intersect Auth!Live \in SUBSET Auth!Live OBVIOUS
  <2>5. s \in Auth!Known /\ (state[s] = "live" => s \in Auth!Live) BY DEF Auth!Known
  <2>. HIDE DEF Ended, Auth!Live, Auth!Known
  <2>6. CASE /\ Auth!Rejected /\ state' = Auth!Revoked(Auth!FamilyOf(s), "refresh_token_reuse")
             /\ reused' = reused \union {family[s]}
    BY <2>6, <2>2, <2>5
  <2>7. CASE Auth!Rejected /\ UNCHANGED <<state, reused>> BY <2>7 DEF Auth!Rejected
  <2>8. CASE /\ state[s] = "live" /\ Auth!Rejected /\ UNCHANGED reused
             /\ state' = [state EXCEPT ![s] = "expired"]
    BY <2>8, <2>3, <2>5
  <2>9. CASE Auth!Rejected /\ state' = Auth!Revoked(Auth!FamilyOf(s), "account_unavailable") /\ UNCHANGED reused
    BY <2>9, <2>2, <2>4
  <2>10. CASE /\ state[s] = "live" /\ UNCHANGED reused
              /\ \E n \in Tokens : Auth!Rotate(s, n, state)
    BY <2>10, <2>5
  <2>. QED BY <2>1, <2>6, <2>7, <2>8, <2>9, <2>10
<1>12. ASSUME NEW r \in Requests, Auth!LinkRead(r) PROVE RowMove
  BY <1>12 DEF Auth!LinkRead, Auth!Read
<1>13. ASSUME NEW r \in Requests, Auth!VerifyEmail(r) PROVE RowMove
  BY <1>13 DEF Auth!VerifyEmail, Auth!Done, Auth!Usable, Auth!Consumable
<1>14. ASSUME NEW r \in Requests, Auth!ResetPassword(r) PROVE RowMove
  BY <1>14 DEF Auth!ResetPassword, Auth!Done, Auth!Consumable, Auth!Revoked
<1>15. CASE Auth!SessionExpires
  BY <1>15 DEF Auth!SessionExpires
<1>16. CASE Auth!LinkExpires
  BY <1>16 DEF Auth!LinkExpires
<1>17. CASE Auth!Disable
  BY <1>17 DEF Auth!Disable
<1>18. CASE UNCHANGED authVars BY <1>18 DEF authVars
<1>. QED BY <1>1, <1>2, <1>3, <1>4, <1>5, <1>6, <1>7, <1>8, <1>9, <1>10, <1>11, <1>12, <1>13, <1>14, <1>15, <1>16, <1>17, <1>18 DEF Auth!Next

LEMMA LinkStep ==
    ASSUME AuthInv, [Auth!Next]_authVars
    PROVE  LinkMove
<1>. USE DEF LinkMove, AuthInv, RequestInv, Auth!Purposes, Auth!userVars, Auth!rowVars, Auth!linkVars, Auth!reqVars
<1>1. CASE Auth!Register
  BY <1>1 DEF Auth!Register, Auth!NewSession
<1>2. CASE Auth!Logout
  BY <1>2 DEF Auth!Logout
<1>3. CASE Auth!ResendVerification
  BY <1>3 DEF Auth!ResendVerification
<1>4. CASE Auth!RequestPasswordReset
  BY <1>4 DEF Auth!RequestPasswordReset
<1>5. CASE Auth!ChangePassword
  BY <1>5 DEF Auth!ChangePassword, Auth!Usable, Auth!Revalidated
<1>6. CASE Auth!RevokeSession
  BY <1>6 DEF Auth!RevokeSession
<1>7. CASE Auth!RevokeAll
  BY <1>7 DEF Auth!RevokeAll, Auth!Usable, Auth!Revoked
<1>8. ASSUME NEW r \in Requests, Auth!LoginRead(r) PROVE LinkMove
  BY <1>8 DEF Auth!LoginRead, Auth!Read
<1>9. ASSUME NEW r \in Requests, Auth!Login(r) PROVE LinkMove
  BY <1>9 DEF Auth!Login, Auth!Done
<1>10. ASSUME NEW r \in Requests, Auth!RefreshRead(r) PROVE LinkMove
  BY <1>10 DEF Auth!RefreshRead, Auth!Read
<1>11. ASSUME NEW r \in Requests, Auth!Refresh(r) PROVE LinkMove
  BY <1>11 DEF Auth!Refresh, Auth!Done, Auth!Reread, Auth!Rejected, Auth!Revoked, Auth!FamilyOf
<1>12. ASSUME NEW r \in Requests, Auth!LinkRead(r) PROVE LinkMove
  BY <1>12 DEF Auth!LinkRead, Auth!Read
<1>13. ASSUME NEW r \in Requests, Auth!VerifyEmail(r) PROVE LinkMove
  BY <1>13 DEF Auth!VerifyEmail, Auth!Done, Auth!Usable, Auth!Consumable
<1>14. ASSUME NEW r \in Requests, Auth!ResetPassword(r) PROVE LinkMove
  BY <1>14 DEF Auth!ResetPassword, Auth!Done, Auth!Consumable, Auth!Revoked
<1>15. CASE Auth!SessionExpires
  BY <1>15 DEF Auth!SessionExpires
<1>16. CASE Auth!LinkExpires
  BY <1>16 DEF Auth!LinkExpires
<1>17. CASE Auth!Disable
  BY <1>17 DEF Auth!Disable
<1>18. CASE UNCHANGED authVars BY <1>18 DEF authVars
<1>. QED BY <1>1, <1>2, <1>3, <1>4, <1>5, <1>6, <1>7, <1>8, <1>9, <1>10, <1>11, <1>12, <1>13, <1>14, <1>15, <1>16, <1>17, <1>18 DEF Auth!Next

-----------------------------------------------------------------------------
(* Each part of the invariant is kept.                                      *)

LEMMA RowTypes ==
    ASSUME Auth!TypeOK, RowMove
    PROVE  /\ state' \in [Tokens -> {"none", "live"} \union Auth!Reasons]
           /\ family' \in [Tokens -> Tokens]
<1>1. state \in [Tokens -> {"none", "live"} \union Auth!Reasons] /\ family \in [Tokens -> Tokens]
  BY DEF Auth!TypeOK
<1>2. "rotated" \in Auth!Reasons BY DEF Auth!Reasons
<1>3. ASSUME NEW R, NEW why, Ended(R, why)
      PROVE  /\ state' \in [Tokens -> {"none", "live"} \union Auth!Reasons]
             /\ family' \in [Tokens -> Tokens]
  BY <1>1, <1>3 DEF Ended
<1>4. ASSUME NEW s \in Tokens, NEW n \in Tokens, NEW base \in [Tokens -> {"none", "live"} \union Auth!Reasons],
             Auth!Rotate(s, n, base)
      PROVE  /\ state' \in [Tokens -> {"none", "live"} \union Auth!Reasons]
             /\ family' \in [Tokens -> Tokens]
  BY <1>1, <1>2, <1>4 DEF Auth!Rotate
<1>5. ASSUME NEW s, NEW why \in Auth!Reasons
      PROVE  Auth!Others(s, why) \in [Tokens -> {"none", "live"} \union Auth!Reasons]
  BY <1>1 DEF Auth!Others, Auth!Revoked
<1>6. Auth!Live \subseteq Tokens BY DEF Auth!Live
<1>7. ASSUME NEW n \in Tokens, Auth!NewSession(n)
      PROVE  /\ state' \in [Tokens -> {"none", "live"} \union Auth!Reasons]
             /\ family' \in [Tokens -> Tokens]
  BY <1>1, <1>7 DEF Auth!NewSession
<1>8. CASE \E s \in Auth!Live, n \in Tokens : Auth!Rotate(s, n, state) BY <1>1, <1>4, <1>6, <1>8
<1>9. CASE \E s \in Auth!Live, n \in Tokens, why \in Auth!Reasons \ {"rotated"} :
             Auth!Rotate(s, n, Auth!Others(s, why))
  BY <1>4, <1>5, <1>6, <1>9
<1>10. CASE \E R, why : Ended(R, why) BY <1>3, <1>10
<1>11. CASE UNCHANGED <<state, family>> BY <1>1, <1>11
<1>. QED BY <1>7, <1>8, <1>9, <1>10, <1>11 DEF RowMove

LEMMA FamilyStep ==
    ASSUME Auth!TypeOK, FamilyInv, RowMove
    PROVE  FamilyInv'
<1>. USE DEF FamilyInv, Auth!Known, Auth!Live, Auth!OneLivePerFamily, Auth!ReuseEndsFamily, Auth!Family
<1>1. state \in [Tokens -> {"none", "live"} \union Auth!Reasons] /\ family \in [Tokens -> Tokens]
  BY DEF Auth!TypeOK
<1>2. CASE UNCHANGED <<state, family, changes, reused>> BY <1>2
<1>3. ASSUME NEW n \in Tokens, Auth!NewSession(n), UNCHANGED reused PROVE FamilyInv'
  BY <1>1, <1>3 DEF Auth!NewSession
<1>4. ASSUME NEW s \in Auth!Live, NEW n \in Tokens, Auth!Rotate(s, n, state), UNCHANGED reused PROVE FamilyInv'
  BY <1>1, <1>4 DEF Auth!Rotate
<1>5. ASSUME NEW s \in Auth!Live, NEW n \in Tokens, NEW why \in Auth!Reasons \ {"rotated"},
             Auth!Rotate(s, n, Auth!Others(s, why)), UNCHANGED reused
      PROVE  FamilyInv'
  BY <1>1, <1>5 DEF Auth!Rotate, Auth!Others, Auth!Revoked, Auth!Reasons
<1>6. ASSUME NEW R \in SUBSET Auth!Live, NEW why \in Auth!Reasons \ {"rotated"}, Ended(R, why), UNCHANGED reused
      PROVE  FamilyInv'
  BY <1>1, <1>6 DEF Ended, Auth!Reasons
<1>7. ASSUME NEW s \in Auth!Known, Ended(Auth!Family(s) \intersect Auth!Live, "refresh_token_reuse"),
             reused' = reused \union {family[s]}
      PROVE  FamilyInv'
  BY <1>1, <1>7 DEF Ended, Auth!Reasons
<1>. QED BY <1>2, <1>3, <1>4, <1>5, <1>6, <1>7 DEF RowMove

LinkTypes ==
    /\ purpose \in [Links -> Auth!Purposes] /\ link \in [Links -> Auth!LinkStates]
    /\ lapsed \subseteq Links /\ mailed \subseteq Links
    /\ born \in [Links -> 0..MaxChanges] /\ uses \in [Links -> Nat]

LEMMA LinkTypesStep ==
    ASSUME Auth!TypeOK, LinkMove
    PROVE  LinkTypes'
<1>. USE DEF LinkTypes
<1>1. LinkTypes /\ changes \in 0..MaxChanges BY DEF Auth!TypeOK
<1>2. \A p, S : Auth!Invalid(p, S) \in [Links -> Auth!LinkStates]
  BY <1>1 DEF Auth!Invalid, Auth!LinkStates
<1>3. {"active", "consumed"} \subseteq Auth!LinkStates BY DEF Auth!LinkStates
<1>4. CASE UNCHANGED <<purpose, link, born, mailed, uses>> /\ lapsed' \subseteq lapsed \union mailed
  BY <1>1, <1>4
<1>5. ASSUME NEW l \in Links, NEW p \in Auth!Purposes, Auth!NewLink(l, p) PROVE LinkTypes'
  BY <1>1, <1>2, <1>3, <1>5 DEF Auth!NewLink
<1>6. ASSUME NEW l \in Links, Auth!Consume(l) PROVE LinkTypes'
  BY <1>1, <1>2, <1>3, <1>6 DEF Auth!Consume
<1>7. CASE link' = Auth!Invalid("password_reset", {}) /\ UNCHANGED <<purpose, lapsed, born, mailed, uses>>
  BY <1>1, <1>2, <1>7
<1>. QED BY <1>4, <1>5, <1>6, <1>7 DEF LinkMove

LEMMA LinksStep ==
    ASSUME Auth!TypeOK, LinkInv, LinkMove, mailed' \subseteq Links
    PROVE  LinkInv'
<1>. USE DEF LinkInv, Auth!ResetLinkIsCurrent
<1>1. /\ link \in [Links -> Auth!LinkStates] /\ purpose \in [Links -> Auth!Purposes]
      /\ born \in [Links -> 0..MaxChanges] /\ uses \in [Links -> Nat] /\ mailed \subseteq Links
  BY DEF Auth!TypeOK
<1>2. CASE UNCHANGED <<purpose, link, born, mailed, uses, changes>> BY <1>2
<1>3. ASSUME NEW l \in Links, NEW p \in Auth!Purposes, Auth!NewLink(l, p), UNCHANGED changes PROVE LinkInv'
  BY <1>1, <1>3 DEF Auth!NewLink, Auth!Invalid
<1>4. ASSUME NEW l \in Links, link[l] = "active", Auth!Consume(l),
             changes' = changes \/ (changes' = changes + 1 /\ purpose[l] = "password_reset")
      PROVE  LinkInv'
  BY <1>1, <1>4 DEF Auth!Consume, Auth!Invalid
<1>5. CASE /\ link' = Auth!Invalid("password_reset", {}) /\ changes' = changes + 1
           /\ UNCHANGED <<purpose, born, mailed, uses>>
  BY <1>1, <1>5 DEF Auth!Invalid
<1>. QED BY <1>2, <1>3, <1>4, <1>5 DEF LinkMove

\* The account, and what sessions are known to have proved.
UserTypes ==
    /\ account \in {"none", "active", "disabled"} /\ verified \in BOOLEAN /\ outdated \in BOOLEAN
    /\ password \in 0..MaxChanges /\ changes \in 0..MaxChanges
    /\ issued \in [Tokens -> 0..MaxChanges] /\ aged \subseteq Tokens

LEMMA UserStep ==
    ASSUME WellFormed, AuthInv, [Auth!Next]_authVars
    PROVE  UserTypes'
<1>. USE DEF WellFormed, Auth!AuthAssumption, UserTypes, Auth!Live, Auth!userVars, Auth!rowVars, Auth!linkVars, Auth!reqVars
<1>0. /\ UserTypes /\ pc \in [Requests -> {"idle", "login", "refresh"} \union Auth!Purposes]
      /\ candidate \in [Requests -> [password : 0..MaxChanges, account : {"active", "disabled"}, outdated : BOOLEAN]]
  BY DEF AuthInv, Auth!TypeOK, Auth!UserRow
<1>1. CASE Auth!Register
  BY <1>0, <1>1 DEF Auth!Register, Auth!NewSession, Auth!NewLink
<1>2. CASE Auth!Logout
  BY <1>0, <1>2 DEF Auth!Logout
<1>3. CASE Auth!ResendVerification
  BY <1>0, <1>3 DEF Auth!ResendVerification, Auth!NewLink
<1>4. CASE Auth!RequestPasswordReset
  BY <1>0, <1>4 DEF Auth!RequestPasswordReset, Auth!NewLink
<1>5. CASE Auth!ChangePassword
  <2>1. PICK n \in Tokens : issued' = [issued EXCEPT ![n] = changes + 1]
    BY <1>5 DEF Auth!ChangePassword
  <2>2. changes + 1 \in 0..MaxChanges BY <1>0, <1>5 DEF Auth!ChangePassword
  <2>3. issued' \in [Tokens -> 0..MaxChanges] BY <1>0, <2>1, <2>2
  <2>. QED BY <1>0, <1>5, <2>2, <2>3 DEF Auth!ChangePassword
<1>6. CASE Auth!RevokeSession
  BY <1>0, <1>6 DEF Auth!RevokeSession
<1>7. CASE Auth!RevokeAll
  BY <1>0, <1>7 DEF Auth!RevokeAll, Auth!Usable, Auth!Rotate
<1>8. ASSUME NEW r \in Requests, Auth!LoginRead(r) PROVE UserTypes'
  BY <1>0, <1>8 DEF Auth!LoginRead, Auth!Read
<1>9. ASSUME NEW r \in Requests, Auth!Login(r) PROVE UserTypes'
  BY <1>0, <1>9 DEF Auth!Login, Auth!Done, Auth!NewSession
<1>10. ASSUME NEW r \in Requests, Auth!RefreshRead(r) PROVE UserTypes'
  BY <1>0, <1>10 DEF Auth!RefreshRead, Auth!Read
<1>11. ASSUME NEW r \in Requests, Auth!Refresh(r) PROVE UserTypes'
  <2>1. issued' = issued \/ \E s, n \in Tokens : issued' = [issued EXCEPT ![n] = issued[s]]
    <3>1. shown[r] \subseteq Tokens BY <1>11 DEF Auth!Refresh, AuthInv, RequestInv, Auth!Known
    <3>. QED BY <3>1, <1>11 DEF Auth!Refresh, Auth!Reread, Auth!Rejected
  <2>. QED BY <1>0, <1>11, <2>1 DEF Auth!Refresh
<1>12. ASSUME NEW r \in Requests, Auth!LinkRead(r) PROVE UserTypes'
  BY <1>0, <1>12 DEF Auth!LinkRead, Auth!Read
<1>13. ASSUME NEW r \in Requests, Auth!VerifyEmail(r) PROVE UserTypes'
  BY <1>0, <1>13 DEF Auth!VerifyEmail, Auth!Done, Auth!Usable, Auth!Consumable, Auth!NewSession, Auth!Rotate
<1>14. ASSUME NEW r \in Requests, Auth!ResetPassword(r) PROVE UserTypes'
  <2>1. UNCHANGED <<changes, password, outdated>> \/
        (changes < MaxChanges /\ changes' = changes + 1 /\ password' = changes + 1 /\ outdated' = FALSE)
    BY <1>14 DEF Auth!ResetPassword
  <2>2. password' \in 0..MaxChanges /\ changes' \in 0..MaxChanges BY <1>0, <2>1
  <2>3. outdated' \in BOOLEAN BY <1>0, <2>1
  <2>. QED BY <1>0, <1>14, <2>2, <2>3 DEF Auth!ResetPassword
<1>15. CASE Auth!SessionExpires
  BY <1>0, <1>15 DEF Auth!SessionExpires
<1>16. CASE Auth!LinkExpires
  BY <1>0, <1>16 DEF Auth!LinkExpires
<1>17. CASE Auth!Disable
  BY <1>0, <1>17 DEF Auth!Disable
<1>18. CASE UNCHANGED authVars BY <1>0, <1>18 DEF authVars
<1>. QED BY <1>1, <1>2, <1>3, <1>4, <1>5, <1>6, <1>7, <1>8, <1>9, <1>10, <1>11, <1>12, <1>13, <1>14, <1>15, <1>16, <1>17, <1>18 DEF Auth!Next

RequestTypes ==
    /\ pc \in [Requests -> {"idle", "login", "refresh"} \union Auth!Purposes]
    /\ shown \in [Requests -> SUBSET (Tokens \union Links)]
    /\ seen \in [Requests -> {Auth!NotRead, "live"} \union Auth!Reasons \union Auth!LinkStates]
    /\ candidate \in [Requests -> Auth!UserRow]

\* What exists stays: a token that is known, a link that was created.
LEMMA Kept ==
    ASSUME Auth!TypeOK, RowMove, LinkMove
    PROVE  /\ Auth!Known \subseteq Auth!Known'
           /\ \A l \in Links : link[l] # "none" => link'[l] # "none" /\ purpose'[l] = purpose[l]
<1>1. /\ state \in [Tokens -> {"none", "live"} \union Auth!Reasons]
      /\ link \in [Links -> Auth!LinkStates] /\ purpose \in [Links -> Auth!Purposes]
  BY DEF Auth!TypeOK
<1>2. Auth!Known \subseteq Auth!Known'
  BY <1>1 DEF RowMove, Auth!Known, Auth!Live, Ended, Auth!NewSession, Auth!Rotate, Auth!Others, Auth!Revoked, Auth!Reasons
<1>3. \A l \in Links : link[l] # "none" => link'[l] # "none" /\ purpose'[l] = purpose[l]
  BY <1>1 DEF LinkMove, Auth!NewLink, Auth!Consume, Auth!Invalid
<1>. QED BY <1>2, <1>3

\* A request reads what it will act on.
LEMMA ReadKeeps ==
    ASSUME RequestTypes, RequestInv, NEW r \in Requests,
           NEW step \in {"idle", "login", "refresh"} \union Auth!Purposes,
           NEW what \in SUBSET (Tokens \union Links),
           NEW row \in {Auth!NotRead, "live"} \union Auth!Reasons \union Auth!LinkStates,
           NEW found \in Auth!UserRow,
           Auth!Read(r, step, what, row, found),
           step = "refresh" => what \subseteq Auth!Known,
           step = "password_reset" =>
               \A l \in what : l \in Links /\ link[l] # "none" /\ purpose[l] = "password_reset"
    PROVE  RequestTypes' /\ RequestInv'
<1>1. /\ pc' = [pc EXCEPT ![r] = step] /\ shown' = [shown EXCEPT ![r] = what]
      /\ seen' = [seen EXCEPT ![r] = row] /\ candidate' = [candidate EXCEPT ![r] = found]
      /\ state' = state /\ link' = link /\ purpose' = purpose
  BY DEF Auth!Read, Auth!rowVars, Auth!linkVars
<1>2. RequestTypes' BY <1>1 DEF RequestTypes
<1>3. RequestInv' BY <1>1 DEF RequestTypes, RequestInv, Auth!Known
<1>. QED BY <1>2, <1>3

\* A request that is done carries nothing.
LEMMA DoneKeeps ==
    ASSUME WellFormed, Auth!TypeOK, RequestInv, RowMove, LinkMove, NEW r \in Requests, Auth!Done(r)
    PROVE  RequestTypes' /\ RequestInv'
<1>1. /\ pc' = [pc EXCEPT ![r] = "idle"] /\ shown' = [shown EXCEPT ![r] = {}]
      /\ seen' = [seen EXCEPT ![r] = Auth!NotRead]
      /\ candidate' = [candidate EXCEPT ![r] = Auth!NoUser]
  BY DEF Auth!Done
<1>2. RequestTypes BY DEF Auth!TypeOK, RequestTypes
<1>3. Auth!NoUser \in Auth!UserRow
  <2>1. 0 \in 0..MaxChanges BY DEF WellFormed, Auth!AuthAssumption
  <2>. QED BY <2>1 DEF Auth!NoUser, Auth!UserRow
<1>4. RequestTypes' BY <1>1, <1>2, <1>3 DEF RequestTypes
<1>5. RequestInv'
  <2>. SUFFICES ASSUME NEW q \in Requests
                PROVE  /\ pc'[q] = "refresh" => shown'[q] \subseteq Auth!Known'
                       /\ pc'[q] = "password_reset" =>
                            \A l \in shown'[q] : l \in Links /\ link'[l] # "none" /\ purpose'[l] = "password_reset"
    BY DEF RequestInv
  <2>1. pc'[r] = "idle" /\ (q # r => pc'[q] = pc[q] /\ shown'[q] = shown[q])
    BY <1>1, <1>2 DEF RequestTypes
  <2>. QED BY <2>1, Kept DEF RequestInv
<1>. QED BY <1>4, <1>5

LEMMA RequestStep ==
    ASSUME WellFormed, AuthInv, [Auth!Next]_authVars
    PROVE  RequestTypes' /\ RequestInv'
<1>1. Auth!TypeOK /\ RequestInv /\ RowMove /\ LinkMove BY RowStep, LinkStep DEF AuthInv
<1>2. RequestTypes BY <1>1 DEF Auth!TypeOK, RequestTypes
<1>3. ASSUME UNCHANGED Auth!reqVars PROVE RequestTypes' /\ RequestInv'
  <2>1. pc' = pc /\ shown' = shown /\ seen' = seen /\ candidate' = candidate BY <1>3 DEF Auth!reqVars
  <2>2. RequestTypes' BY <2>1, <1>2 DEF RequestTypes
  <2>3. RequestInv' BY <2>1, <1>1, Kept DEF RequestInv
  <2>. QED BY <2>2, <2>3
<1>4. CASE \/ Auth!Register \/ Auth!Logout \/ Auth!ResendVerification \/ Auth!RequestPasswordReset
           \/ Auth!ChangePassword \/ Auth!RevokeSession \/ Auth!RevokeAll
           \/ Auth!SessionExpires \/ Auth!LinkExpires \/ Auth!Disable \/ UNCHANGED authVars
  <2>1. UNCHANGED Auth!reqVars
    BY <1>4 DEF Auth!Register, Auth!Logout, Auth!ResendVerification, Auth!RequestPasswordReset,
         Auth!ChangePassword, Auth!RevokeSession, Auth!RevokeAll, Auth!SessionExpires, Auth!LinkExpires,
         Auth!Disable, authVars, Auth!reqVars
  <2>. QED BY <2>1, <1>3
<1>5. ASSUME NEW r \in Requests, Auth!Login(r) \/ Auth!Refresh(r) \/ Auth!VerifyEmail(r) \/ Auth!ResetPassword(r)
      PROVE  RequestTypes' /\ RequestInv'
  <2>1. Auth!Done(r) BY <1>5 DEF Auth!Login, Auth!Refresh, Auth!VerifyEmail, Auth!ResetPassword
  <2>. QED BY <2>1, <1>1, DoneKeeps
<1>6. Auth!NoUser \in Auth!UserRow
  <2>1. 0 \in 0..MaxChanges BY DEF WellFormed, Auth!AuthAssumption
  <2>. QED BY <2>1 DEF Auth!NoUser, Auth!UserRow
<1>7. ASSUME NEW r \in Requests, Auth!LoginRead(r) PROVE RequestTypes' /\ RequestInv'
  <2>1. [password |-> password, account |-> account, outdated |-> outdated] \in Auth!UserRow
    BY <1>1, <1>7 DEF Auth!LoginRead, Auth!TypeOK, Auth!UserRow
  <2>. QED BY <2>1, <1>1, <1>2, <1>7, ReadKeeps DEF Auth!LoginRead, Auth!Purposes
<1>8. ASSUME NEW r \in Requests, Auth!RefreshRead(r) PROVE RequestTypes' /\ RequestInv'
  <2>1. PICK s \in Auth!Known : Auth!Read(r, "refresh", {s}, state[s], Auth!NoUser)
    BY <1>8 DEF Auth!RefreshRead
  <2>2. state[s] \in {Auth!NotRead, "live"} \union Auth!Reasons \union Auth!LinkStates /\ s \in Tokens
    BY <1>1 DEF Auth!TypeOK, Auth!Known
  <2>. QED BY <2>1, <2>2, <1>1, <1>2, <1>6, ReadKeeps
<1>9. ASSUME NEW r \in Requests, Auth!LinkRead(r) PROVE RequestTypes' /\ RequestInv'
  <2>1. PICK l \in mailed, s \in {{}} \union {{x} : x \in Auth!Known} :
            (s # {} => purpose[l] = "email_verification") /\ Auth!Read(r, purpose[l], {l} \union s, link[l], Auth!NoUser)
    BY <1>9 DEF Auth!LinkRead
  <2>2. l \in Links /\ link[l] # "none" /\ link[l] \in Auth!LinkStates /\ purpose[l] \in Auth!Purposes
    BY <1>1 DEF AuthInv, LinkInv, Auth!TypeOK
  <2>3. {l} \union s \in SUBSET (Tokens \union Links) BY <2>2 DEF Auth!Known
  <2>4. purpose[l] = "password_reset" => {l} \union s = {l} BY <2>1
  <2>5. purpose[l] # "refresh" BY <2>2 DEF Auth!Purposes
  <2>. QED BY <2>1, <2>2, <2>3, <2>4, <2>5, <1>1, <1>2, <1>6, ReadKeeps
<1>. QED BY <1>4, <1>5, <1>7, <1>8, <1>9 DEF Auth!Next

LEMMA AuthStep ==
    ASSUME WellFormed, AuthInv, [Auth!Next]_authVars
    PROVE  AuthInv'
<1>1. RowMove /\ LinkMove /\ Auth!TypeOK BY RowStep, LinkStep DEF AuthInv
<1>2. UserTypes' /\ RequestTypes' /\ RequestInv' BY UserStep, RequestStep
<1>3. LinkTypes' BY <1>1, LinkTypesStep
<1>4. reused' \subseteq Tokens
  <2>1. reused \subseteq Tokens /\ family \in [Tokens -> Tokens] BY <1>1 DEF Auth!TypeOK
  <2>2. reused' = reused \/ \E s \in Tokens : reused' = reused \union {family[s]}
    BY <1>1 DEF RowMove, Auth!Known
  <2>. QED BY <2>1, <2>2
<1>5. Auth!TypeOK'
  BY <1>1, <1>2, <1>3, <1>4, RowTypes DEF Auth!TypeOK, UserTypes, RequestTypes, LinkTypes
<1>6. FamilyInv' BY <1>1, FamilyStep DEF AuthInv
<1>7. LinkInv' BY <1>1, <1>3, LinksStep DEF AuthInv, LinkTypes
<1>. QED BY <1>2, <1>5, <1>6, <1>7 DEF AuthInv

-----------------------------------------------------------------------------
(* A row of a login, the promise about logins.                              *)

\* The families of the live sessions are the open logins.
Open   == {family[s] : s \in Auth!Live}
Closed == {family[s] : s \in Auth!Known} \ Open

LEMMA PromiseStep ==
    ASSUME Auth!TypeOK, FamilyInv, RowMove
    PROVE  Auth!Promise!Next \/ UNCHANGED Auth!Promise!promiseVars
<1>. USE DEF Auth!Known, Auth!Live
<1>1. state \in [Tokens -> {"none", "live"} \union Auth!Reasons] /\ family \in [Tokens -> Tokens]
  BY DEF Auth!TypeOK
<1>2. Open \subseteq Tokens BY <1>1 DEF Open
<1>3. CASE UNCHANGED <<state, family, changes, reused>>
  BY <1>3 DEF Auth!Promise!promiseVars
<1>4. ASSUME NEW n \in Tokens, Auth!NewSession(n), UNCHANGED changes
      PROVE  Auth!Promise!LogIn(n)
  <2>1. state' = [state EXCEPT ![n] = "live"] /\ family' = [family EXCEPT ![n] = n] /\ state[n] = "none"
    BY <1>4 DEF Auth!NewSession
  <2>2. \A x \in Auth!Known : family[x] # n BY <2>1 DEF FamilyInv
  <2>3. Auth!Live' = Auth!Live \union {n} /\ Auth!Known' = Auth!Known \union {n} BY <1>1, <2>1
  <2>4. Open' = Open \union {n} BY <1>1, <2>1, <2>3 DEF Open
  <2>5. Closed' = Closed BY <1>1, <2>1, <2>2, <2>3, <2>4 DEF Closed
  <2>6. n \notin Open \union Closed BY <2>2 DEF Open, Closed
  <2>. QED BY <1>4, <2>4, <2>5, <2>6 DEF Auth!Promise!LogIn, Open, Closed
<1>5. ASSUME NEW s \in Auth!Live, NEW n \in Tokens, Auth!Rotate(s, n, state), UNCHANGED changes
      PROVE  UNCHANGED Auth!Promise!promiseVars
  <2>1. state' = [state EXCEPT ![s] = "rotated", ![n] = "live"] /\ family' = [family EXCEPT ![n] = family[s]] /\ state[n] = "none"
    BY <1>5 DEF Auth!Rotate
  <2>2. Auth!Live' = (Auth!Live \ {s}) \union {n} /\ Auth!Known' = Auth!Known \union {n} BY <1>1, <2>1
  <2>3. Open' = Open BY <1>1, <2>1, <2>2 DEF Open
  <2>4. Closed' = Closed BY <1>1, <2>1, <2>2, <2>3 DEF Closed
  <2>. QED BY <1>5, <2>3, <2>4 DEF Auth!Promise!promiseVars, Open, Closed
<1>6. ASSUME NEW s \in Auth!Live, NEW n \in Tokens, NEW why \in Auth!Reasons \ {"rotated"},
             Auth!Rotate(s, n, Auth!Others(s, why)), changes' \in {changes, changes + 1}
      PROVE  Auth!Promise!Next
  <2>1. /\ state' = [Auth!Others(s, why) EXCEPT ![s] = "rotated", ![n] = "live"]
        /\ family' = [family EXCEPT ![n] = family[s]] /\ state[n] = "none"
    BY <1>6 DEF Auth!Rotate
  <2>2. Auth!Live' = {n} /\ Auth!Known' = Auth!Known \union {n}
    BY <1>1, <2>1 DEF Auth!Others, Auth!Revoked, Auth!Reasons
  <2>3. Open' = {family[s]} /\ family[s] \in Open BY <1>1, <2>1, <2>2 DEF Open
  <2>4. Closed' = Closed \union (Open \ {family[s]}) BY <1>1, <2>1, <2>2, <2>3 DEF Closed, Open
  <2>5. CASE changes' = changes + 1
    <3>1. PICK S \in SUBSET Tokens : S = {family[s]} BY <1>1
    <3>2. \A k, l \in S : k = l BY <3>1
    <3>3. Auth!Promise!NewPassword(S)
      <4>1. S \subseteq Open /\ Open' = Open \ (Open \ S) /\ Closed' = Closed \union (Open \ S)
        BY <2>3, <2>4, <3>1
      <4>2. /\ S \subseteq {family[x] : x \in Auth!Live}
            /\ {family[x] : x \in Auth!Live}' = Open \ (Open \ S)
            /\ ({family[x] : x \in Auth!Known} \ {family[x] : x \in Auth!Live})' = Closed \union (Open \ S)
        BY <4>1 DEF Open, Closed
      <4>. HIDE DEF Auth!Known, Auth!Live
      <4>. QED BY <2>5, <3>2, <4>2 DEF Auth!Promise!NewPassword, Auth!Promise!End, Open, Closed
    <3>. QED BY <3>3 DEF Auth!Promise!Next
  <2>6. CASE changes' = changes
    <3>1. PICK S \in SUBSET Tokens : S = Open \ {family[s]} BY <1>2
    <3>2. Auth!Promise!LogOut(S)
      <4>1. S \subseteq Open /\ Open' = Open \ S /\ Closed' = Closed \union S
        BY <2>3, <2>4, <3>1
      <4>. QED BY <2>6, <4>1 DEF Auth!Promise!LogOut, Auth!Promise!End, Open, Closed
    <3>. QED BY <3>2 DEF Auth!Promise!Next
  <2>. QED BY <1>6, <2>5, <2>6
<1>7. ASSUME NEW R \in SUBSET Auth!Live, NEW why \in Auth!Reasons \ {"rotated"}, Ended(R, why)
      PROVE  /\ Open' = Open \ {family[x] : x \in R}
             /\ Closed' = Closed \union {family[x] : x \in R}
             /\ {family[x] : x \in R} \subseteq Open
  <2>1. state' = [x \in Tokens |-> IF x \in R THEN why ELSE state[x]] /\ family' = family
    BY <1>7 DEF Ended
  <2>2. Auth!Live' = Auth!Live \ R /\ Auth!Known' = Auth!Known BY <1>1, <2>1 DEF Auth!Reasons
  <2>3. \A x, y \in Auth!Live : family[x] = family[y] => x = y
    BY DEF FamilyInv, Auth!OneLivePerFamily, Auth!Family
  <2>4. Open' = Open \ {family[x] : x \in R} BY <2>1, <2>2, <2>3 DEF Open
  <2>5. {family[x] : x \in R} \subseteq Open BY DEF Open
  <2>. QED BY <2>1, <2>2, <2>4, <2>5 DEF Closed
<1>8. ASSUME NEW R \in SUBSET Auth!Live, NEW why \in Auth!Reasons \ {"rotated"}, Ended(R, why), changes' = changes
      PROVE  Auth!Promise!Next
  <2>1. PICK S \in SUBSET Tokens : S = {family[x] : x \in R} BY <1>2, <1>7, <1>8
  <2>2. Auth!Promise!LogOut(S)
    <3>1. S \subseteq Open /\ Open' = Open \ S /\ Closed' = Closed \union S BY <1>7, <1>8, <2>1
    <3>. QED BY <1>8, <3>1 DEF Auth!Promise!LogOut, Auth!Promise!End, Open, Closed
  <2>. QED BY <2>2 DEF Auth!Promise!Next
<1>9. ASSUME NEW why \in Auth!Reasons \ {"rotated"}, Ended(Auth!Live, why), changes' = changes + 1
      PROVE  Auth!Promise!Next
  <2>1. Auth!Promise!NewPassword({})
    <3>1. {family[x] : x \in Auth!Live} = Open BY DEF Open
    <3>2. Open' = Open \ Open /\ Closed' = Closed \union Open BY <1>7, <1>9, <3>1
    <3>. QED BY <1>9, <3>2 DEF Auth!Promise!NewPassword, Auth!Promise!End, Open, Closed
  <2>. QED BY <2>1 DEF Auth!Promise!Next
<1>10. CASE \E s \in Auth!Known :
          /\ Ended(Auth!Family(s) \intersect Auth!Live, "refresh_token_reuse") /\ UNCHANGED changes
  <2>1. PICK s \in Auth!Known : Ended(Auth!Family(s) \intersect Auth!Live, "refresh_token_reuse")
    BY <1>10
  <2>. QED BY <2>1, <1>8, <1>10 DEF Auth!Reasons
<1>11. CASE \E n \in Tokens : Auth!NewSession(n) /\ UNCHANGED changes
  BY <1>4, <1>11 DEF Auth!Promise!Next
<1>. HIDE DEF Auth!Known, Auth!Live
<1>. QED BY <1>3, <1>5, <1>6, <1>8, <1>9, <1>10, <1>11 DEF RowMove

LEMMA PromiseInit == ASSUME Auth!Init PROVE Auth!Promise!Init
BY DEF Auth!Init, Auth!Promise!Init, Auth!Live, Auth!Known

-----------------------------------------------------------------------------
(* The theorems.                                                            *)

\* Requests that present one token at the same time never both get a
\* replacement, a reused family stays ended, and links work once (refresh,
\* verify_email, reset_password, change_password), for any requests.
THEOREM TokensTheorem == Spec => []TokensWorkOnce
<1>1. Init => AuthInv BY WellFormed, AuthInit DEF Init
<1>2. AuthInv /\ [Next]_<<focus, authVars, webVars>> => AuthInv'
  <2>1. ASSUME [Next]_<<focus, authVars, webVars>> PROVE [Auth!Next]_authVars BY <2>1 DEF Next
  <2>. QED BY <2>1, WellFormed, AuthStep
<1>3. AuthInv => TokensWorkOnce
  BY DEF AuthInv, FamilyInv, LinkInv, TokensWorkOnce, Auth!LinkUsedOnce
<1>. QED BY <1>1, <1>2, <1>3, PTL DEF Spec

\* A login that ended stays ended, and a new password ends all but one: the
\* service implements SessionPromise.
THEOREM SessionRefinement == Spec => KeepsSessionPromise
<1>1. Init => AuthInv /\ Auth!Promise!Init BY WellFormed, AuthInit, PromiseInit DEF Init
<1>2. AuthInv /\ [Next]_<<focus, authVars, webVars>> => AuthInv' /\ [Auth!Promise!Next]_Auth!Promise!promiseVars
  <2>1. ASSUME [Next]_<<focus, authVars, webVars>> PROVE [Auth!Next]_authVars BY <2>1 DEF Next
  <2>. QED BY <2>1, WellFormed, AuthStep, RowStep, PromiseStep DEF AuthInv
<1>. QED BY <1>1, <1>2, PTL DEF Spec, KeepsSessionPromise, Auth!KeepsSessionPromise, Auth!Promise!Spec

-----------------------------------------------------------------------------
(* The tokens of a browser, as the API keeps them.                          *)

Given == {n \in Tokens : webState[n] # "none"}
Alive == {n \in Tokens : webState[n] = "live"}

\* A family is named by its first token and has one live token at most.
WebRows ==
    /\ webState \in [Tokens -> {"none", "live", "rotated", "revoked"}]
    /\ webFamily \in [Tokens -> Tokens]
    /\ \A n \in Tokens \ Given : webFamily[n] = n
    /\ \A n \in Given : webFamily[n] \in Given /\ webFamily[webFamily[n]] = webFamily[n]
    /\ \A n, m \in Alive : webFamily[n] = webFamily[m] => n = m

\* What a step of any tab does to them.
WebMove ==
    \/ UNCHANGED <<webState, webFamily>>
    \/ \E n \in Tokens \ Given :
          webState' = [webState EXCEPT ![n] = "live"] /\ UNCHANGED webFamily
    \/ \E n \in Alive, m \in Tokens \ Given :
          /\ webState' = [webState EXCEPT ![n] = "rotated", ![m] = "live"]
          /\ webFamily' = [webFamily EXCEPT ![m] = webFamily[n]]
    \/ \E R \in SUBSET Alive :
          /\ webState' = [n \in Tokens |-> IF n \in R THEN "revoked" ELSE webState[n]]
          /\ UNCHANGED webFamily

LEMMA OneTabMoves ==
    ASSUME [OneTab!Next]_webVars
    PROVE  WebMove
<1>. USE DEF WebMove, Alive, Given, OneTab!server
<1>1. ASSUME NEW t \in {Tab}, OneTab!ServeRefresh(t) PROVE WebMove
  <2>1. PICK f \in refresh[t] :
      \/ \E m \in Tokens : /\ f.token \in Alive /\ webState[m] = "none"
                           /\ webState' = [webState EXCEPT ![f.token] = "rotated", ![m] = "live"]
                           /\ webFamily' = [webFamily EXCEPT ![m] = webFamily[f.token]]
      \/ /\ webState' = [n \in Tokens |-> IF n \in OneTab!Family(f.token) \intersect OneTab!Live
                                          THEN "revoked" ELSE webState[n]]
         /\ UNCHANGED webFamily
      \/ UNCHANGED <<webState, webFamily>>
    BY <1>1 DEF OneTab!ServeRefresh, OneTab!Accepted, OneTab!Rotated, OneTab!Live, OneTab!server
  <2>2. OneTab!Family(f.token) \intersect OneTab!Live \in SUBSET Alive BY DEF OneTab!Live
  <2>. QED BY <2>1, <2>2
<1>2. ASSUME NEW t \in {Tab}, OneTab!ReceiveRefresh(t) PROVE WebMove
  BY <1>2 DEF OneTab!ReceiveRefresh
<1>3. ASSUME NEW t \in {Tab}, OneTab!LoadUser(t) PROVE WebMove
  BY <1>3 DEF OneTab!LoadUser
<1>4. ASSUME NEW t \in {Tab}, OneTab!Reload(t) PROVE WebMove
  BY <1>4 DEF OneTab!Reload
<1>5. ASSUME NEW t \in {Tab}, OneTab!LoseRefresh(t) PROVE WebMove
  BY <1>5 DEF OneTab!LoseRefresh
<1>6. ASSUME NEW t \in {Tab}, OneTab!ServeLogout(t) PROVE WebMove
  <2>1. PICK f \in logout[t] :
      /\ webState' = [n \in Tokens |-> IF n = f.token /\ n \in OneTab!Live THEN "revoked" ELSE webState[n]]
      /\ UNCHANGED webFamily
    BY <1>6 DEF OneTab!ServeLogout
  <2>2. PICK R \in SUBSET Alive : R = {f.token} \intersect Alive OBVIOUS
  <2>3. webState' = [n \in Tokens |-> IF n \in R THEN "revoked" ELSE webState[n]]
    BY <2>1, <2>2 DEF OneTab!Live
  <2>. QED BY <2>1, <2>3
<1>7. ASSUME NEW t \in {Tab}, OneTab!FinishLogout(t) PROVE WebMove
  BY <1>7 DEF OneTab!FinishLogout
<1>8. ASSUME NEW t \in {Tab}, OneTab!Restore(t) PROVE WebMove
  BY <1>8 DEF OneTab!Restore
<1>9. ASSUME NEW t \in {Tab}, OneTab!FetchRefused(t) PROVE WebMove
  BY <1>9 DEF OneTab!FetchRefused
<1>10. ASSUME NEW t \in {Tab}, OneTab!FetchData(t) PROVE WebMove
  BY <1>10 DEF OneTab!FetchData
<1>11. ASSUME NEW t \in {Tab}, OneTab!StartLogout(t) PROVE WebMove
  BY <1>11 DEF OneTab!StartLogout
<1>12. ASSUME NEW t \in {Tab}, OneTab!Expire(t) PROVE WebMove
  BY <1>12 DEF OneTab!Expire
<1>13. ASSUME NEW t \in {Tab}, NEW a \in Accounts, OneTab!Login(t, a) PROVE WebMove
  BY <1>13 DEF OneTab!Login
<1>14. CASE UNCHANGED webVars BY <1>14 DEF webVars
<1>. QED BY <1>1, <1>2, <1>3, <1>4, <1>5, <1>6, <1>7, <1>8, <1>9, <1>10, <1>11, <1>12, <1>13, <1>14 DEF OneTab!Next, OneTab!Network

LEMMA ManyTabsMoves ==
    ASSUME [ManyTabs!Next]_webVars
    PROVE  WebMove
<1>. USE DEF WebMove, Alive, Given, ManyTabs!server
<1>1. ASSUME NEW t \in Tabs, ManyTabs!ServeRefresh(t) PROVE WebMove
  <2>1. PICK f \in refresh[t] :
      \/ \E m \in Tokens : /\ f.token \in Alive /\ webState[m] = "none"
                           /\ webState' = [webState EXCEPT ![f.token] = "rotated", ![m] = "live"]
                           /\ webFamily' = [webFamily EXCEPT ![m] = webFamily[f.token]]
      \/ /\ webState' = [n \in Tokens |-> IF n \in ManyTabs!Family(f.token) \intersect ManyTabs!Live
                                          THEN "revoked" ELSE webState[n]]
         /\ UNCHANGED webFamily
      \/ UNCHANGED <<webState, webFamily>>
    BY <1>1 DEF ManyTabs!ServeRefresh, ManyTabs!Accepted, ManyTabs!Rotated, ManyTabs!Live, ManyTabs!server
  <2>2. ManyTabs!Family(f.token) \intersect ManyTabs!Live \in SUBSET Alive BY DEF ManyTabs!Live
  <2>. QED BY <2>1, <2>2
<1>2. ASSUME NEW t \in Tabs, ManyTabs!ReceiveRefresh(t) PROVE WebMove
  BY <1>2 DEF ManyTabs!ReceiveRefresh
<1>3. ASSUME NEW t \in Tabs, ManyTabs!LoadUser(t) PROVE WebMove
  BY <1>3 DEF ManyTabs!LoadUser
<1>4. ASSUME NEW t \in Tabs, ManyTabs!Reload(t) PROVE WebMove
  BY <1>4 DEF ManyTabs!Reload
<1>5. ASSUME NEW t \in Tabs, ManyTabs!LoseRefresh(t) PROVE WebMove
  BY <1>5 DEF ManyTabs!LoseRefresh
<1>6. ASSUME NEW t \in Tabs, ManyTabs!ServeLogout(t) PROVE WebMove
  <2>1. PICK f \in logout[t] :
      /\ webState' = [n \in Tokens |-> IF n = f.token /\ n \in ManyTabs!Live THEN "revoked" ELSE webState[n]]
      /\ UNCHANGED webFamily
    BY <1>6 DEF ManyTabs!ServeLogout
  <2>2. PICK R \in SUBSET Alive : R = {f.token} \intersect Alive OBVIOUS
  <2>3. webState' = [n \in Tokens |-> IF n \in R THEN "revoked" ELSE webState[n]]
    BY <2>1, <2>2 DEF ManyTabs!Live
  <2>. QED BY <2>1, <2>3
<1>7. ASSUME NEW t \in Tabs, ManyTabs!FinishLogout(t) PROVE WebMove
  BY <1>7 DEF ManyTabs!FinishLogout
<1>8. ASSUME NEW t \in Tabs, ManyTabs!Restore(t) PROVE WebMove
  BY <1>8 DEF ManyTabs!Restore
<1>9. ASSUME NEW t \in Tabs, ManyTabs!FetchRefused(t) PROVE WebMove
  BY <1>9 DEF ManyTabs!FetchRefused
<1>10. ASSUME NEW t \in Tabs, ManyTabs!FetchData(t) PROVE WebMove
  BY <1>10 DEF ManyTabs!FetchData
<1>11. ASSUME NEW t \in Tabs, ManyTabs!StartLogout(t) PROVE WebMove
  BY <1>11 DEF ManyTabs!StartLogout
<1>12. ASSUME NEW t \in Tabs, ManyTabs!Expire(t) PROVE WebMove
  BY <1>12 DEF ManyTabs!Expire
<1>13. ASSUME NEW t \in Tabs, NEW a \in {Holder}, ManyTabs!Login(t, a) PROVE WebMove
  BY <1>13 DEF ManyTabs!Login
<1>14. CASE UNCHANGED webVars BY <1>14 DEF webVars
<1>. QED BY <1>1, <1>2, <1>3, <1>4, <1>5, <1>6, <1>7, <1>8, <1>9, <1>10, <1>11, <1>12, <1>13, <1>14 DEF ManyTabs!Next, ManyTabs!Network

LEMMA WebRowsStep ==
    ASSUME WebRows, WebMove
    PROVE  WebRows'
<1>. USE DEF WebRows, Given, Alive
<1>1. CASE UNCHANGED <<webState, webFamily>> BY <1>1
<1>2. ASSUME NEW n \in Tokens \ Given,
             webState' = [webState EXCEPT ![n] = "live"], UNCHANGED webFamily
      PROVE  WebRows'
  BY <1>2
<1>3. ASSUME NEW n \in Alive, NEW m \in Tokens \ Given,
             webState' = [webState EXCEPT ![n] = "rotated", ![m] = "live"],
             webFamily' = [webFamily EXCEPT ![m] = webFamily[n]]
      PROVE  WebRows'
  BY <1>3
<1>4. ASSUME NEW R \in SUBSET Alive,
             webState' = [n \in Tokens |-> IF n \in R THEN "revoked" ELSE webState[n]],
             UNCHANGED webFamily
      PROVE  WebRows'
  BY <1>4
<1>. QED BY <1>1, <1>2, <1>3, <1>4 DEF WebMove

\* The logins of the promise: families with a live token, and the others.
WebOpen  == {n \in Tokens : \E m \in ManyTabs!Live : webFamily[m] = n}
WebEnded == {n \in Tokens : webState[n] # "none" /\ ~\E m \in ManyTabs!Live : webFamily[m] = webFamily[n]}
                \intersect {n \in Tokens : webFamily[n] = n}

LEMMA WebPromiseStep ==
    ASSUME WebRows, WebMove
    PROVE  ManyTabs!Promise!Next \/ UNCHANGED ManyTabs!Promise!promiseVars
<1>. USE DEF WebRows, Given, Alive, ManyTabs!Live
<1>1. CASE UNCHANGED <<webState, webFamily>>
  BY <1>1 DEF ManyTabs!Promise!promiseVars
<1>2. ASSUME NEW n \in Tokens \ Given,
             webState' = [webState EXCEPT ![n] = "live"], UNCHANGED webFamily
      PROVE  ManyTabs!Promise!LogIn(n)
  <2>1. Alive' = Alive \union {n} /\ Given' = Given \union {n} BY <1>2
  <2>2. WebOpen' = WebOpen \union {n} BY <1>2, <2>1 DEF WebOpen
  <2>3. WebEnded' = WebEnded BY <1>2, <2>1 DEF WebEnded
  <2>4. n \notin WebOpen \union WebEnded BY <1>2 DEF WebOpen, WebEnded
  <2>. QED BY <2>2, <2>3, <2>4 DEF ManyTabs!Promise!LogIn, WebOpen, WebEnded
<1>3. ASSUME NEW n \in Alive, NEW m \in Tokens \ Given,
             webState' = [webState EXCEPT ![n] = "rotated", ![m] = "live"],
             webFamily' = [webFamily EXCEPT ![m] = webFamily[n]]
      PROVE  UNCHANGED ManyTabs!Promise!promiseVars
  <2>1. Alive' = (Alive \ {n}) \union {m} /\ Given' = Given \union {m} BY <1>3
  <2>2. WebOpen' = WebOpen BY <1>3, <2>1 DEF WebOpen
  <2>3. WebEnded' = WebEnded BY <1>3, <2>1 DEF WebEnded
  <2>. QED BY <2>2, <2>3 DEF ManyTabs!Promise!promiseVars, WebOpen, WebEnded
<1>4. ASSUME NEW R \in SUBSET Alive,
             webState' = [n \in Tokens |-> IF n \in R THEN "revoked" ELSE webState[n]],
             UNCHANGED webFamily
      PROVE  ManyTabs!Promise!Next
  <2>1. Alive' = Alive \ R /\ Given' = Given BY <1>4
  <2>2. PICK S \in SUBSET Tokens : S = {webFamily[n] : n \in R}
    <3>1. {webFamily[n] : n \in R} \subseteq Tokens OBVIOUS
    <3>. QED BY <3>1
  <2>3. WebOpen' = WebOpen \ S /\ S \subseteq WebOpen BY <1>4, <2>1, <2>2 DEF WebOpen
  <2>4. WebEnded' = WebEnded \union S BY <1>4, <2>1, <2>2 DEF WebEnded
  <2>5. ManyTabs!Promise!LogOut(S)
    BY <2>3, <2>4 DEF ManyTabs!Promise!LogOut, ManyTabs!Promise!End, WebOpen, WebEnded
  <2>. QED BY <2>5 DEF ManyTabs!Promise!Next
<1>5. CASE \E n \in Tokens \ Given :
             webState' = [webState EXCEPT ![n] = "live"] /\ UNCHANGED webFamily
  BY <1>2, <1>5 DEF ManyTabs!Promise!Next
<1>. HIDE DEF WebRows, Given, Alive, ManyTabs!Live
<1>. QED BY <1>1, <1>3, <1>4, <1>5 DEF WebMove

LEMMA WebRowsInit ==
    ASSUME OneTab!Init \/ ManyTabs!Init
    PROVE  WebRows /\ ManyTabs!Promise!Init
<1>1. webState = [n \in Tokens |-> "none"] /\ webFamily = [n \in Tokens |-> n]
  BY DEF OneTab!Init, ManyTabs!Init
<1>2. WebRows BY <1>1 DEF WebRows, Given, Alive
<1>3. ManyTabs!Promise!Init BY <1>1 DEF ManyTabs!Promise!Init, ManyTabs!Live
<1>. QED BY <1>2, <1>3

\* Whatever the tabs of a browser do, a login that ended on the API stays ended
\* and its refreshes never open a second one (auth.ts, refresh): the tokens of
\* a browser implement SessionPromise, for any tabs and accounts.
THEOREM BrowserRefinement == Spec => KeepsBrowserPromise
<1>1. Init => WebRows /\ ManyTabs!Promise!Init BY WebRowsInit DEF Init
<1>2. WebRows /\ [Next]_<<focus, authVars, webVars>> =>
          WebRows' /\ [ManyTabs!Promise!Next]_ManyTabs!Promise!promiseVars
  <2>1. ASSUME [Next]_<<focus, authVars, webVars>> PROVE WebMove
    BY <2>1, OneTabMoves, ManyTabsMoves DEF Next, webVars, WebMove
  <2>. QED BY <2>1, WebRowsStep, WebPromiseStep
<1>. QED BY <1>1, <1>2, PTL DEF Spec, KeepsBrowserPromise, ManyTabs!KeepsSessionPromise, ManyTabs!Promise!Spec

-----------------------------------------------------------------------------
(* One tab.                                                                 *)

Calls == [step : {"sent", "answered"}, token : Tokens \union {None}, no : {0}]

TabTypes ==
    /\ refresh \in [{Tab} -> SUBSET Calls]
    /\ logout \in [{Tab} -> SUBSET [step : {"sent", "answered"}, token : Tokens \union {None}]]
    /\ \A f \in refresh[Tab] : f.step = "answered" => f.token \in Given \union {None}

\* A token the API would not take for a reuse.
Fresh(n) == n = None \/ (n \in Tokens /\ webState[n] \in {"live", "revoked"})

\* One refresh at a time; it presents no rotated token, and the cookie is
\* rotated only while the answer with its successor is on the way.
SingleFlight ==
    /\ \A f, g \in refresh[Tab] : f = g
    /\ losses = 0 =>
         /\ reuse = {}
         /\ \A f \in refresh[Tab] : Fresh(f.token)
         /\ (\A f \in refresh[Tab] : f.step = "sent" \/ f.token = None) => Fresh(cookie)

TabInv == OneTab!TypeOK /\ TabTypes /\ WebRows /\ SingleFlight

LEMMA TabInit == ASSUME WellFormed, OneTab!Init PROVE TabInv
<1>. USE DEF WellFormed, OneTab!WebWellFormed, OneTab!Init, OneTab!Idle
<1>1. OneTab!TypeOK BY DEF OneTab!TypeOK, OneTab!Issued
<1>2. TabTypes BY DEF TabTypes
<1>3. SingleFlight BY DEF SingleFlight, Fresh
<1>. QED BY <1>1, <1>2, <1>3, WebRowsInit DEF TabInv

\* The API answers the refresh it was sent: with a new token that replaces a
\* live one, with 401 to a reuse, or with 401 to a token that ended.
LEMMA Served ==
    ASSUME TabInv, OneTab!ServeRefresh(Tab)
    PROVE  \E f \in refresh[Tab], token \in Tokens \union {None} :
             /\ f.step = "sent" /\ f.token \in Tokens \union {None}
             /\ refresh' = [refresh EXCEPT ![Tab] =
                               (@ \ {f}) \union {[step |-> "answered", token |-> token, no |-> 0]}]
             /\ UNCHANGED <<cookie, access, stale, user, restoring, logout, served, losses>>
             /\ \/ /\ f.token \in Alive /\ token \in Tokens \ Given
                   /\ webState' = [webState EXCEPT ![f.token] = "rotated", ![token] = "live"]
                   /\ webFamily' = [webFamily EXCEPT ![token] = webFamily[f.token]]
                   /\ owner' = [owner EXCEPT ![token] = owner[f.token]] /\ UNCHANGED reuse
                \/ /\ f.token \in Given /\ webState[f.token] = "rotated" /\ token = None
                   /\ \E R \in SUBSET Alive :
                        webState' = [n \in Tokens |-> IF n \in R THEN "revoked" ELSE webState[n]]
                   /\ reuse' = reuse \union {webFamily[f.token]} /\ UNCHANGED <<webFamily, owner>>
                \/ token = None /\ UNCHANGED <<webState, webFamily, owner, reuse>>
<1>1. TabTypes BY DEF TabInv
<1>2. PICK f \in refresh[Tab] :
        /\ f.step = "sent"
        /\ \/ /\ f.token \in Alive
              /\ \E m \in Tokens :
                    /\ webState[m] = "none"
                    /\ webState' = [webState EXCEPT ![f.token] = "rotated", ![m] = "live"]
                    /\ webFamily' = [webFamily EXCEPT ![m] = webFamily[f.token]]
                    /\ owner' = [owner EXCEPT ![m] = owner[f.token]]
                    /\ OneTab!Answer(Tab, f, m)
              /\ UNCHANGED reuse
           \/ /\ f.token \in Given /\ webState[f.token] = "rotated"
              /\ webState' = [n \in Tokens |-> IF n \in OneTab!Family(f.token) \intersect OneTab!Live
                                               THEN "revoked" ELSE webState[n]]
              /\ reuse' = reuse \union {webFamily[f.token]}
              /\ OneTab!Answer(Tab, f, None) /\ UNCHANGED <<webFamily, owner>>
           \/ OneTab!Answer(Tab, f, None) /\ UNCHANGED <<webState, webFamily, owner, reuse>>
  BY DEF OneTab!ServeRefresh, OneTab!Accepted, OneTab!Rotated, OneTab!Live, OneTab!Issued, OneTab!server, Alive, Given
<1>3. f \in Calls BY <1>1 DEF TabTypes
<1>4. f.token \in Tokens \union {None} BY <1>3 DEF Calls
<1>5. \A token : OneTab!Answer(Tab, f, token) =>
        refresh' = [refresh EXCEPT ![Tab] =
                       (@ \ {f}) \union {[step |-> "answered", token |-> token, no |-> 0]}]
  BY <1>3 DEF OneTab!Answer, Calls
<1>6. UNCHANGED <<cookie, access, stale, user, restoring, logout, served, losses>>
  BY DEF OneTab!ServeRefresh, OneTab!browser
<1>7. OneTab!Family(f.token) \intersect OneTab!Live \in SUBSET Alive BY DEF OneTab!Live, Alive
<1>8. \A m \in Tokens : webState[m] = "none" => m \in Tokens \ Given BY DEF Given
<1>. QED BY <1>2, <1>4, <1>5, <1>6, <1>7, <1>8

LEMMA TabTypesStep ==
    ASSUME WellFormed, TabInv, [OneTab!Next]_webVars
    PROVE  TabTypes'
<1>. USE DEF TabTypes, Calls, Given, OneTab!server, OneTab!browser, OneTab!Idle
<1>0. /\ TabTypes /\ webState \in [Tokens -> {"none", "live", "rotated", "revoked"}]
      /\ cookie \in Given \union {None}
  BY DEF TabInv, OneTab!TypeOK, OneTab!Issued
<1>1. CASE OneTab!ServeRefresh(Tab)
  BY <1>0, <1>1, Served
<1>2. CASE OneTab!ReceiveRefresh(Tab)
  BY <1>0, <1>2 DEF OneTab!ReceiveRefresh, OneTab!SignedOut
<1>3. CASE OneTab!LoadUser(Tab)
  BY <1>0, <1>3 DEF OneTab!LoadUser, OneTab!Refreshing
<1>4. CASE OneTab!Reload(Tab)
  BY <1>0, <1>4 DEF OneTab!Reload, OneTab!Send, OneTab!Refreshing
<1>5. CASE OneTab!LoseRefresh(Tab)
  BY <1>0, <1>5 DEF OneTab!LoseRefresh
<1>6. CASE OneTab!ServeLogout(Tab)
  BY <1>0, <1>6 DEF OneTab!ServeLogout, OneTab!Live
<1>7. CASE OneTab!FinishLogout(Tab)
  BY <1>0, <1>7 DEF OneTab!FinishLogout, OneTab!SignedOut
<1>8. CASE OneTab!Restore(Tab)
  BY <1>0, <1>8 DEF OneTab!Restore, OneTab!Send, OneTab!Refreshing
<1>9. CASE OneTab!FetchRefused(Tab)
  BY <1>0, <1>9 DEF OneTab!FetchRefused, OneTab!Send, OneTab!Refreshing
<1>10. CASE OneTab!FetchData(Tab)
  BY <1>0, <1>10 DEF OneTab!FetchData
<1>11. CASE OneTab!StartLogout(Tab)
  BY <1>0, <1>11 DEF OneTab!StartLogout
<1>12. CASE OneTab!Expire(Tab)
  BY <1>0, <1>12 DEF OneTab!Expire
<1>13. ASSUME NEW a \in Accounts, OneTab!Login(Tab, a) PROVE TabTypes'
  BY <1>0, <1>13 DEF OneTab!Login
<1>14. CASE UNCHANGED webVars BY <1>0, <1>14 DEF webVars
<1>. QED BY <1>1, <1>2, <1>3, <1>4, <1>5, <1>6, <1>7, <1>8, <1>9, <1>10, <1>11, <1>12, <1>13, <1>14 DEF OneTab!Next, OneTab!Network

LEMMA FlightStep ==
    ASSUME WellFormed, TabInv, [OneTab!Next]_webVars
    PROVE  SingleFlight'
<1>. USE DEF SingleFlight, Fresh, OneTab!server, OneTab!browser, OneTab!Idle
<1>0. /\ SingleFlight /\ TabTypes /\ webState \in [Tokens -> {"none", "live", "rotated", "revoked"}]
      /\ cookie \in Given \union {None} /\ losses \in Nat /\ None \notin Tokens
      /\ refresh \in [{Tab} -> SUBSET Calls]
  BY DEF TabInv, TabTypes, OneTab!TypeOK, OneTab!Issued, Given, WellFormed, OneTab!WebWellFormed
<1>1. CASE OneTab!ServeRefresh(Tab)
  <2>1. PICK f \in refresh[Tab], token \in Tokens \union {None} :
          /\ refresh' = [refresh EXCEPT ![Tab] =
                            (@ \ {f}) \union {[step |-> "answered", token |-> token, no |-> 0]}]
          /\ cookie' = cookie /\ losses' = losses
          /\ \/ /\ f.token \in Alive /\ token \in Tokens \ Given
                /\ webState' = [webState EXCEPT ![f.token] = "rotated", ![token] = "live"]
                /\ UNCHANGED reuse
             \/ f.token \in Given /\ webState[f.token] = "rotated"
             \/ token = None /\ UNCHANGED <<webState, reuse>>
          /\ f.step = "sent"
    BY <1>1, Served
  <2>2. refresh'[Tab] = {[step |-> "answered", token |-> token, no |-> 0]} BY <1>0, <2>1
  <2>3. ASSUME losses = 0 PROVE ~(f.token \in Given /\ webState[f.token] = "rotated")
    BY <1>0, <2>3 DEF Given
  <2>4. (\A g \in refresh'[Tab] : g.step = "sent" \/ g.token = None) => token = None BY <2>2
  <2>5. (\A g \in refresh[Tab] : g.step = "sent" \/ g.token = None) BY <1>0, <2>1
  <2>6. CASE losses # 0 BY <2>1, <2>2, <2>6
  <2>7. CASE losses = 0 /\ token = None /\ UNCHANGED <<webState, reuse>>
    BY <1>0, <2>1, <2>2, <2>5, <2>7
  <2>8. CASE /\ losses = 0 /\ f.token \in Alive /\ token \in Tokens \ Given
             /\ webState' = [webState EXCEPT ![f.token] = "rotated", ![token] = "live"]
             /\ UNCHANGED reuse
    <3>1. token # None BY <1>0, <2>8
    <3>2. Fresh(token)' BY <1>0, <2>8
    <3>. QED BY <1>0, <2>1, <2>2, <2>4, <2>8, <3>1, <3>2
  <2>. QED BY <2>1, <2>3, <2>6, <2>7, <2>8
<1>2. CASE OneTab!ReceiveRefresh(Tab)
  BY <1>0, <1>2 DEF OneTab!ReceiveRefresh, OneTab!SignedOut
<1>3. CASE OneTab!LoadUser(Tab)
  BY <1>0, <1>3 DEF OneTab!LoadUser, OneTab!Refreshing
<1>4. CASE OneTab!Reload(Tab)
  BY <1>0, <1>4 DEF OneTab!Reload, OneTab!Send, OneTab!Refreshing
<1>5. CASE OneTab!LoseRefresh(Tab)
  BY <1>0, <1>5 DEF OneTab!LoseRefresh
<1>6. CASE OneTab!ServeLogout(Tab)
  BY <1>0, <1>6 DEF OneTab!ServeLogout, OneTab!Live
<1>7. CASE OneTab!FinishLogout(Tab)
  BY <1>0, <1>7 DEF OneTab!FinishLogout, OneTab!SignedOut
<1>8. CASE OneTab!Restore(Tab)
  BY <1>0, <1>8 DEF OneTab!Restore, OneTab!Send, OneTab!Refreshing
<1>9. CASE OneTab!FetchRefused(Tab)
  BY <1>0, <1>9 DEF OneTab!FetchRefused, OneTab!Send, OneTab!Refreshing
<1>10. CASE OneTab!FetchData(Tab)
  BY <1>0, <1>10 DEF OneTab!FetchData
<1>11. CASE OneTab!StartLogout(Tab)
  BY <1>0, <1>11 DEF OneTab!StartLogout
<1>12. CASE OneTab!Expire(Tab)
  BY <1>0, <1>12 DEF OneTab!Expire
<1>13. ASSUME NEW a \in Accounts, OneTab!Login(Tab, a) PROVE SingleFlight'
  BY <1>0, <1>13 DEF OneTab!Login
<1>14. CASE UNCHANGED webVars BY <1>0, <1>14 DEF webVars
<1>. QED BY <1>1, <1>2, <1>3, <1>4, <1>5, <1>6, <1>7, <1>8, <1>9, <1>10, <1>11, <1>12, <1>13, <1>14 DEF OneTab!Next, OneTab!Network

TabFields ==
    /\ webState \in [Tokens -> {"none", "live", "rotated", "revoked"}]
    /\ webFamily \in [Tokens -> Tokens] /\ owner \in [Tokens -> Accounts \union {None}]
    /\ cookie \in Given \union {None} /\ reuse \subseteq Given
    /\ access \in [{Tab} -> Accounts \union {None}] /\ stale \in [{Tab} -> BOOLEAN]
    /\ user \in [{Tab} -> Accounts \union {None}] /\ restoring \in [{Tab} -> BOOLEAN]
    /\ served \subseteq Accounts \X Accounts /\ losses \in 0 .. MaxLosses

LEMMA TabFieldsStep ==
    ASSUME WellFormed, TabInv, [OneTab!Next]_webVars
    PROVE  TabFields'
<1>. USE DEF TabFields, OneTab!server, OneTab!browser, OneTab!Idle
<1>0. /\ TabFields /\ TabTypes /\ Given \subseteq Given' /\ Given \subseteq Tokens
      /\ \A n \in Given : webFamily[n] \in Given
  <2>1. WebMove /\ TabTypes /\ WebRows /\ OneTab!TypeOK BY OneTabMoves DEF TabInv
  <2>2. Given \subseteq Given' BY <2>1 DEF WebMove, WebRows, Given, Alive
  <2>. QED BY <2>1, <2>2 DEF OneTab!TypeOK, OneTab!Issued, Given, WebRows
<1>1. CASE OneTab!ServeRefresh(Tab)
  <2>1. PICK f \in refresh[Tab], token \in Tokens \union {None} :
          /\ UNCHANGED <<cookie, access, stale, user, restoring, served, losses>>
          /\ f.token \in Tokens \union {None}
          /\ \/ /\ f.token \in Alive /\ token \in Tokens \ Given
                /\ webState' = [webState EXCEPT ![f.token] = "rotated", ![token] = "live"]
                /\ webFamily' = [webFamily EXCEPT ![token] = webFamily[f.token]]
                /\ owner' = [owner EXCEPT ![token] = owner[f.token]] /\ UNCHANGED reuse
             \/ /\ f.token \in Given
                /\ \E R \in SUBSET Alive :
                     webState' = [n \in Tokens |-> IF n \in R THEN "revoked" ELSE webState[n]]
                /\ reuse' = reuse \union {webFamily[f.token]} /\ UNCHANGED <<webFamily, owner>>
             \/ UNCHANGED <<webState, webFamily, owner, reuse>>
    BY <1>1, Served
  <2>2. CASE /\ f.token \in Alive /\ token \in Tokens \ Given
             /\ webState' = [webState EXCEPT ![f.token] = "rotated", ![token] = "live"]
             /\ webFamily' = [webFamily EXCEPT ![token] = webFamily[f.token]]
             /\ owner' = [owner EXCEPT ![token] = owner[f.token]] /\ UNCHANGED reuse
    BY <1>0, <2>1, <2>2 DEF Alive
  <2>3. CASE \/ /\ f.token \in Given
                /\ \E R \in SUBSET Alive :
                     webState' = [n \in Tokens |-> IF n \in R THEN "revoked" ELSE webState[n]]
                /\ reuse' = reuse \union {webFamily[f.token]} /\ UNCHANGED <<webFamily, owner>>
             \/ UNCHANGED <<webState, webFamily, owner, reuse>>
    BY <1>0, <2>1, <2>3
  <2>. QED BY <2>1, <2>2, <2>3
<1>2. CASE OneTab!ReceiveRefresh(Tab)
  <2>1. PICK f \in refresh[Tab] :
          \/ /\ f.step = "answered" /\ f.token # None /\ cookie' = f.token
             /\ access' = [access EXCEPT ![Tab] = owner[f.token]]
             /\ stale' = [stale EXCEPT ![Tab] = FALSE] /\ UNCHANGED <<user, restoring>>
          \/ /\ OneTab!SignedOut(Tab) /\ restoring' = [restoring EXCEPT ![Tab] = FALSE]
             /\ UNCHANGED <<cookie, stale>>
    BY <1>2 DEF OneTab!ReceiveRefresh
  <2>2. f.step = "answered" /\ f.token # None => f.token \in Given BY <1>0 DEF TabTypes
  <2>. QED BY <1>0, <1>2, <2>1, <2>2 DEF OneTab!ReceiveRefresh, OneTab!SignedOut, Given
<1>3. CASE OneTab!LoadUser(Tab)
  BY <1>0, <1>3 DEF OneTab!LoadUser, OneTab!Refreshing
<1>4. CASE OneTab!Reload(Tab)
  BY <1>0, <1>4 DEF OneTab!Reload, OneTab!Send, OneTab!Refreshing
<1>5. CASE OneTab!LoseRefresh(Tab)
  <2>1. losses < MaxLosses /\ losses' = losses + 1 /\ restoring' = [restoring EXCEPT ![Tab] = FALSE]
    BY <1>5 DEF OneTab!LoseRefresh
  <2>2. losses' \in 0 .. MaxLosses BY <1>0, <2>1 DEF WellFormed, OneTab!WebWellFormed
  <2>3. restoring' \in [{Tab} -> BOOLEAN] BY <1>0, <2>1
  <2>. QED BY <1>0, <1>5, <2>2, <2>3 DEF OneTab!LoseRefresh, Given
<1>6. CASE OneTab!ServeLogout(Tab)
  BY <1>0, <1>6 DEF OneTab!ServeLogout, OneTab!Live
<1>7. CASE OneTab!FinishLogout(Tab)
  BY <1>0, <1>7 DEF OneTab!FinishLogout, OneTab!SignedOut
<1>8. CASE OneTab!Restore(Tab)
  BY <1>0, <1>8 DEF OneTab!Restore, OneTab!Send, OneTab!Refreshing
<1>9. CASE OneTab!FetchRefused(Tab)
  BY <1>0, <1>9 DEF OneTab!FetchRefused, OneTab!Send, OneTab!Refreshing
<1>10. CASE OneTab!FetchData(Tab)
  BY <1>0, <1>10 DEF OneTab!FetchData
<1>11. CASE OneTab!StartLogout(Tab)
  BY <1>0, <1>11 DEF OneTab!StartLogout
<1>12. CASE OneTab!Expire(Tab)
  BY <1>0, <1>12 DEF OneTab!Expire
<1>13. ASSUME NEW a \in Accounts, OneTab!Login(Tab, a) PROVE TabFields'
  <2>1. PICK n \in Tokens : /\ webState[n] = "none" /\ cookie' = n
                            /\ webState' = [webState EXCEPT ![n] = "live"]
                            /\ owner' = [owner EXCEPT ![n] = a]
    BY <1>13 DEF OneTab!Login
  <2>2. /\ access' = [access EXCEPT ![Tab] = a] /\ user' = [user EXCEPT ![Tab] = a]
        /\ stale' = [stale EXCEPT ![Tab] = FALSE]
        /\ UNCHANGED <<webFamily, reuse, restoring, served, losses>>
    BY <1>13 DEF OneTab!Login
  <2>3. n \in Given' BY <1>0, <2>1 DEF Given
  <2>. QED BY <1>0, <2>1, <2>2, <2>3
<1>14. CASE UNCHANGED webVars BY <1>0, <1>14 DEF webVars
<1>. QED BY <1>1, <1>2, <1>3, <1>4, <1>5, <1>6, <1>7, <1>8, <1>9, <1>10, <1>11, <1>12, <1>13, <1>14 DEF OneTab!Next, OneTab!Network

LEMMA TabStep ==
    ASSUME WellFormed, TabInv, [OneTab!Next]_webVars
    PROVE  TabInv'
<1>1. TabTypes' /\ TabFields' /\ SingleFlight' BY TabTypesStep, TabFieldsStep, FlightStep
<1>2. WebRows' BY OneTabMoves, WebRowsStep DEF TabInv
<1>3. \A t \in {Tab} : \A f \in refresh'[t] \union logout'[t] : OneTab!Step(f)
  BY <1>1 DEF TabTypes, Calls, OneTab!Step
<1>4. OneTab!TypeOK' BY <1>1, <1>3 DEF OneTab!TypeOK, TabFields, OneTab!Issued, Given
<1>. QED BY <1>1, <1>2, <1>4 DEF TabInv

\* A browser with one tab and a working network never presents a token twice,
\* whatever requests fail with 401 at once (auth.ts, the single flight), for
\* any accounts and tokens.
THEOREM SingleFlightTheorem == Spec => []NoSelfInflictedReuse
<1>1. Init => (focus = "one tab" => TabInv) BY WellFormed, TabInit DEF Init
<1>2. (focus = "one tab" => TabInv) /\ [Next]_<<focus, authVars, webVars>> => (focus = "one tab" => TabInv)'
  <2>1. ASSUME [Next]_<<focus, authVars, webVars>>, focus' = "one tab"
        PROVE  focus = "one tab" /\ [OneTab!Next]_webVars
    BY <2>1 DEF Next
  <2>. QED BY <2>1, WellFormed, TabStep
<1>3. (focus = "one tab" => TabInv) => NoSelfInflictedReuse
  BY DEF TabInv, SingleFlight, NoSelfInflictedReuse, OneTab!NoSelfInflictedReuse
<1>. QED BY <1>1, <1>2, <1>3, PTL DEF Spec
=============================================================================
