-------------------------- MODULE Membership_proofs --------------------------
(***************************************************************************)
(* Proofs about Membership, for any number of users, tenants and invites   *)
(* and any lifetimes.                                                      *)
(*                                                                         *)
(* TypeOK and OneKindOfAccount are inductive as they stand (the second     *)
(* with the first).  SpentInviteHasMember and SomebodyGoverns follow from  *)
(* them.  StaleClaimsDieOut is strengthened to StaleClaimsAreOld: a token  *)
(* whose claims no longer hold is at least as old as the change.           *)
(***************************************************************************)
EXTENDS Membership, TLAPS

\* What Issue does to the tokens: at most it adds two of age 0.
LEMMA IssueType ==
    ASSUME TypeOK, NEW u \in Users, NEW super \in BOOLEAN,
           NEW t \in Tenants \cup {Nothing}, NEW r \in Roles \cup {Nothing},
           Issue(u, super, t, r)
    PROVE  /\ access' \subseteq AccessToken
           /\ \A tok \in access' : tok.age < AccessTTL
           /\ refreshers' \subseteq RefreshToken
           /\ \A tok \in refreshers' : tok.age < RefreshTTL
<1> DEFINE new == [user |-> u, super |-> super, tenant |-> t, role |-> r, age |-> 0]
           again == [user |-> u, tenant |-> t, age |-> 0]
<1>1. /\ new \in AccessToken /\ new.age < AccessTTL
      /\ again \in RefreshToken /\ again.age < RefreshTTL
  BY MembershipAssumption DEF AccessToken, RefreshToken
<1>2. access' \subseteq access \cup {new} /\ refreshers' \subseteq refreshers \cup {again}
  BY DEF Issue
<1> QED BY <1>1, <1>2 DEF TypeOK

LEMMA TickType == TypeOK /\ Tick => TypeOK'
<1> SUFFICES ASSUME TypeOK, Tick PROVE TypeOK'
  OBVIOUS
<1>1. access' \subseteq AccessToken /\ (\A tok \in access' : tok.age < AccessTTL)
  <2> SUFFICES ASSUME NEW tok \in access' PROVE tok \in AccessToken /\ tok.age < AccessTTL
    OBVIOUS
  <2>1. PICK old \in access : ~Dies(old.age, AccessTTL) /\ tok = [old EXCEPT !.age = @ + 1]
    BY DEF Tick
  <2> QED BY <2>1, MembershipAssumption DEF TypeOK, AccessToken, Dies
<1>2. refreshers' \subseteq RefreshToken /\ (\A tok \in refreshers' : tok.age < RefreshTTL)
  <2> SUFFICES ASSUME NEW tok \in refreshers' PROVE tok \in RefreshToken /\ tok.age < RefreshTTL
    OBVIOUS
  <2>1. PICK old \in refreshers : ~Dies(old.age, RefreshTTL) /\ tok = [old EXCEPT !.age = @ + 1]
    BY DEF Tick
  <2> QED BY <2>1, MembershipAssumption DEF TypeOK, RefreshToken, Dies
<1>3. invite' \in [Invites -> [status : {"none", "open", "used"}, user : Users,
                               tenant : Tenants \cup {Nothing},
                               role : Roles \cup {Nothing}, age : 0..InviteTTL]]
  BY MembershipAssumption DEF TypeOK, Tick
<1>4. since' \in [Users -> 0..AccessTTL]
  BY MembershipAssumption DEF TypeOK, Tick
<1> QED BY <1>1, <1>2, <1>3, <1>4 DEF TypeOK, Tick

\* Every variable keeps its type: services/api/src/auth, tenant and superuser
\* write no value outside the columns' domains, and no token outlives its exp.
THEOREM TypeCorrect == Spec => []TypeOK
<1>1. Init => TypeOK
  <2>1. NoInvite \in [status : {"none", "open", "used"}, user : Users,
                     tenant : Tenants \cup {Nothing},
                     role : Roles \cup {Nothing}, age : 0..InviteTTL]
    BY MembershipAssumption DEF NoInvite
  <2>2. NoMember \in [status : {"none", "active", "revoked"},
                     tenant : Tenants \cup {Nothing}, role : Roles \cup {Nothing}]
    BY DEF NoMember
  <2>3. AccessTTL \in 0..AccessTTL
    BY MembershipAssumption
  <2> QED BY <2>1, <2>2, <2>3 DEF Init, TypeOK
<1>2. TypeOK /\ [Next]_vars => TypeOK'
  <2> SUFFICES ASSUME TypeOK, [Next]_vars PROVE TypeOK'
    OBVIOUS
  <2>1. ASSUME NEW u \in Users, Login(u) PROVE TypeOK'
    <3>1. \E super \in BOOLEAN, t \in Tenants \cup {Nothing}, r \in Roles \cup {Nothing} :
            Issue(u, super, t, r)
      BY <2>1 DEF Login, TypeOK
    <3> QED BY <2>1, <3>1, IssueType DEF Login, TypeOK
  <2>2. ASSUME NEW tok \in refreshers, Refresh(tok) PROVE TypeOK'
    <3>1. tok.user \in Users /\ tok.tenant \in Tenants \cup {Nothing}
      BY DEF TypeOK, RefreshToken
    <3>2. \E super \in BOOLEAN, t \in Tenants \cup {Nothing}, r \in Roles \cup {Nothing} :
            Issue(tok.user, super, t, r)
      BY <2>2, <3>1 DEF Refresh, TypeOK
    <3> QED BY <2>2, <3>1, <3>2, IssueType DEF Refresh, TypeOK
  <2>3. ASSUME NEW i \in Invites, NEW done \in 1..3, AcceptInvite(i, done) PROVE TypeOK'
    <3>1. /\ invite[i].user \in Users /\ invite[i].tenant \in Tenants \cup {Nothing}
          /\ invite[i].role \in Roles \cup {Nothing}
      BY DEF TypeOK
    <3>2. account' \in [Users -> {"none", "user", "super"}]
          /\ member' \in [Users -> [status : {"none", "active", "revoked"},
                             tenant : Tenants \cup {Nothing}, role : Roles \cup {Nothing}]]
      BY <2>3, <3>1 DEF AcceptInvite, Join, TypeOK
    <3>3. invite' \in [Invites -> [status : {"none", "open", "used"}, user : Users,
                               tenant : Tenants \cup {Nothing},
                               role : Roles \cup {Nothing}, age : 0..InviteTTL]]
      BY <2>3 DEF AcceptInvite, TypeOK
    <3>4. CASE done = 3
      <4>1. Issue(invite[i].user, FALSE, invite[i].tenant, invite[i].role)
        BY <2>3, <3>4 DEF AcceptInvite
      <4> QED BY <2>3, <3>1, <3>2, <3>3, <4>1, IssueType DEF AcceptInvite, TypeOK
    <3>5. CASE done # 3
      BY <2>3, <3>2, <3>3, <3>5 DEF AcceptInvite, NoTokens, TypeOK
    <3> QED BY <3>4, <3>5
  <2>4. ASSUME NEW tok \in access, Administer(tok) PROVE TypeOK'
    <3>1. PICK u \in Users, t \in Tenants :
            \/ \E i \in Invites, r \in Roles : InviteUser(tok, t, i, u, r)
            \/ \E r \in Roles, done \in 1..2 : CreateUser(tok, t, u, r, done)
            \/ \E r \in Roles : ChangeRole(tok, t, u, r)
            \/ RevokeUser(tok, t, u)
      BY <2>4 DEF Administer
    <3>2. ASSUME NEW i \in Invites, NEW r \in Roles, InviteUser(tok, t, i, u, r) PROVE TypeOK'
      BY <3>2, MembershipAssumption DEF InviteUser, NoTokens, TypeOK
    <3>3. ASSUME NEW r \in Roles, NEW done \in 1..2, CreateUser(tok, t, u, r, done) PROVE TypeOK'
      BY <3>3 DEF CreateUser, Join, NoTokens, TypeOK
    <3>4. ASSUME NEW r \in Roles, ChangeRole(tok, t, u, r) PROVE TypeOK'
      BY <3>4, MembershipAssumption DEF ChangeRole, NoTokens, TypeOK
    <3>5. CASE RevokeUser(tok, t, u)
      BY <3>5 DEF RevokeUser, NoTokens, TypeOK
    <3> QED BY <3>1, <3>2, <3>3, <3>4, <3>5
  <2>5. ASSUME NEW tok \in access, Govern(tok) PROVE TypeOK'
    <3>1. ASSUME NEW t \in Tenants, CreateTenant(tok, t) PROVE TypeOK'
      BY <3>1 DEF CreateTenant, NoTokens, TypeOK
    <3>2. ASSUME NEW t \in Tenants, NEW done \in 1..2, DeleteTenant(tok, t, done) PROVE TypeOK'
      BY <3>2, MembershipAssumption DEF DeleteTenant, NoMember, NoTokens, TypeOK
    <3>3. ASSUME NEW u \in Users, CreateSuperuser(tok, u) PROVE TypeOK'
      BY <3>3 DEF CreateSuperuser, NoTokens, TypeOK
    <3>4. ASSUME NEW u \in Users, RevokeSuperuser(tok, u) PROVE TypeOK'
      BY <3>4, MembershipAssumption DEF RevokeSuperuser, NoTokens, TypeOK
    <3> QED BY <2>5, <3>1, <3>2, <3>3, <3>4 DEF Govern
  <2>6. CASE Tick
    BY <2>6, TickType
  <2>7. CASE UNCHANGED vars
    BY <2>7 DEF vars, TypeOK
  <2> QED BY <2>1, <2>2, <2>3, <2>4, <2>5, <2>6, <2>7 DEF Next
<1> QED BY <1>1, <1>2, PTL DEF Spec

----------------------------------------------------------------------------
\* The handlers one by one, for the proofs below.
LEMMA StepCases ==
    ASSUME [Next]_vars, NEW P,
           \A u \in Users : Login(u) => P,
           \A tok \in refreshers : Refresh(tok) => P,
           \A i \in Invites, done \in 1..3 : AcceptInvite(i, done) => P,
           \A tok \in access, u \in Users, t \in Tenants, i \in Invites, r \in Roles :
                InviteUser(tok, t, i, u, r) => P,
           \A tok \in access, u \in Users, t \in Tenants, r \in Roles, done \in 1..2 :
                CreateUser(tok, t, u, r, done) => P,
           \A tok \in access, u \in Users, t \in Tenants, r \in Roles :
                ChangeRole(tok, t, u, r) => P,
           \A tok \in access, u \in Users, t \in Tenants : RevokeUser(tok, t, u) => P,
           \A tok \in access, t \in Tenants : CreateTenant(tok, t) => P,
           \A tok \in access, t \in Tenants, done \in 1..2 : DeleteTenant(tok, t, done) => P,
           \A tok \in access, u \in Users : CreateSuperuser(tok, u) => P,
           \A tok \in access, u \in Users : RevokeSuperuser(tok, u) => P,
           Tick => P,
           UNCHANGED vars => P
    PROVE  P
BY DEF Next, Administer, Govern

\* No account is a superuser and a member at once, and no membership is without
\* its account (_lookup_user and refresh rely on it).
THEOREM OneKind == Spec => []OneKindOfAccount
<1>1. Init => OneKindOfAccount
  BY DEF Init, OneKindOfAccount, NoMember
<1>2. TypeOK /\ OneKindOfAccount /\ [Next]_vars => OneKindOfAccount'
  <2> SUFFICES ASSUME TypeOK, OneKindOfAccount, [Next]_vars PROVE OneKindOfAccount'
    OBVIOUS
  <2> USE DEF TypeOK, OneKindOfAccount
  <2>1. ASSUME NEW u \in Users, Login(u) PROVE OneKindOfAccount'
    BY <2>1 DEF Login
  <2>2. ASSUME NEW tok \in refreshers, Refresh(tok) PROVE OneKindOfAccount'
    BY <2>2 DEF Refresh
  <2>3. ASSUME NEW i \in Invites, NEW done \in 1..3, AcceptInvite(i, done)
        PROVE OneKindOfAccount'
    BY <2>3 DEF AcceptInvite, Join, Free
  <2>4. ASSUME NEW tok \in access, NEW u \in Users, NEW t \in Tenants, NEW i \in Invites,
               NEW r \in Roles, InviteUser(tok, t, i, u, r)
        PROVE OneKindOfAccount'
    BY <2>4 DEF InviteUser
  <2>5. ASSUME NEW tok \in access, NEW u \in Users, NEW t \in Tenants, NEW r \in Roles,
               NEW done \in 1..2, CreateUser(tok, t, u, r, done)
        PROVE OneKindOfAccount'
    BY <2>5 DEF CreateUser, Join, Free
  <2>6. ASSUME NEW tok \in access, NEW u \in Users, NEW t \in Tenants, NEW r \in Roles,
               ChangeRole(tok, t, u, r)
        PROVE OneKindOfAccount'
    BY <2>6 DEF ChangeRole, ActiveIn
  <2>7. ASSUME NEW tok \in access, NEW u \in Users, NEW t \in Tenants, RevokeUser(tok, t, u)
        PROVE OneKindOfAccount'
    BY <2>7 DEF RevokeUser, ActiveIn
  <2>8. ASSUME NEW tok \in access, NEW t \in Tenants, CreateTenant(tok, t)
        PROVE OneKindOfAccount'
    BY <2>8 DEF CreateTenant
  <2>9. ASSUME NEW tok \in access, NEW t \in Tenants, NEW done \in 1..2,
               DeleteTenant(tok, t, done)
        PROVE OneKindOfAccount'
    BY <2>9 DEF DeleteTenant, NoMember
  <2>10. ASSUME NEW tok \in access, NEW u \in Users, CreateSuperuser(tok, u)
         PROVE OneKindOfAccount'
    BY <2>10 DEF CreateSuperuser, Free
  <2>11. ASSUME NEW tok \in access, NEW u \in Users, RevokeSuperuser(tok, u)
         PROVE OneKindOfAccount'
    BY <2>11 DEF RevokeSuperuser
  <2>12. CASE Tick
    BY <2>12 DEF Tick
  <2>13. CASE UNCHANGED vars
    BY <2>13 DEF vars
  <2> QED
    BY <2>1, <2>2, <2>3, <2>4, <2>5, <2>6, <2>7, <2>8, <2>9, <2>10, <2>11, <2>12, <2>13,
       StepCases
<1> QED BY <1>1, <1>2, TypeCorrect, PTL DEF Spec

\* A spent invite has brought its user in, wherever accept_invite was cut.
THEOREM SpentInvite == Spec => []SpentInviteHasMember
<1>1. Init => SpentInviteHasMember
  BY DEF Init, SpentInviteHasMember, NoInvite
<1>2. TypeOK /\ OneKindOfAccount /\ SpentInviteHasMember /\ [Next]_vars
        => SpentInviteHasMember'
  <2> SUFFICES ASSUME TypeOK, OneKindOfAccount, SpentInviteHasMember, [Next]_vars
               PROVE SpentInviteHasMember'
    OBVIOUS
  <2> USE DEF TypeOK, OneKindOfAccount, SpentInviteHasMember
  <2>1. ASSUME NEW u \in Users, Login(u) PROVE SpentInviteHasMember'
    BY <2>1 DEF Login
  <2>2. ASSUME NEW tok \in refreshers, Refresh(tok) PROVE SpentInviteHasMember'
    BY <2>2 DEF Refresh
  <2>3. ASSUME NEW i \in Invites, NEW done \in 1..3, AcceptInvite(i, done)
        PROVE SpentInviteHasMember'
    <3>1. member[invite[i].user].status = "none"
      BY <2>3 DEF AcceptInvite, Free
    <3>2. Spends(done) => /\ member'[invite[i].user].status = "active"
                          /\ member'[invite[i].user].tenant = invite[i].tenant
      BY <2>3 DEF AcceptInvite, Join, Spends
    <3>3. \A u \in Users : u # invite[i].user => member'[u] = member[u]
      BY <2>3 DEF AcceptInvite, Join
    <3>4. emptied' = emptied /\ \A j \in Invites :
            /\ invite'[j].user = invite[j].user
            /\ invite'[j].tenant = invite[j].tenant
            /\ invite'[j].status = "used" => invite[j].status = "used" \/ (j = i /\ Spends(done))
      BY <2>3 DEF AcceptInvite
    <3> QED BY <3>1, <3>2, <3>3, <3>4
  <2>4. ASSUME NEW tok \in access, NEW u \in Users, NEW t \in Tenants, NEW i \in Invites,
               NEW r \in Roles, InviteUser(tok, t, i, u, r)
        PROVE SpentInviteHasMember'
    BY <2>4 DEF InviteUser
  <2>5. ASSUME NEW tok \in access, NEW u \in Users, NEW t \in Tenants, NEW r \in Roles,
               NEW done \in 1..2, CreateUser(tok, t, u, r, done)
        PROVE SpentInviteHasMember'
    BY <2>5 DEF CreateUser, Join, Free
  <2>6. ASSUME NEW tok \in access, NEW u \in Users, NEW t \in Tenants, NEW r \in Roles,
               ChangeRole(tok, t, u, r)
        PROVE SpentInviteHasMember'
    BY <2>6 DEF ChangeRole, ActiveIn
  <2>7. ASSUME NEW tok \in access, NEW u \in Users, NEW t \in Tenants, RevokeUser(tok, t, u)
        PROVE SpentInviteHasMember'
    BY <2>7 DEF RevokeUser, ActiveIn
  <2>8. ASSUME NEW tok \in access, NEW t \in Tenants, CreateTenant(tok, t)
        PROVE SpentInviteHasMember'
    BY <2>8 DEF CreateTenant
  <2>9. ASSUME NEW tok \in access, NEW t \in Tenants, NEW done \in 1..2,
               DeleteTenant(tok, t, done)
        PROVE SpentInviteHasMember'
    <3>1. \A u \in Users : member[u].status # "none" /\ member[u].tenant # t
                             => member'[u] = member[u]
      BY <2>9 DEF DeleteTenant
    <3> QED BY <2>9, <3>1 DEF DeleteTenant
  <2>10. ASSUME NEW tok \in access, NEW u \in Users, CreateSuperuser(tok, u)
         PROVE SpentInviteHasMember'
    BY <2>10 DEF CreateSuperuser
  <2>11. ASSUME NEW tok \in access, NEW u \in Users, RevokeSuperuser(tok, u)
         PROVE SpentInviteHasMember'
    BY <2>11 DEF RevokeSuperuser
  <2>12. CASE Tick
    BY <2>12 DEF Tick
  <2>13. CASE UNCHANGED vars
    BY <2>13 DEF vars
  <2> QED
    BY <2>1, <2>2, <2>3, <2>4, <2>5, <2>6, <2>7, <2>8, <2>9, <2>10, <2>11, <2>12, <2>13,
       StepCases
<1> QED BY <1>1, <1>2, TypeCorrect, OneKind, PTL DEF Spec

\* The platform keeps a superuser, unless two revoked each other (the check
\* in revoke_superuser against revoking oneself is what keeps it).
THEOREM KeepsSuperuser == Spec => []SomebodyGoverns
<1>1. Init => SomebodyGoverns
  BY MembershipAssumption DEF Init, SomebodyGoverns
<1>2. TypeOK /\ SomebodyGoverns /\ [Next]_vars => SomebodyGoverns'
  <2> SUFFICES ASSUME TypeOK, SomebodyGoverns, [Next]_vars PROVE SomebodyGoverns'
    OBVIOUS
  <2> USE DEF SomebodyGoverns
  <2>1. ASSUME crossed' = crossed,
               \A u \in Users : account[u] = "super" => account'[u] = "super"
        PROVE SomebodyGoverns'
    BY <2>1
  <2>2. ASSUME NEW i \in Invites, NEW done \in 1..3, AcceptInvite(i, done)
        PROVE SomebodyGoverns'
    BY <2>1, <2>2 DEF AcceptInvite, Join, Free, TypeOK
  <2>3. ASSUME NEW tok \in access, NEW u \in Users, NEW t \in Tenants, NEW r \in Roles,
               NEW done \in 1..2, CreateUser(tok, t, u, r, done)
        PROVE SomebodyGoverns'
    BY <2>1, <2>3 DEF CreateUser, Join, Free, TypeOK
  <2>4. ASSUME NEW tok \in access, NEW u \in Users, CreateSuperuser(tok, u)
        PROVE SomebodyGoverns'
    BY <2>1, <2>4 DEF CreateSuperuser, TypeOK
  <2>5. ASSUME NEW tok \in access, NEW u \in Users, RevokeSuperuser(tok, u)
        PROVE SomebodyGoverns'
    <3>1. tok.user \in Users
      BY DEF TypeOK, AccessToken
    <3>2. account'[tok.user] = account[tok.user]
      BY <2>5, <3>1 DEF RevokeSuperuser, Other, TypeOK
    <3> QED BY <2>5, <3>1, <3>2 DEF RevokeSuperuser
  <2>6. UNCHANGED <<account, crossed>> => SomebodyGoverns'
    OBVIOUS
  <2> QED
    BY <2>2, <2>3, <2>4, <2>5, <2>6, StepCases
       DEF Login, Refresh, InviteUser, ChangeRole, RevokeUser, CreateTenant, DeleteTenant,
           Tick, vars
<1> QED BY <1>1, <1>2, TypeCorrect, PTL DEF Spec

----------------------------------------------------------------------------
(***************************************************************************)
(* Stale claims.                                                           *)
(***************************************************************************)

\* The strengthening: a token whose claims no longer hold is at least as old
\* as the change that ended them.
StaleClaimsAreOld == \A tok \in access : Current(tok) \/ since[tok.user] <= tok.age

\* A step that issues no token keeps it when claims end only where since is
\* set back to 0.
LEMMA OldTokensStay ==
    ASSUME TypeOK, StaleClaimsAreOld, access' = access,
           \A u \in Users :
             \/ since'[u] = 0
             \/ /\ since'[u] = since[u]
                /\ (account[u] = "super") => (account'[u] = "super")
                /\ (member[u].status # "none") =>
                      /\ member'[u].status # "none"
                      /\ member'[u].tenant = member[u].tenant
                      /\ member'[u].role = member[u].role
    PROVE  StaleClaimsAreOld'
<1> SUFFICES ASSUME NEW tok \in access PROVE Current(tok)' \/ since'[tok.user] <= tok.age
  BY DEF StaleClaimsAreOld
<1>1. tok.user \in Users /\ tok.age \in Nat
  BY DEF TypeOK, AccessToken
<1> QED BY <1>1 DEF StaleClaimsAreOld, Current

\* A step that issues a token from the current rows keeps it.
LEMMA NewTokensAreCurrent ==
    ASSUME TypeOK, StaleClaimsAreOld, UNCHANGED <<account, member, since>>,
           NEW u \in Users, NEW super \in BOOLEAN, NEW t, NEW r, Issue(u, super, t, r),
           IF super THEN account[u] = "super"
                    ELSE member[u].status # "none" /\ member[u].tenant = t
                         /\ member[u].role = r
    PROVE  StaleClaimsAreOld'
<1> DEFINE new == [user |-> u, super |-> super, tenant |-> t, role |-> r, age |-> 0]
<1>1. access' \subseteq access \cup {new}
  BY DEF Issue
<1>2. Current(new)'
  BY DEF Current
<1>3. ASSUME NEW tok \in access PROVE Current(tok)' \/ since'[tok.user] <= tok.age
  BY DEF StaleClaimsAreOld, Current
<1> QED BY <1>1, <1>2, <1>3 DEF StaleClaimsAreOld

\* A change of role, of superusers or of tenants has reached every session
\* when a lifetime of an access token has gone by.
THEOREM StaleClaims == Spec => []StaleClaimsDieOut
<1>1. Init => StaleClaimsAreOld
  BY DEF Init, StaleClaimsAreOld
<1>2. TypeOK /\ OneKindOfAccount /\ StaleClaimsAreOld /\ [Next]_vars => StaleClaimsAreOld'
  <2> SUFFICES ASSUME TypeOK, OneKindOfAccount, StaleClaimsAreOld, [Next]_vars
               PROVE StaleClaimsAreOld'
    OBVIOUS
  <2>1. ASSUME NEW u \in Users, Login(u) PROVE StaleClaimsAreOld'
    BY <2>1, NewTokensAreCurrent DEF Login
  <2>2. ASSUME NEW tok \in refreshers, Refresh(tok) PROVE StaleClaimsAreOld'
    <3>1. tok.user \in Users
      BY DEF TypeOK, RefreshToken
    <3>2. CASE tok.tenant = Nothing
      BY <2>2, <3>1, <3>2, NewTokensAreCurrent DEF Refresh
    <3>3. CASE tok.tenant # Nothing
      <4>1. account[tok.user] # "super"
        BY <2>2, <3>1, <3>3 DEF Refresh, OneKindOfAccount
      <4>2. Issue(tok.user, FALSE, tok.tenant, member[tok.user].role)
        BY <2>2, <3>3, <4>1 DEF Refresh
      <4> QED BY <2>2, <3>1, <3>3, <4>2, NewTokensAreCurrent DEF Refresh
    <3> QED BY <3>2, <3>3
  <2>3. ASSUME NEW i \in Invites, NEW done \in 1..3, AcceptInvite(i, done)
        PROVE StaleClaimsAreOld'
    <3> DEFINE u == invite[i].user
               new == [user |-> u, super |-> FALSE, tenant |-> invite[i].tenant,
                       role |-> invite[i].role, age |-> 0]
    <3>1. u \in Users /\ account[u] = "none" /\ member[u].status = "none"
      BY <2>3 DEF AcceptInvite, Free, TypeOK, OneKindOfAccount
    <3>2. \A v \in Users : v # u => account'[v] = account[v] /\ member'[v] = member[v]
      BY <2>3 DEF AcceptInvite, Join, TypeOK
    <3>3. since' = since
      BY <2>3 DEF AcceptInvite
    <3>4. ASSUME NEW tok \in access PROVE Current(tok)' \/ since'[tok.user] <= tok.age
      <4>1. tok.user \in Users
        BY DEF TypeOK, AccessToken
      <4>2. CASE tok.user = u
        BY <3>1, <3>3, <4>2 DEF StaleClaimsAreOld, Current
      <4>3. CASE tok.user # u
        BY <3>2, <3>3, <4>1, <4>3 DEF StaleClaimsAreOld, Current
      <4> QED BY <4>2, <4>3
    <3>5. CASE done = 3
      <4>1. access' \subseteq access \cup {new}
        BY <2>3, <3>5 DEF AcceptInvite, Issue
      <4>2. member'[u] = [status |-> "active", tenant |-> invite[i].tenant,
                          role |-> invite[i].role]
        BY <2>3, <3>1, <3>5 DEF AcceptInvite, Join, TypeOK
      <4>3. ASSUME NEW tok, tok = new PROVE Current(tok)'
        BY <4>2, <4>3 DEF Current
      <4>4. ASSUME NEW tok \in access' PROVE Current(tok)' \/ since'[tok.user] <= tok.age
        BY <3>4, <4>1, <4>3
      <4> QED BY <4>4 DEF StaleClaimsAreOld
    <3>6. CASE done # 3
      BY <2>3, <3>4, <3>6 DEF AcceptInvite, NoTokens, StaleClaimsAreOld
    <3> QED BY <3>5, <3>6
  <2>4. ASSUME NEW tok \in access, NEW u \in Users, NEW t \in Tenants, NEW i \in Invites,
               NEW r \in Roles, InviteUser(tok, t, i, u, r)
        PROVE StaleClaimsAreOld'
    BY <2>4, OldTokensStay DEF InviteUser, NoTokens
  <2>5. ASSUME NEW tok \in access, NEW u \in Users, NEW t \in Tenants, NEW r \in Roles,
               NEW done \in 1..2, CreateUser(tok, t, u, r, done)
        PROVE StaleClaimsAreOld'
    <3>1. account[u] = "none" /\ member[u].status = "none"
      BY <2>5 DEF CreateUser, Free, OneKindOfAccount
    <3>2. \A v \in Users : v # u => account'[v] = account[v] /\ member'[v] = member[v]
      BY <2>5 DEF CreateUser, Join, TypeOK
    <3> QED BY <2>5, <3>1, <3>2, OldTokensStay DEF CreateUser, NoTokens
  <2>6. ASSUME NEW tok \in access, NEW u \in Users, NEW t \in Tenants, NEW r \in Roles,
               ChangeRole(tok, t, u, r)
        PROVE StaleClaimsAreOld'
    <3>1. \A v \in Users : v # u => member'[v] = member[v] /\ since'[v] = since[v]
      BY <2>6 DEF ChangeRole, TypeOK
    <3>2. since'[u] = 0 \/ (since'[u] = since[u] /\ member'[u].role = member[u].role)
      BY <2>6 DEF ChangeRole, TypeOK
    <3>3. member'[u].status = member[u].status /\ member'[u].tenant = member[u].tenant
      BY <2>6 DEF ChangeRole, TypeOK
    <3>4. access' = access /\ account' = account
      BY <2>6 DEF ChangeRole, NoTokens
    <3> QED BY <3>1, <3>2, <3>3, <3>4, OldTokensStay
  <2>7. ASSUME NEW tok \in access, NEW u \in Users, NEW t \in Tenants, RevokeUser(tok, t, u)
        PROVE StaleClaimsAreOld'
    <3>1. /\ \A v \in Users : v # u => member'[v] = member[v]
          /\ member'[u] = [member[u] EXCEPT !.status = "revoked"]
      BY <2>7 DEF RevokeUser, TypeOK
    <3>2. /\ member'[u].status # "none" /\ member'[u].tenant = member[u].tenant
          /\ member'[u].role = member[u].role
      BY <3>1 DEF TypeOK
    <3> QED BY <2>7, <3>1, <3>2, OldTokensStay DEF RevokeUser, NoTokens
  <2>8. ASSUME NEW tok \in access, NEW t \in Tenants, CreateTenant(tok, t)
        PROVE StaleClaimsAreOld'
    BY <2>8, OldTokensStay DEF CreateTenant, NoTokens
  <2>9. ASSUME NEW tok \in access, NEW t \in Tenants, NEW done \in 1..2,
               DeleteTenant(tok, t, done)
        PROVE StaleClaimsAreOld'
    <3>1. \A u \in Users : \/ since'[u] = 0
                           \/ since'[u] = since[u] /\ member'[u] = member[u]
      BY <2>9 DEF DeleteTenant
    <3> QED BY <2>9, <3>1, OldTokensStay DEF DeleteTenant, NoTokens
  <2>10. ASSUME NEW tok \in access, NEW u \in Users, CreateSuperuser(tok, u)
         PROVE StaleClaimsAreOld'
    BY <2>10, OldTokensStay DEF CreateSuperuser, NoTokens, TypeOK
  <2>11. ASSUME NEW tok \in access, NEW u \in Users, RevokeSuperuser(tok, u)
         PROVE StaleClaimsAreOld'
    <3>1. \A v \in Users : v # u => account'[v] = account[v] /\ since'[v] = since[v]
      BY <2>11 DEF RevokeSuperuser, TypeOK
    <3>2. since'[u] = 0
      BY <2>11 DEF RevokeSuperuser, TypeOK
    <3> QED BY <2>11, <3>1, <3>2, OldTokensStay DEF RevokeSuperuser, NoTokens
  <2>12. CASE Tick
    <3> SUFFICES ASSUME NEW tok \in access' PROVE Current(tok)' \/ since'[tok.user] <= tok.age
      BY DEF StaleClaimsAreOld
    <3>1. PICK old \in access : tok = [old EXCEPT !.age = @ + 1]
      BY <2>12 DEF Tick
    <3>2. /\ old \in AccessToken /\ tok.user = old.user /\ tok.age = old.age + 1
          /\ tok.super = old.super /\ tok.tenant = old.tenant /\ tok.role = old.role
      BY <3>1 DEF TypeOK, AccessToken
    <3>3. Current(tok)' <=> Current(old)
      BY <2>12, <3>2 DEF Tick, Current
    <3>4. old.user \in Users /\ old.age \in Nat
      BY <3>2 DEF AccessToken
    <3>5. since[old.user] \in Nat /\ since[old.user] <= AccessTTL
      BY <3>4, MembershipAssumption DEF TypeOK
    <3>6. since'[old.user] = IF since[old.user] < AccessTTL THEN since[old.user] + 1
                                                            ELSE AccessTTL
      BY <2>12, <3>4 DEF Tick
    <3>7. since'[old.user] <= since[old.user] + 1 /\ since'[old.user] \in Nat
      BY <3>5, <3>6, MembershipAssumption
    <3>8. Current(old) \/ since[old.user] <= old.age
      BY DEF StaleClaimsAreOld
    <3> QED BY <3>2, <3>3, <3>4, <3>5, <3>7, <3>8
  <2>13. CASE UNCHANGED vars
    BY <2>13 DEF vars, StaleClaimsAreOld, Current
  <2> QED
    BY <2>1, <2>2, <2>3, <2>4, <2>5, <2>6, <2>7, <2>8, <2>9, <2>10, <2>11, <2>12, <2>13,
       StepCases
<1>3. TypeOK /\ StaleClaimsAreOld => StaleClaimsDieOut
  <2> SUFFICES ASSUME TypeOK, StaleClaimsAreOld, NEW tok \in access
               PROVE Current(tok) \/ since[tok.user] < AccessTTL
    BY DEF StaleClaimsDieOut
  <2>1. since[tok.user] \in Nat /\ tok.age \in Nat /\ tok.age < AccessTTL
    BY MembershipAssumption DEF TypeOK, AccessToken
  <2> QED BY <2>1, MembershipAssumption DEF StaleClaimsAreOld
<1> QED BY <1>1, <1>2, <1>3, TypeCorrect, OneKind, PTL DEF Spec

=============================================================================
