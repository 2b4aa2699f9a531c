----------------------------- MODULE Membership -----------------------------
(***************************************************************************)
(* Accounts, memberships, invites and the tokens that stand for them       *)
(* (services/api/src/auth, tenant/router.py, superuser/router.py).         *)
(*                                                                         *)
(* Every handler runs on the event loop from its first statement to its    *)
(* last without an await, so handlers do not interleave; but each INSERT,  *)
(* UPDATE and DELETE commits on its own, and a process that dies, or a     *)
(* statement that raises, leaves the first ones done.  An action of        *)
(* several statements takes the number of those that were done.            *)
(*                                                                         *)
(* A request is decided by what its access token says; tokens are not      *)
(* looked up, only refreshed.  Time is counted in ticks, and the lifetimes *)
(* keep their order: 1 hour, 72 hours, 7 days.                             *)
(***************************************************************************)
EXTENDS Integers

CONSTANTS
    Users,        \* emails; an account is never deleted, so also account ids
    Root,         \* the superuser that migration 012 inserts
    Tenants,      \* tenant ids, never used twice
    Invites,      \* rows of platform.invite
    Roles,        \* _VALID_ROLES, which the handlers grant
    Nothing,      \* no tenant, no role: NULL, or "platform" in a refresh token
    AccessTTL,    \* ticks an access token lives
    RefreshTTL,   \* ticks a refresh token lives
    InviteTTL     \* ticks an invite can be accepted

ASSUME MembershipAssumption ==
    /\ Root \in Users
    /\ "admin" \in Roles
    /\ Nothing \notin Tenants \cup Roles
    /\ AccessTTL \in Nat \ {0} /\ RefreshTTL \in Nat \ {0} /\ InviteTTL \in Nat

VARIABLES
    account,      \* account[u]: its row of user_account and is_superuser
    member,       \* member[u]: its row of tenant_membership
    tenant,       \* tenant[t]: its row of platform.tenant
    invite,       \* invite[i]: the row
    access,       \* access tokens that have been issued and not expired
    refreshers,   \* ... and refresh tokens
    \* History variables, guard nothing.
    emptied,      \* tenants whose memberships were deleted
    crossed,      \* a superuser was revoked by one who no longer was one
    since         \* since[u]: ticks since a row that u's tokens copy changed

vars == <<account, member, tenant, invite, access, refreshers, emptied, crossed, since>>

NoMember == [status |-> "none", tenant |-> Nothing, role |-> Nothing]

NoInvite == [status |-> "none", user |-> Root, tenant |-> Nothing, role |-> Nothing,
             age |-> 0]

AccessToken == [user : Users, super : BOOLEAN, tenant : Tenants \cup {Nothing},
                role : Roles \cup {Nothing}, age : Nat]

RefreshToken == [user : Users, tenant : Tenants \cup {Nothing}, age : Nat]

TypeOK ==
    /\ account \in [Users -> {"none", "user", "super"}]
    /\ member \in [Users -> [status : {"none", "active", "revoked"},
                             tenant : Tenants \cup {Nothing},
                             role : Roles \cup {Nothing}]]
    /\ tenant \in [Tenants -> {"unused", "live", "deleted"}]
    /\ invite \in [Invites -> [status : {"none", "open", "used"}, user : Users,
                               tenant : Tenants \cup {Nothing},
                               role : Roles \cup {Nothing}, age : 0..InviteTTL]]
    /\ access \subseteq AccessToken
    /\ \A tok \in access : tok.age < AccessTTL
    /\ refreshers \subseteq RefreshToken
    /\ \A tok \in refreshers : tok.age < RefreshTTL
    /\ emptied \subseteq Tenants
    /\ crossed \in BOOLEAN
    /\ since \in [Users -> 0..AccessTTL]

\* Migration 012 inserts the first superuser.
Init ==
    /\ account = [u \in Users |-> IF u = Root THEN "super" ELSE "none"]
    /\ member = [u \in Users |-> NoMember]
    /\ tenant = [t \in Tenants |-> "unused"]
    /\ invite = [i \in Invites |-> NoInvite]
    /\ access = {}
    /\ refreshers = {}
    /\ emptied = {}
    /\ crossed = FALSE
    /\ since = [u \in Users |-> AccessTTL]

----------------------------------------------------------------------------
(***************************************************************************)
(* Tokens.                                                                 *)
(***************************************************************************)

\* create_access_token and create_refresh_token.  Of two tokens that say the
\* same only the younger one matters.
Issue(u, super, t, r) ==
    LET new == [user |-> u, super |-> super, tenant |-> t, role |-> r, age |-> 0]
        again == [user |-> u, tenant |-> t, age |-> 0]
    IN  /\ access' = {tok \in access : [tok EXCEPT !.age = 0] # new} \cup {new}
        /\ refreshers' = {tok \in refreshers : [tok EXCEPT !.age = 0] # again} \cup {again}

NoTokens == UNCHANGED <<access, refreshers>>

\* _lookup_user finds a superuser without a membership, anybody else by an
\* active one.  Every account has a password once the process is up.
Login(u) ==
    /\ \/ /\ account[u] = "super"
          /\ Issue(u, TRUE, Nothing, Nothing)
       \/ /\ account[u] = "user"
          /\ member[u].status = "active"
          /\ Issue(u, FALSE, member[u].tenant, member[u].role)
    /\ UNCHANGED <<account, member, tenant, invite, emptied, crossed, since>>

\* refresh reads the rows again.  Its join takes the membership row whether
\* revoked or not.
Refresh(tok) ==
    LET u == tok.user IN
    /\ \/ /\ tok.tenant = Nothing
          /\ account[u] = "super"
          /\ Issue(u, TRUE, Nothing, Nothing)
       \/ /\ tok.tenant # Nothing
          /\ member[u].status # "none" /\ member[u].tenant = tok.tenant
          /\ Issue(u, account[u] = "super", tok.tenant, member[u].role)
    /\ UNCHANGED <<account, member, tenant, invite, emptied, crossed, since>>

\* AuthMiddleware and require_permission(USER, ADMIN): what a token lets its
\* bearer administer.  A superuser names a tenant in X-Tenant-ID, which is not
\* looked up, so it may have been deleted.
Administers(tok, t) ==
    IF tok.super THEN tenant[t] # "unused" ELSE tok.tenant = t /\ tok.role = "admin"

\* Mutant: tokens expire one tick late.
DiesLate(age, ttl) == age >= ttl

\* exp of a token that was age ticks old before this one.
Dies(age, ttl) == age + 1 >= ttl

\* Time passes: tokens and invites grow older.
Tick ==
    /\ access' = {[tok EXCEPT !.age = @ + 1] :
                    tok \in {old \in access : ~Dies(old.age, AccessTTL)}}
    /\ refreshers' = {[tok EXCEPT !.age = @ + 1] :
                    tok \in {old \in refreshers : ~Dies(old.age, RefreshTTL)}}
    /\ invite' = [i \in Invites |->
                    IF invite[i].status = "open" /\ invite[i].age < InviteTTL
                      THEN [invite[i] EXCEPT !.age = @ + 1] ELSE invite[i]]
    /\ since' = [u \in Users |-> IF since[u] < AccessTTL THEN since[u] + 1 ELSE AccessTTL]
    /\ UNCHANGED <<account, member, tenant, emptied, crossed>>

----------------------------------------------------------------------------
(***************************************************************************)
(* Members of a tenant.                                                    *)
(***************************************************************************)

\* invite_user: nobody asks whether the email is known, or invited already.
InviteUser(tok, t, i, u, r) ==
    /\ Administers(tok, t)
    /\ invite[i].status = "none"
    /\ invite' = [invite EXCEPT ![i] = [status |-> "open", user |-> u, tenant |-> t,
                                        role |-> r, age |-> 0]]
    /\ NoTokens
    /\ UNCHANGED <<account, member, tenant, emptied, crossed, since>>

\* Mutant: only superusers are looked for.
FreeUnlessSuper(u) == account[u] # "super"

\* "SELECT id FROM platform.user_account WHERE email = ?" finds nothing.
Free(u) == account[u] = "none"

\* The rows a new user gets, in the order of the statements.
Join(u, t, r, done) ==
    /\ account' = [account EXCEPT ![u] = "user"]
    /\ member' = IF done >= 2
                   THEN [member EXCEPT ![u] = [status |-> "active", tenant |-> t, role |-> r]]
                   ELSE member

\* Mutant: the invite is marked as used before the membership is inserted.
SpendsEarly(done) == done >= 1

\* The third statement of accept_invite.
Spends(done) == done >= 3

\* accept_invite, after done of its three statements.
AcceptInvite(i, done) ==
    LET row == invite[i] IN
    /\ row.status = "open"
    /\ row.age < InviteTTL
    /\ Free(row.user)
    /\ Join(row.user, row.tenant, row.role, done)
    /\ invite' = IF Spends(done) THEN [invite EXCEPT ![i].status = "used"] ELSE invite
    /\ IF done = 3 THEN Issue(row.user, FALSE, row.tenant, row.role) ELSE NoTokens
    /\ UNCHANGED <<tenant, emptied, crossed, since>>

\* create_user, after done of its two statements.
CreateUser(tok, t, u, r, done) ==
    /\ Administers(tok, t)
    /\ Free(u)
    /\ Join(u, t, r, done)
    /\ NoTokens
    /\ UNCHANGED <<tenant, invite, emptied, crossed, since>>

\* An active membership of t, which change_role and revoke_user ask for.
ActiveIn(u, t) == member[u].status = "active" /\ member[u].tenant = t

\* change_role: one may demote oneself, and the last admin.
ChangeRole(tok, t, u, r) ==
    /\ Administers(tok, t)
    /\ ActiveIn(u, t)
    /\ member' = [member EXCEPT ![u].role = r]
    /\ since' = [since EXCEPT ![u] = IF r = member[u].role THEN @ ELSE 0]
    /\ NoTokens
    /\ UNCHANGED <<account, tenant, invite, emptied, crossed>>

\* revoke_user stamps revoked_at; no handler takes the stamp off again.
RevokeUser(tok, t, u) ==
    /\ Administers(tok, t)
    /\ u # tok.user
    /\ ActiveIn(u, t)
    /\ member' = [member EXCEPT ![u].status = "revoked"]
    /\ NoTokens
    /\ UNCHANGED <<account, tenant, invite, emptied, crossed, since>>

----------------------------------------------------------------------------
(***************************************************************************)
(* Tenants and superusers; require_superuser reads the token.              *)
(***************************************************************************)

\* create_tenant.  (A slug that is taken, or no slug, is refused.)
CreateTenant(tok, t) ==
    /\ tok.super
    /\ tenant[t] = "unused"
    /\ tenant' = [tenant EXCEPT ![t] = "live"]
    /\ NoTokens
    /\ UNCHANGED <<account, member, invite, emptied, crossed, since>>

\* delete_tenant, after done of its two statements.  The invites stay.
DeleteTenant(tok, t, done) ==
    LET gone == {u \in Users : member[u].status # "none" /\ member[u].tenant = t} IN
    /\ tok.super
    /\ tenant[t] = "live"
    /\ member' = [u \in Users |-> IF u \in gone THEN NoMember ELSE member[u]]
    /\ since' = [u \in Users |-> IF u \in gone THEN 0 ELSE since[u]]
    /\ tenant' = IF done = 2 THEN [tenant EXCEPT ![t] = "deleted"] ELSE tenant
    /\ emptied' = emptied \cup {t}
    /\ NoTokens
    /\ UNCHANGED <<account, invite, crossed>>

\* create_superuser
CreateSuperuser(tok, u) ==
    /\ tok.super
    /\ Free(u)
    /\ account' = [account EXCEPT ![u] = "super"]
    /\ NoTokens
    /\ UNCHANGED <<member, tenant, invite, emptied, crossed, since>>

\* Mutant: the check against revoking oneself is forgotten.
AnyOther(tok, u) == tok.user \in Users

\* "Cannot remove your own super user privileges"
Other(tok, u) == u # tok.user

\* revoke_superuser
RevokeSuperuser(tok, u) ==
    /\ tok.super
    /\ Other(tok, u)
    /\ account[u] = "super"
    /\ account' = [account EXCEPT ![u] = "user"]
    /\ crossed' = (crossed \/ account[tok.user] # "super")
    /\ since' = [since EXCEPT ![u] = 0]
    /\ NoTokens
    /\ UNCHANGED <<member, tenant, invite, emptied>>

----------------------------------------------------------------------------
Administer(tok) ==
    \E u \in Users, t \in Tenants :
        \/ \E i \in Invites, r \in Roles : InviteUser(tok, t, i, u, r)
        \/ \E r \in Roles, done \in 1..2 : CreateUser(tok, t, u, r, done)
        \/ \E r \in Roles : ChangeRole(tok, t, u, r)
        \/ RevokeUser(tok, t, u)

Govern(tok) ==
    \/ \E t \in Tenants : CreateTenant(tok, t)
    \/ \E t \in Tenants, done \in 1..2 : DeleteTenant(tok, t, done)
    \/ \E u \in Users : CreateSuperuser(tok, u)
    \/ \E u \in Users : RevokeSuperuser(tok, u)

Next ==
    \/ \E u \in Users : Login(u)
    \/ \E tok \in refreshers : Refresh(tok)
    \/ \E i \in Invites, done \in 1..3 : AcceptInvite(i, done)
    \/ \E tok \in access : Administer(tok) \/ Govern(tok)
    \/ Tick

Spec == Init /\ [][Next]_vars

----------------------------------------------------------------------------
(***************************************************************************)
(* Correctness.                                                            *)
(***************************************************************************)

\* "Super users have no tenant membership" (auth/router.py, _lookup_user), on
\* which login and refresh decide what a token says: nobody is both, and a
\* membership always has its account.  Five handlers, any of which can stop
\* between two statements, keep it.
OneKindOfAccount ==
    \A u \in Users : member[u].status # "none" => account[u] = "user"

\* An invite that is spent has brought its user in: wherever accept_invite
\* stops, the membership is never what is missing behind a used_at, unless
\* the memberships of the tenant were deleted since.
SpentInviteHasMember ==
    \A i \in Invites : invite[i].status = "used" =>
        \/ invite[i].tenant \in emptied
        \/ /\ member[invite[i].user].status # "none"
           /\ member[invite[i].user].tenant = invite[i].tenant

\* There is always somebody who can administer the platform, since nobody
\* can revoke himself; unless two superusers revoke each other, the second
\* with a token that is older than his own revocation.
SomebodyGoverns == (\E u \in Users : account[u] = "super") \/ crossed

\* What an access token says and what the rows it was copied from say.
Current(tok) ==
    IF tok.super
      THEN account[tok.user] = "super"
      ELSE /\ member[tok.user].status # "none"
           /\ member[tok.user].tenant = tok.tenant
           /\ member[tok.user].role = tok.role

\* A change of role, the end of a superuser and the end of a tenant reach
\* every session one lifetime of an access token later, however the sessions
\* are refreshed: older claims have died out by then.  (A revoked member is
\* not among them: refresh reads its row as before.)
StaleClaimsDieOut ==
    \A tok \in access : Current(tok) \/ since[tok.user] < AccessTTL

=============================================================================
