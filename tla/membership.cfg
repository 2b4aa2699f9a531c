\* The first superuser and two more people, one tenant, one invite.
SPECIFICATION Spec
CONSTANTS
    Users = {root, u1, u2}
    Root = root
    Tenants = {t1}
    Invites = {i1}
    Roles = {"admin", "viewer"}
    Nothing = Nothing
    AccessTTL = 1
    RefreshTTL = 2
    InviteTTL = 1
INVARIANTS
    OneKindOfAccount
    SpentInviteHasMember
    SomebodyGoverns
    StaleClaimsDieOut
