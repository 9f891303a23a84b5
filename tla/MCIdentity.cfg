SPECIFICATION IdentitySpec
CONSTANTS
    Users = {u1, u2}
    Addresses = {a1, a2}
    Challenges = {c1, c2}
    Organizations = {o1, o2}
    Pageants = {p1}
    Requests = {r1, r2}
    GrantedRoles = {"viewer"}
    AskedStatuses = {"published"}
    AllowMainnet = TRUE
    None = None
SYMMETRY Symmetry
CHECK_DEADLOCK FALSE
INVARIANTS
    AccountsFollowChallenges
    OneSetup
