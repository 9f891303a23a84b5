------------------------------ MODULE Identity ------------------------------
(***************************************************************************)
(* Accounts and their wallets, the setup of the site, members, settings    *)
(* and pageants (services/api/src/identity.rs, access.rs, manage.rs, the   *)
(* bootstrap of platform.rs), behind the check of authorization_acl.rs.    *)
(*                                                                         *)
(* Consumption of a challenge and setup are transactions of several steps: *)
(* what they write is seen by others at the commit, where the unique       *)
(* indexes decide which of two transactions fails as a whole.  The other   *)
(* handlers decide without locks, after the middleware has decided by      *)
(* roles it read earlier: each is admitted, then checks and reads, then    *)
(* writes, and anything may happen in between.                             *)
(*                                                                         *)
(* An address stands for a key pair on one network.  An organization is    *)
(* named by its slug.  Names, profiles and audit rows are left out.        *)
(*                                                                         *)
(* A definition marked FAULT is not part of the model: it is the next      *)
(* definition with a plausible mistake, which a property has to notice.    *)
(***************************************************************************)
EXTENDS Naturals, FiniteSets, ApiRequests

CONSTANTS
    Users,          \* accounts that may come to exist
    Addresses,
    Challenges,     \* wallet challenges that may be created
    Organizations,
    Pageants,
    GrantedRoles,   \* roles that requests ask for
    AskedStatuses,  \* statuses of pageants that requests ask for
    AllowMainnet    \* the configuration's allow_mainnet

Networks == {"testnet", "public"}
(* A challenge for setup is consumed as one for login. *)
Purposes == {"login", "link"}
MemberRoles == {"owner", "admin", "editor", "operator", "auditor", "viewer"}
PageantStatuses == {"draft", "published", "active", "completed", "archived"}

ASSUME IdentityAssumption ==
    /\ AllowMainnet \in BOOLEAN
    /\ GrantedRoles \subseteq MemberRoles \ {"owner"}
    /\ AskedStatuses \subseteq PageantStatuses
    /\ None \notin Users \union Organizations \union Pageants
            \union Networks \union MemberRoles \union {"clear"}

VARIABLES
    users,      \* accounts that exist
    wallets,    \* rows of stellar_accounts
    challenge,  \* rows of wallet_auth_challenges
    admins,     \* site_administrators, all owners
    role,       \* organization_members: a user's role in an organization
    settings,   \* the row of site_settings
    pageant,    \* rows of pageants
    request     \* what each request under way has read and means to do

identityVars ==
    <<users, wallets, challenge, admins, role, settings, pageant, request>>

Wallet ==
    [user : Users, network : Networks, address : Addresses,
     primary : BOOLEAN]
Challenge ==
    [address : Addresses, network : Networks, purpose : Purposes,
     user : Users \union {None}, status : {"open", "expired", "consumed"}]
Settings ==
    [network : Networks, default : Pageants \union {None},
     setupBy : Users \union {None}]

IdentityInit ==
    /\ users = {}
    /\ wallets = {}
    /\ challenge = [c \in Challenges |-> None]
    /\ admins = {}
    /\ role = [o \in Organizations |-> [u \in Users |-> None]]
    /\ settings = [network |-> "testnet", default |-> None,
                   setupBy |-> None]
    /\ pageant = [p \in Pageants |-> None]
    /\ request = [r \in Requests |-> None]
-----------------------------------------------------------------------------
NetworkAllowed(n) == n = "testnet" \/ AllowMainnet

(* The account asked for matters to a link only. *)
CreateWalletChallenge(c) ==
    \E a \in Addresses, n \in Networks, p \in Purposes,
       u \in users \union {None} :
        /\ challenge[c] = None
        /\ NetworkAllowed(n)
        /\ p = "link" <=> u # None
        /\ challenge' = [challenge EXCEPT ![c] =
                [address |-> a, network |-> n, purpose |-> p,
                 user |-> u, status |-> "open"]]
        /\ UNCHANGED <<users, wallets, admins, role, settings, pageant,
                       request>>

ChallengeExpires(c) ==
    /\ challenge[c] # None
    /\ challenge[c].status = "open"
    /\ challenge' = [challenge EXCEPT ![c].status = "expired"]
    /\ UNCHANGED <<users, wallets, admins, role, settings, pageant, request>>

OwnersOf(n, a) == {w.user : w \in {v \in wallets :
                    v.network = n /\ v.address = a}}
Primaries(u, n) == {w \in wallets : w.user = u /\ w.network = n /\ w.primary}

IsDoing(r, op) == request[r] # None /\ request[r].op = op

(* The row of the challenge is locked from its update to the commit.  The  *)
(* account is the one found for the wallet, or the requested one.          *)
BeginConsume(r, c) ==
    /\ request[r] = None
    /\ challenge[c] # None
    /\ challenge[c].status = "open"
    /\ \A q \in Requests : IsDoing(q, "consume") =>
            request[q].challenge # c
    /\ LET k == challenge[c]
           known == OwnersOf(k.network, k.address)
           may == IF k.purpose = "link" THEN known \subseteq {k.user} ELSE TRUE
       IN /\ may
          /\ request' = [request EXCEPT ![r] =
                [op |-> "consume", challenge |-> c, known |-> known # {},
                 primary |-> k.purpose # "link"
                             \/ Primaries(k.user, k.network) = {}]]
    /\ UNCHANGED <<users, wallets, challenge, admins, role, settings, pageant>>

(* FAULT: no index allows only one primary wallet. *)
UniqueAddressOnly(w) == OwnersOf(w.network, w.address) = {}

Unique(w) ==
    /\ OwnersOf(w.network, w.address) = {}
    /\ w.primary => Primaries(w.user, w.network) = {}

(* The account a wallet row is inserted for: one just created, or the one  *)
(* that asked to link.                                                     *)
InsertFor(k) == IF k.purpose = "link" THEN {k.user} ELSE Users \ users

CommitConsume(r) ==
    /\ IsDoing(r, "consume")
    /\ LET c == request[r].challenge
           k == challenge[c]
           Row(u) == [user |-> u, network |-> k.network,
                      address |-> k.address, primary |-> request[r].primary]
       IN /\ challenge' = [challenge EXCEPT ![c].status = "consumed"]
          /\ \/ /\ request[r].known
                /\ UNCHANGED <<users, wallets>>
             \/ \E u \in InsertFor(k) :
                /\ ~request[r].known
                /\ Unique(Row(u))
                /\ users' = users \union {u}
                /\ wallets' = wallets \union {Row(u)}
    /\ request' = [request EXCEPT ![r] = None]
    /\ UNCHANGED <<admins, role, settings, pageant>>

(* A transaction that fails, whatever the reason, leaves nothing; a request *)
(* that is refused or given up after it was admitted has written nothing.  *)
GiveUp(r) ==
    /\ request[r] # None
    /\ request' = [request EXCEPT ![r] = None]
    /\ UNCHANGED <<users, wallets, challenge, admins, role, settings, pageant>>
-----------------------------------------------------------------------------
(* FAULT: the row of site_settings is read without FOR UPDATE. *)
SettingsReadFreely == TRUE

SettingsUnlocked == \A q \in Requests : ~IsDoing(q, "setup")

BeginSetup(r) ==
    \E u \in users, n \in Networks, o \in Organizations :
        /\ request[r] = None
        /\ NetworkAllowed(n)
        /\ SettingsUnlocked
        /\ settings.setupBy = None
        /\ request' = [request EXCEPT ![r] =
                [op |-> "setup", user |-> u, network |-> n,
                 organization |-> o]]
        /\ UNCHANGED <<users, wallets, challenge, admins, role, settings,
                       pageant>>

Exists(o) == \E u \in Users : role[o][u] # None

CommitSetup(r) ==
    /\ IsDoing(r, "setup")
    /\ LET u == request[r].user
           n == request[r].network
           o == request[r].organization
       IN /\ \E w \in wallets : w.user = u /\ w.network = n
          /\ ~Exists(o)
          /\ u \notin admins
          /\ role' = [role EXCEPT ![o][u] = "owner"]
          /\ admins' = admins \union {u}
          /\ settings' = [settings EXCEPT !.network = n, !.setupBy = u]
    /\ request' = [request EXCEPT ![r] = None]
    /\ UNCHANGED <<users, wallets, challenge, pageant>>

Bootstrap ==
    \E u \in Users \ users, o \in Organizations :
        /\ ~Exists(o)
        /\ users' = users \union {u}
        /\ role' = [role EXCEPT ![o][u] = "owner"]
        /\ UNCHANGED <<wallets, challenge, admins, settings, pageant, request>>
-----------------------------------------------------------------------------
SiteRole(u) == IF u \in admins THEN "owner" ELSE None

(* The capabilities that the roles grant, of those the requests below need. *)
SiteGrants(x) ==
    CASE x \in {"owner", "admin"} -> {"members", "pageants", "settings"}
      [] OTHER -> {}
OrganizationGrants(x) ==
    CASE x \in {"owner", "admin"} -> {"members", "pageants"}
      [] x = "editor" -> {"pageants"}
      [] OTHER -> {}

Authorized(u, o, capability) ==
    \/ capability \in SiteGrants(SiteRole(u))
    \/ o # None /\ capability \in OrganizationGrants(role[o][u])

(* What requests ask for: the role of the owner of a wallet, the status of *)
(* a pageant ("new" to create it), other settings (None: not named).       *)
Grant == [capability : {"members"}, user : Users, role : GrantedRoles]
PageantWrite ==
    [capability : {"pageants"}, pageant : Pageants,
     status : AskedStatuses \union {"new"}]
Patch ==
    [capability : {"settings"}, network : Networks \union {None},
     default : Pageants \union {None, "clear"}]

(* The organization the middleware and the handler look up, if any. *)
InScope(o, write) ==
    CASE write.capability = "settings" -> o = None
      [] write.capability = "members" -> o # None /\ Exists(o)
      [] write.capability = "pageants" ->
            IF write.status = "new" THEN o # None /\ Exists(o)
            ELSE pageant[write.pageant] # None
                 /\ o = pageant[write.pageant].organization

(* The middleware, with the roles of the moment. *)
Enforce(r) ==
    \E u \in users, o \in Organizations \union {None},
       write \in Grant \union PageantWrite \union Patch :
        /\ request[r] = None
        /\ InScope(o, write)
        /\ Authorized(u, o, write.capability)
        /\ request' = [request EXCEPT ![r] =
                [op |-> "admitted", actor |-> u, organization |-> o,
                 write |-> write]]
        /\ UNCHANGED <<users, wallets, challenge, admins, role, settings,
                       pageant>>

(* The handler's own check, with the roles it reads later. *)
RequireOrganizationManager(u, o) ==
    u \in admins \/ role[o][u] \in {"owner", "admin"}
RequireEditor(u, o) ==
    u \in admins \/ role[o][u] \in {"owner", "admin", "editor"}
RequireSiteAdmin(u) == u \in admins

IsAdmitted(r, capability) ==
    IsDoing(r, "admitted") /\ request[r].write.capability = capability

(* What the handler has read when it comes to write. *)
Ready(r, write) ==
    request' = [request EXCEPT ![r] =
        [op |-> "ready", organization |-> request[r].organization,
         write |-> write]]

CheckGrant(r) ==
    /\ IsAdmitted(r, "members")
    /\ RequireOrganizationManager(request[r].actor, request[r].organization)
    /\ \E w \in wallets : w.user = request[r].write.user
    /\ Ready(r, request[r].write)
    /\ UNCHANGED <<users, wallets, challenge, admins, role, settings, pageant>>

CheckPageant(r) ==
    /\ IsAdmitted(r, "pageants")
    /\ RequireEditor(request[r].actor, request[r].organization)
    /\ Ready(r, request[r].write)
    /\ UNCHANGED <<users, wallets, challenge, admins, role, settings, pageant>>

(* Whoever owns the settings then: what is not named is written as read.   *)
(* The network cannot be public: mainnet_enabled is never set.             *)
CheckSettings(r) ==
    /\ IsAdmitted(r, "settings")
    /\ RequireSiteAdmin(request[r].actor)
    /\ LET patch == request[r].write
           network == IF patch.network = None THEN settings.network
                      ELSE patch.network
           default == CASE patch.default = "clear" -> None
                        [] patch.default = None -> settings.default
                        [] OTHER -> patch.default
       IN /\ network # "public"
          /\ default # None =>
                /\ pageant[default] # None
                /\ pageant[default].status \in {"published", "active"}
          /\ Ready(r, [patch EXCEPT !.network = network, !.default = default])
    /\ UNCHANGED <<users, wallets, challenge, admins, role, settings, pageant>>

IsReady(r, capability) ==
    IsDoing(r, "ready") /\ request[r].write.capability = capability

GrantMembership(r) ==
    /\ IsReady(r, "members")
    /\ LET grant == request[r].write
       IN role' = [role EXCEPT ![request[r].organization][grant.user] =
                    grant.role]
    /\ request' = [request EXCEPT ![r] = None]
    /\ UNCHANGED <<users, wallets, challenge, admins, settings, pageant>>

CreatePageant(r) ==
    /\ IsReady(r, "pageants")
    /\ LET p == request[r].write.pageant
       IN /\ request[r].write.status = "new"
          /\ pageant[p] = None
          /\ pageant' = [pageant EXCEPT ![p] =
                [organization |-> request[r].organization,
                 status |-> "draft"]]
    /\ request' = [request EXCEPT ![r] = None]
    /\ UNCHANGED <<users, wallets, challenge, admins, role, settings>>

(* Deletion is an update to 'archived'. *)
UpdatePageant(r) ==
    /\ IsReady(r, "pageants")
    /\ request[r].write.status # "new"
    /\ pageant' = [pageant EXCEPT ![request[r].write.pageant].status =
                    request[r].write.status]
    /\ request' = [request EXCEPT ![r] = None]
    /\ UNCHANGED <<users, wallets, challenge, admins, role, settings>>

UpdateSiteSettings(r) ==
    /\ IsReady(r, "settings")
    /\ SettingsUnlocked
    /\ settings' = [settings EXCEPT
                        !.network = request[r].write.network,
                        !.default = request[r].write.default]
    /\ request' = [request EXCEPT ![r] = None]
    /\ UNCHANGED <<users, wallets, challenge, admins, role, pageant>>
-----------------------------------------------------------------------------
IdentityNext ==
    \/ \E c \in Challenges :
        \/ CreateWalletChallenge(c) \/ ChallengeExpires(c)
        \/ \E r \in Requests : BeginConsume(r, c)
    \/ \E r \in Requests :
        \/ CommitConsume(r) \/ GiveUp(r)
        \/ BeginSetup(r) \/ CommitSetup(r)
        \/ Enforce(r)
        \/ CheckGrant(r) \/ CheckPageant(r) \/ CheckSettings(r)
        \/ GrantMembership(r) \/ CreatePageant(r) \/ UpdatePageant(r)
        \/ UpdateSiteSettings(r)
    \/ Bootstrap

IdentitySpec == IdentityInit /\ [][IdentityNext]_identityVars
-----------------------------------------------------------------------------
Pageant ==
    [organization : Organizations, status : PageantStatuses]
UnderWay ==
    [op : {"consume"}, challenge : Challenges, known : BOOLEAN,
     primary : BOOLEAN]
    \union [op : {"setup"}, user : Users, network : Networks,
            organization : Organizations]
    \union [op : {"admitted"}, actor : Users,
            organization : Organizations \union {None},
            write : Grant \union PageantWrite \union Patch]
    \union [op : {"ready"}, organization : Organizations \union {None},
            write : Grant \union PageantWrite \union Patch]

ASSUME IdentityRecordAssumption ==
    None \notin Challenge \union Pageant \union UnderWay

(* The shapes of the variables, which the two invariants below rely on. *)
IdentityTypeOK ==
    /\ users \subseteq Users /\ admins \subseteq users
    /\ wallets \subseteq Wallet
    /\ \A c \in Challenges : challenge[c] \in Challenge \union {None}
    /\ role \in [Organizations -> [Users -> MemberRoles \union {None}]]
    /\ settings \in Settings
    /\ \A p \in Pageants : pageant[p] \in Pageant \union {None}
    /\ \A r \in Requests : request[r] \in UnderWay \union {None}

(* However logins and links of the same wallet or the same account         *)
(* overlap, a wallet has one account, an account has exactly one primary   *)
(* wallet on every network where it has any, every wallet comes from a     *)
(* consumed challenge of its own (a linked one, of its account), and no    *)
(* failed attempt leaves an account without a wallet                       *)
(* (consume_wallet_challenge and the unique indexes of stellar_accounts).  *)
AccountsFollowChallenges ==
    /\ IdentityTypeOK
    /\ \A w \in wallets :
        /\ w.user \in users
        /\ OwnersOf(w.network, w.address) = {w.user}
        /\ Cardinality(Primaries(w.user, w.network)) = 1
        /\ \E c \in Challenges :
            /\ challenge[c] # None
            /\ challenge[c].status = "consumed"
            /\ challenge[c].network = w.network
            /\ challenge[c].address = w.address
            /\ challenge[c].purpose = "link" => challenge[c].user = w.user
    /\ \A u \in users :
        \/ \E w \in wallets : w.user = u
        \/ \E o \in Organizations : role[o][u] = "owner"

(* Setup happens once, whoever asks at the same time: the site has no      *)
(* administrator before it and afterwards the one who completed it, a user *)
(* with a wallet.  Nobody else's request about settings gets past its      *)
(* checks, an organization has at most one owner, and whoever else is a    *)
(* member has signed in (complete_setup, grant_membership).                *)
OneSetup ==
    /\ admins = IF settings.setupBy = None THEN {} ELSE {settings.setupBy}
    /\ \A u \in admins : \E w \in wallets : w.user = u
    /\ \A r \in Requests :
            IsReady(r, "settings") => settings.setupBy # None
    /\ \A o \in Organizations :
        /\ Cardinality({u \in Users : role[o][u] = "owner"}) <= 1
        /\ \A u \in Users : role[o][u] \notin {"owner", None} =>
                \E w \in wallets : w.user = u
=============================================================================
