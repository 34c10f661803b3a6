------------------------------- MODULE Tenancy -------------------------------
(***************************************************************************)
(* Organizations, teams and API keys (auth/service.py, auth/models.py,     *)
(* auth/dependencies.py and the bootstrap, organizations, teams and        *)
(* api_keys endpoints).                                                    *)
(*                                                                         *)
(* A call reads the database (the key it authenticates with, or, for       *)
(* bootstrap, whether an organization exists) and later commits what its   *)
(* handler has written, in one transaction.  Between the two, other calls  *)
(* commit theirs.  Nobody sees what is not committed; a unique constraint  *)
(* makes the second of two transactions wait for the first and then fail.  *)
(***************************************************************************)
EXTENDS Integers

CONSTANTS
    Org, Team, Key,     \* ids, uuid4
    Slug,
    Caller,             \* calls in progress
    MaxTime             \* bound: last tick

Never == -1             \* NULL for expires_at

ASSUME TenancyAssumption == MaxTime \in Nat

VARIABLES
    org,                \* the organizations table
    team,               \* the teams table
    key,                \* the api_keys table
    call,               \* each call's progress
    touch,              \* keys whose last_used_at is about to be written
    now

tenancyVars == <<org, team, key, call, touch, now>>

Time == 0 .. MaxTime
Role == {"admin", "member"}

NoRow == [slug |-> "none"]
NoKey == [role |-> "none"]
OrgRow == [slug : Slug, by : {"bootstrap", "api"}]
TeamRow == [slug : Slug, org : Org, by : {"bootstrap", "api"}]
KeyRow == [role : Role, team : Team, expires : Time \cup {Never},
           revoked : BOOLEAN, used : BOOLEAN]

\* "boot": bootstrap has seen no organization.  "act": authenticated with a
\* key, the handler is running.
Idle == [pc |-> "idle"]
Boot == [pc |-> "boot"]
CallRecord == {Idle, Boot} \cup [pc : {"act"}, key : Key]

Orgs == {o \in Org : org[o] # NoRow}
Teams == {t \in Team : team[t] # NoRow}
Keys == {k \in Key : key[k] # NoKey}

-----------------------------------------------------------------------------
(* Authentication.                                                         *)

\* APIKey.is_active
IsActive(r, t) == ~r.revoked /\ (r.expires = Never \/ t < r.expires)

Become(c, q) == call' = [call EXCEPT ![c] = q]

\* The rows that create_api_key and revoke_api_key of the service write.
NewKey(t, role, expires) ==
    [role |-> role, team |-> t, expires |-> expires, revoked |-> FALSE, used |-> FALSE]

Revoked(r) == [r EXCEPT !.revoked = TRUE]

\* Mutant: the update is scheduled before the key has been looked up.
AuthenticateTouchFirst(c, k) ==
    /\ call[c] = Idle
    /\ touch' = touch \cup {k}
    /\ IF k \in Keys /\ IsActive(key[k], now)
         THEN Become(c, [pc |-> "act", key |-> k]) ELSE UNCHANGED call
    /\ UNCHANGED <<org, team, key, now>>

\* authenticate: the key must be there and active; its last_used_at will be
\* written by a task of its own.  Any other key is answered 401.
Authenticate(c, k) ==
    /\ call[c] = Idle
    /\ k \in Keys /\ IsActive(key[k], now)
    /\ Become(c, [pc |-> "act", key |-> k])
    /\ touch' = touch \cup {k}
    /\ UNCHANGED <<org, team, key, now>>

\* Mutant: the whole row is written back as authenticate had read it.
UpdateLastUsedWholeRow(k) ==
    /\ k \in touch
    /\ touch' = touch \ {k}
    /\ key' = [key EXCEPT ![k].used = TRUE, ![k].revoked = FALSE]
    /\ UNCHANGED <<org, team, call, now>>

\* _update_last_used: an UPDATE of the one column, in its own session.
UpdateLastUsed(k) ==
    /\ k \in touch
    /\ touch' = touch \ {k}
    /\ key' = [key EXCEPT ![k].used = TRUE]
    /\ UNCHANGED <<org, team, call, now>>

\* It fails, and is only logged; or the process is gone.
UpdateLost(k) ==
    /\ k \in touch
    /\ touch' = touch \ {k}
    /\ UNCHANGED <<org, team, key, call, now>>

-----------------------------------------------------------------------------
(* The tables' constraints.                                                *)

\* organizations.slug is unique.
OrgSlugFree(s) == \A o \in Orgs : org[o].slug # s

\* uq_teams_org_slug
TeamSlugFree(o, s) == \A t \in Teams : team[t].org = o => team[t].slug # s

-----------------------------------------------------------------------------
(* bootstrap.                                                              *)

\* Mutant: it is only asked whether bootstrap has made a team with this slug.
BootstrapChecksSlug(c) ==
    /\ call[c] = Idle
    /\ \E s \in Slug : \A t \in Teams : team[t].slug # s
    /\ Become(c, Boot)
    /\ UNCHANGED <<org, team, key, touch, now>>

\* The token is right and bootstrap is enabled; organizations_exist is FALSE.
BootstrapChecks(c) ==
    /\ call[c] = Idle
    /\ Orgs = {}
    /\ Become(c, Boot)
    /\ UNCHANGED <<org, team, key, touch, now>>

\* An organization, its first team and its admin key, in one transaction.
Bootstrap(c) ==
    /\ call[c] = Boot
    /\ \E o \in Org \ Orgs, t \in Team \ Teams, k \in Key \ Keys, s \in Slug :
         /\ OrgSlugFree(s)
         /\ org' = [org EXCEPT ![o] = [slug |-> s, by |-> "bootstrap"]]
         /\ team' = [team EXCEPT ![t] = [slug |-> s, org |-> o, by |-> "bootstrap"]]
         /\ key' = [key EXCEPT ![k] = NewKey(t, "admin", Never)]
    /\ Become(c, Idle)
    /\ UNCHANGED <<touch, now>>

-----------------------------------------------------------------------------
(* The handlers behind require_admin and get_request_context.  The role,   *)
(* the team and the organization are those of the RequestContext, which    *)
(* authenticate has filled from the key's row.                             *)

TeamOf(c) == key[call[c].key].team
OrgOf(c) == team[TeamOf(c)].org

IsAdmin(c) == call[c].pc = "act" /\ key[call[c].key].role = "admin"

CreateOrganization(c) ==
    /\ IsAdmin(c)
    /\ \E o \in Org \ Orgs, s \in Slug :
         /\ OrgSlugFree(s)
         /\ org' = [org EXCEPT ![o] = [slug |-> s, by |-> "api"]]
    /\ Become(c, Idle)
    /\ UNCHANGED <<team, key, touch, now>>

\* Own organization only.
CreateTeam(c) ==
    /\ IsAdmin(c)
    /\ \E t \in Team \ Teams, s \in Slug :
         /\ TeamSlugFree(OrgOf(c), s)
         /\ team' = [team EXCEPT ![t] = [slug |-> s, org |-> OrgOf(c), by |-> "api"]]
    /\ Become(c, Idle)
    /\ UNCHANGED <<org, key, touch, now>>

\* Own team only.  The expiry is not checked: it may be in the past.
CreateApiKey(c) ==
    /\ IsAdmin(c)
    /\ \E k \in Key \ Keys, r \in Role, e \in Time \cup {Never} :
         key' = [key EXCEPT ![k] = NewKey(TeamOf(c), r, e)]
    /\ Become(c, Idle)
    /\ UNCHANGED <<org, team, touch, now>>

\* Mutant: the key is looked up by its id alone.
RevokeApiKeyAnyTeam(c) ==
    /\ IsAdmin(c)
    /\ \E k \in Keys : key' = [key EXCEPT ![k] = Revoked(@)]
    /\ Become(c, Idle)
    /\ UNCHANGED <<org, team, touch, now>>

\* Own team only; any key of it, the caller's own and the last one included.
RevokeApiKey(c) ==
    /\ IsAdmin(c)
    /\ \E k \in Keys : key[k].team = TeamOf(c) /\ key' = [key EXCEPT ![k] = Revoked(@)]
    /\ Become(c, Idle)
    /\ UNCHANGED <<org, team, touch, now>>

\* The call writes nothing: it reads, it is refused (401, 403, 404, 409, a
\* constraint is violated), it is cancelled or its commit fails.
Return(c) ==
    /\ call[c] # Idle
    /\ Become(c, Idle)
    /\ UNCHANGED <<org, team, key, touch, now>>

Tick ==
    /\ now < MaxTime
    /\ now' = now + 1
    /\ UNCHANGED <<org, team, key, call, touch>>

TenancyInit ==
    /\ org = [o \in Org |-> NoRow]
    /\ team = [t \in Team |-> NoRow]
    /\ key = [k \in Key |-> NoKey]
    /\ call = [c \in Caller |-> Idle]
    /\ touch = {} /\ now = 0

TenancyNext ==
    \/ \E c \in Caller :
         \/ \E k \in Key : Authenticate(c, k)
         \/ BootstrapChecks(c) \/ Bootstrap(c)
         \/ CreateOrganization(c) \/ CreateTeam(c)
         \/ CreateApiKey(c) \/ RevokeApiKey(c) \/ Return(c)
    \/ \E k \in Key : UpdateLastUsed(k) \/ UpdateLost(k)
    \/ Tick

TenancySpec == TenancyInit /\ [][TenancyNext]_tenancyVars

-----------------------------------------------------------------------------
(* Properties.                                                             *)

\* Every row refers to rows that are there.
TenancyTypeOK ==
    /\ org \in [Org -> OrgRow \cup {NoRow}]
    /\ team \in [Team -> TeamRow \cup {NoRow}]
    /\ key \in [Key -> KeyRow \cup {NoKey}]
    /\ call \in [Caller -> CallRecord]
    /\ touch \subseteq Keys /\ now \in Time
    /\ \A t \in Teams : team[t].org \in Orgs
    /\ \A k \in Keys : key[k].team \in Teams
    /\ \A c \in Caller : call[c].pc = "act" => call[c].key \in Keys

\* A key that is revoked or has expired is never active again, whatever calls
\* and last_used_at updates are still in progress.
DeadKeysStayDead ==
    [][\A k \in Keys : ~IsActive(key[k], now) => ~IsActive(key'[k], now')]_tenancyVars

\* A call changes nothing of another tenant: a key appears or is revoked only
\* through an administrator's call of the same team, a team appears only
\* through one of the same organization, an organization through any, the first
\* ones through bootstrap, and none of them ever changes hands.
TenantIsolation ==
    [][\E c \in Caller \cup {"nobody"} :
         LET acts == c \in Caller /\ IsAdmin(c)
             boots == c \in Caller /\ call[c] = Boot
         IN  /\ \A k \in Key : \/ key'[k] = key[k]
                               \/ k \in touch /\ key'[k] = [key[k] EXCEPT !.used = TRUE]
                               \/ boots /\ key[k] = NoKey
                               \/ /\ acts /\ key'[k].team = TeamOf(c)
                                  /\ key[k] = NoKey \/ key[k].team = TeamOf(c)
             /\ \A t \in Team : \/ team'[t] = team[t]
                                \/ boots /\ team[t] = NoRow
                                \/ acts /\ team[t] = NoRow /\ team'[t].org = OrgOf(c)
             /\ \A o \in Org : \/ org'[o] = org[o]
                               \/ (boots \/ acts) /\ org[o] = NoRow]_tenancyVars

\* "Permanently disabled after the first organization is created": calls
\* that were past the check when the first organization was committed may
\* still make one each, but once none of those is left bootstrap makes no
\* organization, team or key ever again.
BootstrapCloses ==
    [][Orgs # {} /\ (\A c \in Caller : call[c] # Boot) =>
         /\ \A c \in Caller : call'[c] # Boot
         /\ \A o \in Org : org'[o] # org[o] => org'[o].by = "api"
         /\ \A t \in Team : team'[t] # team[t] => team'[t].by = "api"]_tenancyVars
=============================================================================
