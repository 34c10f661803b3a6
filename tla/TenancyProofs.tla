--------------------------- MODULE TenancyProofs ---------------------------
(***************************************************************************)
(* Theorems about Tenancy for any number of tenants, keys and calls in     *)
(* progress.                                                               *)
(*                                                                         *)
(* One inductive invariant carries them: the tables refer only to rows     *)
(* that are there (TenancyTypeOK).  Rows of organizations and teams never  *)
(* change, so what a call has read of them when it was authenticated still *)
(* holds when it commits.                                                  *)
(***************************************************************************)
EXTENDS Tenancy, TLAPS

-----------------------------------------------------------------------------
(* Rows.                                                                   *)

LEMMA NoRowIsNone == NoRow \notin OrgRow /\ NoRow \notin TeamRow /\ NoKey \notin KeyRow
<1>1. DOMAIN NoRow = {"slug"} /\ DOMAIN NoKey = {"role"}
  BY DEF NoRow, NoKey
<1>2. \A r \in OrgRow : "by" \in DOMAIN r
  BY DEF OrgRow
<1>3. \A r \in TeamRow : "by" \in DOMAIN r
  BY DEF TeamRow
<1>4. \A r \in KeyRow : "team" \in DOMAIN r
  BY DEF KeyRow
<1>5. QED
  BY <1>1, <1>2, <1>3, <1>4

LEMMA NewRowsTyped ==
  ASSUME NEW s \in Slug, NEW o \in Org, NEW by \in {"bootstrap", "api"},
         NEW t \in Team, NEW r \in Role, NEW e \in Time \cup {Never}
  PROVE  /\ [slug |-> s, by |-> by] \in OrgRow
         /\ [slug |-> s, org |-> o, by |-> by] \in TeamRow
         /\ NewKey(t, r, e) \in KeyRow /\ NewKey(t, r, e).team = t
  BY DEF OrgRow, TeamRow, KeyRow, NewKey

LEMMA ChangedRowsTyped ==
  ASSUME NEW r \in KeyRow
  PROVE  /\ Revoked(r) \in KeyRow /\ Revoked(r).team = r.team
         /\ [r EXCEPT !.used = TRUE] \in KeyRow /\ [r EXCEPT !.used = TRUE].team = r.team
  BY DEF KeyRow, Revoked

LEMMA RowsOfTables ==
  ASSUME TenancyTypeOK
  PROVE  /\ \A o \in Orgs : o \in Org /\ org[o] \in OrgRow
         /\ \A t \in Teams : t \in Team /\ team[t] \in TeamRow /\ team[t].org \in Orgs
         /\ \A k \in Keys : k \in Key /\ key[k] \in KeyRow /\ key[k].team \in Teams
  BY DEF TenancyTypeOK, Orgs, Teams, Keys

-----------------------------------------------------------------------------
(* The actions.                                                            *)

LEMMA InitInv == TenancyAssumption /\ TenancyInit => TenancyTypeOK
<1> SUFFICES ASSUME TenancyAssumption, TenancyInit PROVE TenancyTypeOK
  OBVIOUS
<1>1. Orgs = {} /\ Teams = {} /\ Keys = {}
  BY DEF TenancyInit, Orgs, Teams, Keys
<1>2. TenancyTypeOK
  BY <1>1 DEF TenancyAssumption, TenancyInit, TenancyTypeOK, CallRecord, Idle, Boot, Time
<1>3. QED
  BY <1>2

\* A step that leaves the tables alone.
LEMMA TablesUnchanged ==
  ASSUME TenancyTypeOK, org' = org, team' = team, key' = key,
         touch' \subseteq Keys, now' \in Time, call' \in [Caller -> CallRecord],
         \A c \in Caller : call'[c].pc = "act" => call'[c].key \in Keys
  PROVE  TenancyTypeOK'
<1>1. Orgs' = Orgs /\ Teams' = Teams /\ Keys' = Keys
  BY DEF Orgs, Teams, Keys
<1>2. QED
  BY <1>1 DEF TenancyTypeOK

\* The calls in progress after one of them has moved.
LEMMA CallsTyped ==
  ASSUME TenancyTypeOK, NEW c \in Caller, NEW q \in CallRecord, Become(c, q),
         q.pc = "act" => q.key \in Keys
  PROVE  /\ call' \in [Caller -> CallRecord]
         /\ \A d \in Caller : call'[d].pc = "act" => call'[d].key \in Keys
  BY DEF TenancyTypeOK, Become

LEMMA IdleAndBoot == /\ Idle \in CallRecord /\ Idle.pc # "act"
                     /\ Boot \in CallRecord /\ Boot.pc # "act"
  BY DEF Idle, Boot, CallRecord

LEMMA AuthenticateKeeps ==
  ASSUME TenancyTypeOK, NEW c \in Caller, NEW k \in Key, Authenticate(c, k)
  PROVE  TenancyTypeOK'
<1> DEFINE q == [pc |-> "act", key |-> k]
<1>1. q \in CallRecord /\ q.key \in Keys
  BY DEF Authenticate, CallRecord
<1>2. Become(c, q)
  BY DEF Authenticate
<1>3. touch' \subseteq Keys /\ now' \in Time
  BY DEF Authenticate, TenancyTypeOK
<1> HIDE DEF q
<1>4. QED
  BY <1>1, <1>2, <1>3, CallsTyped, TablesUnchanged DEF Authenticate

LEMMA CallOnlyKeeps ==
  ASSUME TenancyTypeOK, NEW c \in Caller, BootstrapChecks(c) \/ Return(c)
  PROVE  TenancyTypeOK'
<1>1. Become(c, Idle) \/ Become(c, Boot)
  BY DEF BootstrapChecks, Return
<1>2. touch' \subseteq Keys /\ now' \in Time
  BY DEF BootstrapChecks, Return, TenancyTypeOK
<1>3. /\ call' \in [Caller -> CallRecord]
      /\ \A d \in Caller : call'[d].pc = "act" => call'[d].key \in Keys
  BY <1>1, CallsTyped, IdleAndBoot
<1>4. QED
  BY <1>2, <1>3, TablesUnchanged DEF BootstrapChecks, Return

LEMMA LostAndTickKeep ==
  ASSUME TenancyAssumption, TenancyTypeOK, (\E k \in Key : UpdateLost(k)) \/ Tick
  PROVE  TenancyTypeOK'
<1>1. touch' \subseteq Keys /\ now' \in Time
  BY DEF UpdateLost, Tick, TenancyTypeOK, TenancyAssumption, Time
<1>2. /\ call' \in [Caller -> CallRecord]
      /\ \A d \in Caller : call'[d].pc = "act" => call'[d].key \in Keys
  BY DEF UpdateLost, Tick, TenancyTypeOK
<1>3. QED
  BY <1>1, <1>2, TablesUnchanged DEF UpdateLost, Tick

-----------------------------------------------------------------------------
(* Changes of the tables.  A step adds rows of organizations and teams and *)
(* changes none; what is said of the others stays true.                    *)

Grows ==
    /\ org' \in [Org -> OrgRow \cup {NoRow}]
    /\ team' \in [Team -> TeamRow \cup {NoRow}]
    /\ key' \in [Key -> KeyRow \cup {NoKey}]
    /\ \A o \in Orgs : org'[o] = org[o]
    /\ \A t \in Teams : team'[t] = team[t]
    /\ \A k \in Keys : key'[k] \in KeyRow /\ key'[k].team = key[k].team

LEMMA RowsStay ==
  ASSUME TenancyTypeOK, Grows
  PROVE  Orgs \subseteq Orgs' /\ Teams \subseteq Teams' /\ Keys \subseteq Keys'
<1>1. \A k \in Keys : key'[k] # NoKey
  BY NoRowIsNone DEF Grows
<1>2. QED
  BY <1>1 DEF Grows, Orgs, Teams, Keys

LEMMA GrowsTyped ==
  ASSUME TenancyTypeOK, Grows, touch' \subseteq Keys, now' = now,
         call' = call \/ \E c \in Caller : Become(c, Idle),
         \A t \in Teams' \ Teams : team'[t].org \in Orgs',
         \A k \in Keys' \ Keys : key'[k].team \in Teams'
  PROVE  TenancyTypeOK'
<1>1. /\ call' \in [Caller -> CallRecord]
      /\ \A d \in Caller : call'[d].pc = "act" => call'[d].key \in Keys
  BY CallsTyped, IdleAndBoot DEF TenancyTypeOK
<1>2. \A t \in Teams' : team'[t].org \in Orgs'
  BY RowsStay DEF Grows, TenancyTypeOK
<1>3. \A k \in Keys' : key'[k].team \in Teams'
  BY RowsStay DEF Grows, TenancyTypeOK
<1>4. now' \in Time
  BY DEF TenancyTypeOK
<1>5. QED
  BY <1>1, <1>2, <1>3, <1>4, RowsStay DEF Grows, TenancyTypeOK, Time

\* What a call that is authenticated may rely on when it commits.
LEMMA OwnTenant ==
  ASSUME TenancyTypeOK, NEW c \in Caller, IsAdmin(c)
  PROVE  call[c].key \in Keys /\ TeamOf(c) \in Teams /\ OrgOf(c) \in Orgs
  BY RowsOfTables DEF TenancyTypeOK, IsAdmin, TeamOf, OrgOf

LEMMA BootstrapKeeps ==
  ASSUME TenancyTypeOK, NEW c \in Caller, Bootstrap(c)
  PROVE  TenancyTypeOK'
<1> PICK o \in Org \ Orgs, t \in Team \ Teams, k \in Key \ Keys, s \in Slug :
      /\ OrgSlugFree(s)
      /\ org' = [org EXCEPT ![o] = [slug |-> s, by |-> "bootstrap"]]
      /\ team' = [team EXCEPT ![t] = [slug |-> s, org |-> o, by |-> "bootstrap"]]
      /\ key' = [key EXCEPT ![k] = NewKey(t, "admin", Never)]
  BY DEF Bootstrap
<1> DEFINE newOrg == [slug |-> s, by |-> "bootstrap"]
           newTeam == [slug |-> s, org |-> o, by |-> "bootstrap"]
           newKey == NewKey(t, "admin", Never)
<1>1. /\ newOrg \in OrgRow /\ newOrg.slug = s /\ newOrg.by = "bootstrap"
      /\ newTeam \in TeamRow /\ newTeam.slug = s /\ newTeam.org = o
      /\ newTeam.by = "bootstrap"
      /\ newKey \in KeyRow /\ newKey.team = t
  BY NewRowsTyped DEF Role
<1>2. /\ org' = [org EXCEPT ![o] = newOrg] /\ team' = [team EXCEPT ![t] = newTeam]
      /\ key' = [key EXCEPT ![k] = newKey]
  OBVIOUS
<1> HIDE DEF newOrg, newTeam, newKey
<1>3. Grows
  BY <1>1, <1>2, RowsOfTables DEF Grows, TenancyTypeOK
<1>4. Orgs' = Orgs \cup {o} /\ Teams' = Teams \cup {t} /\ Keys' = Keys \cup {k}
  BY <1>1, <1>2, NoRowIsNone DEF Orgs, Teams, Keys, TenancyTypeOK
<1>5. /\ org'[o] = newOrg /\ team'[t] = newTeam /\ key'[k] = newKey
  BY <1>2 DEF TenancyTypeOK
<1>6. Become(c, Idle) /\ touch' \subseteq Keys /\ now' = now
  BY DEF Bootstrap, TenancyTypeOK
<1>7. QED
  BY <1>1, <1>3, <1>4, <1>5, <1>6, GrowsTyped

LEMMA CreateOrganizationKeeps ==
  ASSUME TenancyTypeOK, NEW c \in Caller, CreateOrganization(c)
  PROVE  TenancyTypeOK'
<1> PICK o \in Org \ Orgs, s \in Slug :
      /\ OrgSlugFree(s)
      /\ org' = [org EXCEPT ![o] = [slug |-> s, by |-> "api"]]
  BY DEF CreateOrganization
<1> DEFINE newOrg == [slug |-> s, by |-> "api"]
<1>1. newOrg \in OrgRow /\ newOrg.slug = s
  BY DEF OrgRow
<1>2. org' = [org EXCEPT ![o] = newOrg] /\ team' = team /\ key' = key
  BY DEF CreateOrganization
<1> HIDE DEF newOrg
<1>3. Grows
  BY <1>1, <1>2, RowsOfTables DEF Grows, TenancyTypeOK
<1>4. Orgs' = Orgs \cup {o} /\ Teams' = Teams /\ Keys' = Keys /\ org'[o] = newOrg
  BY <1>1, <1>2, NoRowIsNone DEF Orgs, Teams, Keys, TenancyTypeOK
<1>5. Become(c, Idle) /\ touch' \subseteq Keys /\ now' = now
  BY DEF CreateOrganization, TenancyTypeOK
<1>6. QED
  BY <1>3, <1>4, <1>5, GrowsTyped

LEMMA CreateTeamKeeps ==
  ASSUME TenancyTypeOK, NEW c \in Caller, CreateTeam(c)
  PROVE  TenancyTypeOK'
<1> PICK t \in Team \ Teams, s \in Slug :
      /\ TeamSlugFree(OrgOf(c), s)
      /\ team' = [team EXCEPT ![t] = [slug |-> s, org |-> OrgOf(c), by |-> "api"]]
  BY DEF CreateTeam
<1> DEFINE o == OrgOf(c)
           newTeam == [slug |-> s, org |-> o, by |-> "api"]
<1>1. o \in Orgs /\ o \in Org
  BY OwnTenant, RowsOfTables DEF CreateTeam, TenancyTypeOK
<1>2. org' = org /\ team' = [team EXCEPT ![t] = newTeam] /\ key' = key
  BY DEF CreateTeam
<1> HIDE DEF o
<1>3. newTeam \in TeamRow /\ newTeam.slug = s /\ newTeam.org = o
  BY <1>1 DEF TeamRow
<1> HIDE DEF newTeam
<1>4. Grows
  BY <1>2, <1>3, RowsOfTables DEF Grows, TenancyTypeOK
<1>5. Orgs' = Orgs /\ Teams' = Teams \cup {t} /\ Keys' = Keys /\ team'[t] = newTeam
  BY <1>2, <1>3, NoRowIsNone DEF Orgs, Teams, Keys, TenancyTypeOK
<1>6. Become(c, Idle) /\ touch' \subseteq Keys /\ now' = now
  BY DEF CreateTeam, TenancyTypeOK
<1>7. QED
  BY <1>1, <1>3, <1>4, <1>5, <1>6, GrowsTyped

LEMMA CreateApiKeyKeeps ==
  ASSUME TenancyTypeOK, NEW c \in Caller, CreateApiKey(c)
  PROVE  TenancyTypeOK'
<1> PICK k \in Key \ Keys, r \in Role, e \in Time \cup {Never} :
      key' = [key EXCEPT ![k] = NewKey(TeamOf(c), r, e)]
  BY DEF CreateApiKey
<1> DEFINE t == TeamOf(c)
           newKey == NewKey(t, r, e)
<1>1. t \in Teams /\ t \in Team
  BY OwnTenant, RowsOfTables DEF CreateApiKey, TenancyTypeOK, OrgOf
<1>2. org' = org /\ team' = team /\ key' = [key EXCEPT ![k] = newKey]
  BY DEF CreateApiKey
<1> HIDE DEF t
<1>3. newKey \in KeyRow /\ newKey.team = t
  BY <1>1 DEF KeyRow, NewKey
<1> HIDE DEF newKey
<1>4. Grows
  BY <1>2, <1>3, RowsOfTables DEF Grows, TenancyTypeOK
<1>5. Orgs' = Orgs /\ Teams' = Teams /\ Keys' = Keys \cup {k} /\ key'[k] = newKey
  BY <1>2, <1>3, NoRowIsNone DEF Orgs, Teams, Keys, TenancyTypeOK
<1>6. Become(c, Idle) /\ touch' \subseteq Keys /\ now' = now
  BY DEF CreateApiKey, TenancyTypeOK
<1>7. QED
  BY <1>1, <1>3, <1>4, <1>5, <1>6, GrowsTyped

\* A key's row is changed in place.
LEMMA RowReplaced ==
  ASSUME TenancyTypeOK, call' = call \/ \E c \in Caller : Become(c, Idle),
         NEW k \in Keys, NEW r \in KeyRow, r.team = key[k].team,
         key' = [key EXCEPT ![k] = r], org' = org, team' = team,
         touch' \subseteq Keys, now' = now
  PROVE  TenancyTypeOK'
<1>1. Grows
  BY RowsOfTables DEF Grows, TenancyTypeOK
<1>2. Orgs' = Orgs /\ Teams' = Teams /\ Keys' = Keys
  BY NoRowIsNone DEF Orgs, Teams, Keys, TenancyTypeOK
<1>3. QED
  BY <1>1, <1>2, GrowsTyped DEF TenancyTypeOK

LEMMA RevokeApiKeyKeeps ==
  ASSUME TenancyTypeOK, NEW c \in Caller, RevokeApiKey(c)
  PROVE  TenancyTypeOK'
<1> PICK k \in Keys : key' = [key EXCEPT ![k] = Revoked(@)]
  BY DEF RevokeApiKey
<1>1. key[k] \in KeyRow
  BY RowsOfTables DEF TenancyTypeOK
<1>2. Revoked(key[k]) \in KeyRow /\ Revoked(key[k]).team = key[k].team
  BY <1>1, ChangedRowsTyped
<1>3. key' = [key EXCEPT ![k] = Revoked(key[k])]
  OBVIOUS
<1>4. QED
  BY <1>2, <1>3, RowReplaced DEF RevokeApiKey, TenancyTypeOK

LEMMA UpdateLastUsedKeeps ==
  ASSUME TenancyTypeOK, NEW k \in Key, UpdateLastUsed(k)
  PROVE  TenancyTypeOK'
<1>1. k \in Keys /\ touch' \subseteq Keys
  BY DEF UpdateLastUsed, TenancyTypeOK
<1>2. key[k] \in KeyRow
  BY <1>1, RowsOfTables DEF TenancyTypeOK
<1> DEFINE r == [key[k] EXCEPT !.used = TRUE]
<1>3. r \in KeyRow /\ r.team = key[k].team
  BY <1>2, ChangedRowsTyped
<1>4. key' = [key EXCEPT ![k] = r]
  BY DEF UpdateLastUsed
<1> HIDE DEF r
<1>5. QED
  BY <1>1, <1>3, <1>4, RowReplaced DEF UpdateLastUsed

LEMMA TenancyStep ==
  ASSUME TenancyAssumption, TenancyTypeOK, [TenancyNext]_tenancyVars
  PROVE  TenancyTypeOK'
<1>1. CASE UNCHANGED tenancyVars
  BY <1>1, TablesUnchanged DEF tenancyVars, TenancyTypeOK
<1>2. ASSUME NEW c \in Caller,
             \/ \E k \in Key : Authenticate(c, k)
             \/ BootstrapChecks(c) \/ Bootstrap(c)
             \/ CreateOrganization(c) \/ CreateTeam(c)
             \/ CreateApiKey(c) \/ RevokeApiKey(c) \/ Return(c)
      PROVE  TenancyTypeOK'
  BY <1>2, AuthenticateKeeps, CallOnlyKeeps, BootstrapKeeps, CreateOrganizationKeeps,
     CreateTeamKeeps, CreateApiKeyKeeps, RevokeApiKeyKeeps
<1>3. ASSUME \/ \E k \in Key : UpdateLastUsed(k) \/ UpdateLost(k)
             \/ Tick
      PROVE  TenancyTypeOK'
  BY <1>3, UpdateLastUsedKeeps, LostAndTickKeep
<1>4. QED
  BY <1>1, <1>2, <1>3 DEF TenancyNext

-----------------------------------------------------------------------------
(* The theorems.                                                           *)

\* Every row refers to rows that are there, and every call in progress to a
\* key that is, whatever is created concurrently.
THEOREM TenancyTyped == TenancySpec => []TenancyTypeOK
<1>1. TenancyInit => TenancyTypeOK
  BY TenancyAssumption, InitInv
<1>2. TenancyTypeOK /\ [TenancyNext]_tenancyVars => TenancyTypeOK'
  BY TenancyAssumption, TenancyStep
<1>3. QED
  BY <1>1, <1>2, PTL DEF TenancySpec

\* A step changes a key's row only by creating, revoking or touching it.
LEMMA KeyChanges ==
  ASSUME TenancyTypeOK, TenancyNext, NEW k \in Keys
  PROVE  key'[k] = key[k] \/ key'[k] = Revoked(key[k]) \/ key'[k] = [key[k] EXCEPT !.used = TRUE]
<1>1. CASE key' = key
  BY <1>1
<1>2. ASSUME NEW j \in Key \ Keys, NEW r, key' = [key EXCEPT ![j] = r]
      PROVE  key'[k] = key[k]
  BY <1>2, RowsOfTables DEF TenancyTypeOK
<1>3. ASSUME NEW j \in Keys, key' = [key EXCEPT ![j] = Revoked(@)]
      PROVE  key'[k] = key[k] \/ key'[k] = Revoked(key[k])
  BY <1>3, RowsOfTables DEF TenancyTypeOK
<1>4. ASSUME NEW j \in touch, key' = [key EXCEPT ![j].used = TRUE]
      PROVE  key'[k] = key[k] \/ key'[k] = [key[k] EXCEPT !.used = TRUE]
  BY <1>4, RowsOfTables DEF TenancyTypeOK
<1>5. \/ key' = key
      \/ \E j \in Key \ Keys : \E r : key' = [key EXCEPT ![j] = r]
      \/ \E j \in Keys : key' = [key EXCEPT ![j] = Revoked(@)]
      \/ \E j \in touch : key' = [key EXCEPT ![j].used = TRUE]
  <2>1. ASSUME NEW c \in Caller, Bootstrap(c)
        PROVE  \E j \in Key \ Keys : \E r : key' = [key EXCEPT ![j] = r]
    BY <2>1 DEF Bootstrap
  <2>2. ASSUME NEW c \in Caller, CreateApiKey(c)
        PROVE  \E j \in Key \ Keys : \E r : key' = [key EXCEPT ![j] = r]
    BY <2>2 DEF CreateApiKey
  <2>3. ASSUME NEW c \in Caller, RevokeApiKey(c)
        PROVE  \E j \in Keys : key' = [key EXCEPT ![j] = Revoked(@)]
    BY <2>3 DEF RevokeApiKey
  <2>4. ASSUME NEW j \in Key, UpdateLastUsed(j)
        PROVE  \E i \in touch : key' = [key EXCEPT ![i].used = TRUE]
    BY <2>4 DEF UpdateLastUsed
  <2>5. QED
    BY <2>1, <2>2, <2>3, <2>4 DEF TenancyNext, Authenticate, BootstrapChecks,
       CreateOrganization, CreateTeam, Return, UpdateLost, Tick
<1>6. QED
  BY <1>1, <1>2, <1>3, <1>4, <1>5

LEMMA TimeMovesOn ==
  ASSUME TenancyTypeOK, TenancyNext
  PROVE  now \in Int /\ now' \in Int /\ now <= now'
<1>1. now \in Int
  BY TenancyAssumption DEF TenancyTypeOK, TenancyAssumption, Time
<1>2. now' = now \/ now' = now + 1
  BY DEF TenancyNext, Authenticate, BootstrapChecks, Bootstrap, CreateOrganization,
     CreateTeam, CreateApiKey, RevokeApiKey, Return, UpdateLastUsed, UpdateLost, Tick
<1>3. QED
  BY <1>1, <1>2

\* A key that is revoked or has expired never works again, for any number of
\* calls and of pending last_used_at updates.
THEOREM TenancyDeadKeys == TenancySpec => DeadKeysStayDead
<1>1. ASSUME TenancyTypeOK, TenancyNext, NEW k \in Keys, ~IsActive(key[k], now)
      PROVE  ~IsActive(key'[k], now')
  <2>1. key[k] \in KeyRow
    BY <1>1, RowsOfTables DEF TenancyTypeOK
  <2>2. /\ key'[k].expires = key[k].expires
        /\ key[k].revoked => key'[k].revoked
    <3>1. CASE key'[k] = key[k]
      BY <3>1
    <3>2. CASE key'[k] = Revoked(key[k])
      BY <2>1, <3>2 DEF Revoked, KeyRow
    <3>3. CASE key'[k] = [key[k] EXCEPT !.used = TRUE]
      BY <2>1, <3>3 DEF KeyRow
    <3>4. QED
      BY <1>1, <3>1, <3>2, <3>3, KeyChanges
  <2>3. key[k].expires \in Int
    BY <2>1, TenancyAssumption DEF KeyRow, Time, Never, TenancyAssumption
  <2>4. QED
    BY <1>1, <2>2, <2>3, TimeMovesOn DEF IsActive
<1>2. TenancyTypeOK /\ [TenancyNext]_tenancyVars
        => [\A k \in Keys : ~IsActive(key[k], now) => ~IsActive(key'[k], now')]_tenancyVars
  BY <1>1
<1>3. QED
  BY <1>2, TenancyTyped, PTL DEF TenancySpec, DeadKeysStayDead

-----------------------------------------------------------------------------
(* Isolation.  The witness of each step is its caller; the steps of nobody *)
(* change at most the last use of a key.                                   *)

\* What TenantIsolation asks of a step of c.
Isolated(c) ==
    LET acts == c \in Caller /\ IsAdmin(c)
        boots == c \in Caller /\ call[c] = Boot
    IN  /\ \A k \in Key : \/ key'[k] = key[k]
                          \/ k \in touch /\ key'[k] = [key[k] EXCEPT !.used = TRUE]
                          \/ boots /\ key[k] = NoKey
                          \/ /\ acts /\ key'[k].team = TeamOf(c)
                             /\ key[k] = NoKey \/ key[k].team = TeamOf(c)
        /\ \A t \in Team : \/ team'[t] = team[t]
                           \/ boots /\ team[t] = NoRow
                           \/ acts /\ team[t] = NoRow /\ team'[t].org = OrgOf(c)
        /\ \A o \in Org : \/ org'[o] = org[o]
                          \/ (boots \/ acts) /\ org[o] = NoRow

LEMMA BootstrapIsolated ==
  ASSUME TenancyTypeOK, NEW c \in Caller, Bootstrap(c)
  PROVE  Isolated(c)
<1>1. call[c] = Boot
  BY DEF Bootstrap
<1>2. \A o \in Org : org'[o] = org[o] \/ org[o] = NoRow
  BY DEF Bootstrap, TenancyTypeOK, Orgs
<1>3. \A t \in Team : team'[t] = team[t] \/ team[t] = NoRow
  BY DEF Bootstrap, TenancyTypeOK, Teams
<1>4. \A k \in Key : key'[k] = key[k] \/ key[k] = NoKey
  BY DEF Bootstrap, TenancyTypeOK, Keys
<1>5. QED
  BY <1>1, <1>2, <1>3, <1>4 DEF Isolated

LEMMA AdminIsolated ==
  ASSUME TenancyTypeOK, NEW c \in Caller,
         CreateOrganization(c) \/ CreateTeam(c) \/ CreateApiKey(c) \/ RevokeApiKey(c)
  PROVE  Isolated(c)
<1>1. CASE CreateOrganization(c)
  <2>1. \A o \in Org : org'[o] = org[o] \/ org[o] = NoRow
    BY <1>1 DEF CreateOrganization, TenancyTypeOK, Orgs
  <2>2. QED
    BY <1>1, <2>1 DEF CreateOrganization, Isolated
<1>2. CASE CreateTeam(c)
  <2>1. \A t \in Team : team'[t] = team[t] \/ (team[t] = NoRow /\ team'[t].org = OrgOf(c))
    <3> PICK u \in Team \ Teams, s \in Slug :
          team' = [team EXCEPT ![u] = [slug |-> s, org |-> OrgOf(c), by |-> "api"]]
      BY <1>2 DEF CreateTeam
    <3>1. team[u] = NoRow
      BY DEF Teams
    <3>2. team'[u] = [slug |-> s, org |-> OrgOf(c), by |-> "api"]
      BY DEF TenancyTypeOK
    <3>3. team'[u].org = OrgOf(c)
      BY <3>2
    <3>4. \A t \in Team \ {u} : team'[t] = team[t]
      BY DEF TenancyTypeOK
    <3>5. QED
      BY <3>1, <3>3, <3>4
  <2>2. QED
    BY <1>2, <2>1 DEF CreateTeam, Isolated
<1>3. CASE CreateApiKey(c)
  <2>1. \A k \in Key : key'[k] = key[k] \/ (key[k] = NoKey /\ key'[k].team = TeamOf(c))
    <3> PICK j \in Key \ Keys, r \in Role, e \in Time \cup {Never} :
          key' = [key EXCEPT ![j] = NewKey(TeamOf(c), r, e)]
      BY <1>3 DEF CreateApiKey
    <3>1. key[j] = NoKey
      BY DEF Keys
    <3>2. key'[j] = NewKey(TeamOf(c), r, e)
      BY DEF TenancyTypeOK
    <3>3. key'[j].team = TeamOf(c)
      BY <3>2 DEF NewKey
    <3>4. \A k \in Key \ {j} : key'[k] = key[k]
      BY DEF TenancyTypeOK
    <3>5. QED
      BY <3>1, <3>3, <3>4
  <2>2. QED
    BY <1>3, <2>1 DEF CreateApiKey, Isolated
<1>4. CASE RevokeApiKey(c)
  <2> PICK j \in Keys : key[j].team = TeamOf(c) /\ key' = [key EXCEPT ![j] = Revoked(@)]
    BY <1>4 DEF RevokeApiKey
  <2>1. Revoked(key[j]).team = key[j].team
    BY RowsOfTables, ChangedRowsTyped DEF TenancyTypeOK
  <2>2. \A k \in Key : \/ key'[k] = key[k]
                       \/ key[k].team = TeamOf(c) /\ key'[k].team = TeamOf(c)
    BY <2>1 DEF TenancyTypeOK
  <2>3. QED
    BY <1>4, <2>2 DEF RevokeApiKey, Isolated
<1>5. QED
  BY <1>1, <1>2, <1>3, <1>4

LEMMA OthersIsolated ==
  ASSUME TenancyTypeOK, NEW c, org' = org, team' = team,
         key' = key \/ \E k \in Key : UpdateLastUsed(k)
  PROVE  Isolated(c)
<1>1. \A k \in Key : key'[k] = key[k] \/ (k \in touch /\ key'[k] = [key[k] EXCEPT !.used = TRUE])
  <2>1. ASSUME NEW j \in Key, UpdateLastUsed(j), NEW k \in Key
        PROVE  key'[k] = key[k] \/ (k \in touch /\ key'[k] = [key[k] EXCEPT !.used = TRUE])
    <3>1. j \in touch /\ key' = [key EXCEPT ![j] = [key[j] EXCEPT !.used = TRUE]]
      BY <2>1 DEF UpdateLastUsed
    <3>2. QED
      BY <3>1 DEF TenancyTypeOK
  <2>2. QED
    BY <2>1
<1>2. QED
  BY <1>1 DEF Isolated

\* No call ever changes a row of another tenant, for any number of tenants
\* and of calls in progress.
THEOREM TenancyIsolated == TenancySpec => TenantIsolation
<1>1. ASSUME TenancyTypeOK, TenancyNext
      PROVE  \E c \in Caller \cup {"nobody"} : Isolated(c)
  <2>1. ASSUME NEW c \in Caller,
               \/ Bootstrap(c) \/ CreateOrganization(c) \/ CreateTeam(c)
               \/ CreateApiKey(c) \/ RevokeApiKey(c)
        PROVE  Isolated(c)
    BY <1>1, <2>1, BootstrapIsolated, AdminIsolated
  <2>2. ASSUME NEW c \in Caller,
               \/ \E k \in Key : Authenticate(c, k)
               \/ BootstrapChecks(c) \/ Return(c)
        PROVE  Isolated(c)
    BY <1>1, <2>2, OthersIsolated DEF Authenticate, BootstrapChecks, Return
  <2>3. ASSUME \/ \E k \in Key : UpdateLastUsed(k) \/ UpdateLost(k)
               \/ Tick
        PROVE  Isolated("nobody")
    <3>1. org' = org /\ team' = team /\ (key' = key \/ \E k \in Key : UpdateLastUsed(k))
      BY <2>3 DEF UpdateLastUsed, UpdateLost, Tick
    <3>2. QED
      BY <1>1, <3>1, OthersIsolated
  <2>4. QED
    BY <1>1, <2>1, <2>2, <2>3 DEF TenancyNext
<1>2. TenancyTypeOK /\ [TenancyNext]_tenancyVars
        => [\E c \in Caller \cup {"nobody"} : Isolated(c)]_tenancyVars
  BY <1>1
<1>3. QED
  BY <1>2, TenancyTyped, PTL DEF TenancySpec, TenantIsolation, Isolated

\* Once an organization exists and no call is past bootstrap's check any more,
\* bootstrap never makes anything again.
THEOREM TenancyBootstrapCloses == TenancySpec => BootstrapCloses
<1> DEFINE Closed == Orgs # {} /\ \A c \in Caller : call[c] # Boot
           Stays == /\ \A c \in Caller : call'[c] # Boot
                    /\ \A o \in Org : org'[o] # org[o] => org'[o].by = "api"
                    /\ \A t \in Team : team'[t] # team[t] => team'[t].by = "api"
<1>1. ASSUME TenancyTypeOK, TenancyNext, Closed
      PROVE  Stays
  <2>1. \A c \in Caller : ~Bootstrap(c) /\ ~BootstrapChecks(c)
    BY <1>1 DEF Bootstrap, BootstrapChecks
  <2>2. /\ Idle # Boot
        /\ \A k \in Key : [pc |-> "act", key |-> k] # Boot
    BY DEF Idle, Boot
  <2>3. \A c \in Caller : call'[c] # Boot
    BY <1>1, <2>1, <2>2 DEF TenancyNext, Become, Authenticate, CreateOrganization,
       CreateTeam, CreateApiKey, RevokeApiKey, Return, UpdateLastUsed, UpdateLost, Tick,
       TenancyTypeOK
  <2>4. \A o \in Org : org'[o] # org[o] => org'[o].by = "api"
    <3>1. org' = org \/ \E n \in Org, s \in Slug :
                          org' = [org EXCEPT ![n] = [slug |-> s, by |-> "api"]]
      BY <1>1, <2>1 DEF TenancyNext, Authenticate, CreateOrganization,
         CreateTeam, CreateApiKey, RevokeApiKey, Return, UpdateLastUsed, UpdateLost, Tick
    <3>2. ASSUME NEW n \in Org, NEW s \in Slug, NEW o \in Org, org'[o] # org[o],
                 org' = [org EXCEPT ![n] = [slug |-> s, by |-> "api"]]
          PROVE  org'[o].by = "api"
      <4>1. org'[o] = [slug |-> s, by |-> "api"]
        BY <1>1, <3>2 DEF TenancyTypeOK
      <4>2. QED
        BY <4>1
    <3>3. QED
      BY <3>1, <3>2
  <2>5. \A t \in Team : team'[t] # team[t] => team'[t].by = "api"
    <3>1. team' = team \/ \E n \in Team, s \in Slug, c \in Caller :
                 team' = [team EXCEPT ![n] = [slug |-> s, org |-> OrgOf(c), by |-> "api"]]
      BY <1>1, <2>1 DEF TenancyNext, Authenticate, CreateOrganization,
         CreateTeam, CreateApiKey, RevokeApiKey, Return, UpdateLastUsed, UpdateLost, Tick
    <3>2. ASSUME NEW n \in Team, NEW s \in Slug, NEW c \in Caller, NEW t \in Team,
                 team'[t] # team[t],
                 team' = [team EXCEPT ![n] = [slug |-> s, org |-> OrgOf(c), by |-> "api"]]
          PROVE  team'[t].by = "api"
      <4>1. team'[t] = [slug |-> s, org |-> OrgOf(c), by |-> "api"]
        BY <1>1, <3>2 DEF TenancyTypeOK
      <4>2. QED
        BY <4>1
    <3>3. QED
      BY <3>1, <3>2
  <2>6. QED
    BY <2>3, <2>4, <2>5
<1>2. TenancyTypeOK /\ [TenancyNext]_tenancyVars => [Closed => Stays]_tenancyVars
  BY <1>1
<1>3. QED
  BY <1>2, TenancyTyped, PTL DEF TenancySpec, BootstrapCloses
=============================================================================
