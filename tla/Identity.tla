------------------------------ MODULE Identity ------------------------------
(***************************************************************************)
(* Tenants and their settings, users, agents, skill groups and members     *)
(* (TenantService, UserService, AgentService, SkillGroupService and the    *)
(* settings' handler). Each creation looks first and inserts later. The    *)
(* lookups of tenants, users, agents and groups drop their error, so a     *)
(* lookup that fails counts as "not there": it turns nobody away for sure, *)
(* and the key of the table decides. The limit of agents has no key.       *)
(***************************************************************************)
EXTENDS Tenancy

CONSTANTS
    Officers,       \* requests in progress
    UserIds, UserNames,
    GroupIds, GroupCodes,
    DefaultSeats,   \* max_agents of new settings
    MaxSeats        \* bound: the largest max_agents a body has

UserRow == [tenant : Tenants, name : UserNames]
GroupRow == [tenant : Tenants, code : GroupCodes]

ASSUME IdentityAssumption ==
    /\ IsFiniteSet(Officers) /\ IsFiniteSet(UserIds)
    /\ Officers # {}
    /\ MaxSeats \in Nat /\ DefaultSeats \in 0..MaxSeats
    /\ NoRow \notin Tenants \cup 0..MaxSeats \cup UserRow \cup GroupRow

VARIABLES
    tenantRows,     \* tenants, named by their code
    seats,          \* max_agents in the settings of each tenant
    users,
    agentOf,        \* the tenant a user is an agent of
    groups,
    members,        \* <<group, user>>
    officer,        \* what each request is doing
    mostSeats,      \* the largest limit each tenant had (history)
    halfMade        \* tenants whose creation stopped before the settings (history)

tables == <<tenantRows, seats, users, agentOf, groups, members>>
identityHistory == <<mostSeats, halfMade>>
identityVars == <<tables, officer, identityHistory>>

Free == [at |-> "free"]
Errands ==
    [at : {"tenant", "defaults"}, tenant : Tenants]
    \cup [at : {"user"}, id : UserIds, tenant : Tenants, name : UserNames]
    \cup [at : {"settings", "agent"}, id : UserIds, tenant : Tenants]
    \cup [at : {"count"}, id : UserIds, tenant : Tenants, limit : 0..MaxSeats]
    \cup [at : {"group"}, id : GroupIds, tenant : Tenants, code : GroupCodes]
    \cup [at : {"member"}, id : UserIds, group : GroupIds]

AgentsOf(t) == {u \in UserIds : agentOf[u] = t}

IdentityInit ==
    /\ tenantRows = {}
    /\ seats = [t \in Tenants |-> NoRow]
    /\ users = [u \in UserIds |-> NoRow]
    /\ agentOf = [u \in UserIds |-> NoRow]
    /\ groups = [g \in GroupIds |-> NoRow]
    /\ members = {}
    /\ officer = [o \in Officers |-> Free]
    /\ mostSeats = [t \in Tenants |-> 0]
    /\ halfMade = {}

Does(o, at) == officer[o].at = at
Becomes(o, errand) == officer' = [officer EXCEPT ![o] = errand]

\* Request o starts an errand, or turns to its next statement.
Begins(o, errand) == Does(o, "free") /\ Becomes(o, errand) /\ UNCHANGED <<tables, identityHistory>>
Proceeds(o, errand) == Becomes(o, errand) /\ UNCHANGED <<tables, identityHistory>>

SetSeats(t, n) ==
    /\ seats' = [seats EXCEPT ![t] = n]
    /\ mostSeats' = [mostSeats EXCEPT ![t] = IF n > @ THEN n ELSE @]

-----------------------------------------------------------------------------
\* TenantService.Create: the tenant, then its settings, not in one transaction.

CreateTenant(o, t) == Begins(o, [at |-> "tenant", tenant |-> t])

\* The code is unique.
InsertTenant(o) ==
    LET t == officer[o].tenant
    IN  /\ Does(o, "tenant")
        /\ \/ /\ t \notin tenantRows
              /\ tenantRows' = tenantRows \cup {t}
              /\ Becomes(o, [at |-> "defaults", tenant |-> t])
           \/ t \in tenantRows /\ Becomes(o, Free) /\ UNCHANGED tenantRows
        /\ UNCHANGED <<seats, users, agentOf, groups, members, identityHistory>>

InsertDefaults(o) ==
    /\ Does(o, "defaults")
    /\ SetSeats(officer[o].tenant, DefaultSeats)
    /\ Becomes(o, Free)
    /\ UNCHANGED <<tenantRows, users, agentOf, groups, members, halfMade>>

\* The settings' handler stores the body, with 0 for what it does not give.
UpdateSettings(t, n) ==
    /\ t \in tenantRows
    /\ SetSeats(t, n)
    /\ UNCHANGED <<tenantRows, users, agentOf, groups, members, officer, halfMade>>

-----------------------------------------------------------------------------
CreateUser(o, t, u, name) ==
    /\ t \in tenantRows /\ u \notin Ids(users)
    /\ \A p \in Officers : Does(p, "user") => officer[p].id # u
    /\ Begins(o, [at |-> "user", id |-> u, tenant |-> t, name |-> name])

\* A name is unique in its tenant.
InsertUser(o) ==
    LET e == officer[o]
        row == [tenant |-> e.tenant, name |-> e.name]
    IN  /\ Does(o, "user")
        /\ users' = IF \E u \in UserIds : users[u] = row THEN users ELSE Inserted(users, e.id, row)
        /\ Becomes(o, Free)
        /\ UNCHANGED <<tenantRows, seats, agentOf, groups, members, identityHistory>>

-----------------------------------------------------------------------------
\* AgentService.Create, for a user of any tenant.
CreateAgent(o, t, u) ==
    /\ t \in tenantRows
    /\ Begins(o, [at |-> "settings", id |-> u, tenant |-> t])

\* Mutant: a tenant without settings has no limit.
MutantReadSettings(o) ==
    LET e == officer[o]
    IN  /\ Does(o, "settings")
        /\ Proceeds(o, [at |-> "count", id |-> e.id, tenant |-> e.tenant,
                        limit |-> IF seats[e.tenant] = NoRow THEN MaxSeats ELSE seats[e.tenant]])

\* Settings that are not there are an error.
ReadSettings(o) ==
    LET e == officer[o]
    IN  /\ Does(o, "settings")
        /\ Proceeds(o, IF seats[e.tenant] = NoRow THEN Free
                       ELSE [at |-> "count", id |-> e.id, tenant |-> e.tenant,
                             limit |-> seats[e.tenant]])

\* Mutant: the last seat is given twice.
MutantCountAgents(o) ==
    LET e == officer[o]
    IN  /\ Does(o, "count")
        /\ Proceeds(o, IF Cardinality(AgentsOf(e.tenant)) > e.limit THEN Free
                       ELSE [at |-> "agent", id |-> e.id, tenant |-> e.tenant])

CountAgents(o) ==
    LET e == officer[o]
    IN  /\ Does(o, "count")
        /\ Proceeds(o, IF Cardinality(AgentsOf(e.tenant)) >= e.limit THEN Free
                       ELSE [at |-> "agent", id |-> e.id, tenant |-> e.tenant])

\* A user is an agent once, and there must be the user.
InsertAgent(o) ==
    LET e == officer[o]
    IN  /\ Does(o, "agent")
        /\ agentOf' = IF e.id \in Ids(users) \ Ids(agentOf)
                      THEN Inserted(agentOf, e.id, e.tenant) ELSE agentOf
        /\ Becomes(o, Free)
        /\ UNCHANGED <<tenantRows, seats, users, groups, members, identityHistory>>

-----------------------------------------------------------------------------
CreateGroup(o, t, g, code) ==
    /\ t \in tenantRows /\ g \notin Ids(groups)
    /\ \A p \in Officers : Does(p, "group") => officer[p].id # g
    /\ Begins(o, [at |-> "group", id |-> g, tenant |-> t, code |-> code])

InsertGroup(o) ==
    LET e == officer[o]
        row == [tenant |-> e.tenant, code |-> e.code]
    IN  /\ Does(o, "group")
        /\ groups' = IF \E g \in GroupIds : groups[g] = row THEN groups
                     ELSE Inserted(groups, e.id, row)
        /\ Becomes(o, Free)
        /\ UNCHANGED <<tenantRows, seats, users, agentOf, members, identityHistory>>

\* AddMember, with any user and any group. This lookup's error is returned.
AddMember(o, g, u) ==
    /\ <<g, u>> \notin members
    /\ Begins(o, [at |-> "member", id |-> u, group |-> g])

\* Mutant: a member needs no user.
MutantInsertMember(o) ==
    LET e == officer[o]
    IN  /\ Does(o, "member")
        /\ members' = IF e.group \in Ids(groups) THEN members \cup {<<e.group, e.id>>} ELSE members
        /\ Becomes(o, Free)
        /\ UNCHANGED <<tenantRows, seats, users, agentOf, groups, identityHistory>>

InsertMember(o) ==
    LET e == officer[o]
    IN  /\ Does(o, "member")
        /\ members' = IF e.group \in Ids(groups) /\ e.id \in Ids(users)
                      THEN members \cup {<<e.group, e.id>>} ELSE members
        /\ Becomes(o, Free)
        /\ UNCHANGED <<tenantRows, seats, users, agentOf, groups, identityHistory>>

RemoveMember(g, u) ==
    /\ <<g, u>> \in members
    /\ members' = members \ {<<g, u>>}
    /\ UNCHANGED <<tenantRows, seats, users, agentOf, groups, officer, identityHistory>>

\* A statement fails, or the server stops: a tenant that is in stays without
\* settings, and its code is taken when the creation is tried again.
ErrandFails(o) ==
    /\ officer[o] # Free
    /\ halfMade' = IF Does(o, "defaults") THEN halfMade \cup {officer[o].tenant} ELSE halfMade
    /\ Becomes(o, Free)
    /\ UNCHANGED <<tables, mostSeats>>

IdentityNext ==
    \/ \E o \in Officers :
          \/ InsertTenant(o) \/ InsertDefaults(o) \/ InsertUser(o) \/ ReadSettings(o)
          \/ CountAgents(o) \/ InsertAgent(o) \/ InsertGroup(o) \/ InsertMember(o)
          \/ ErrandFails(o)
          \/ \E t \in Tenants :
                \/ CreateTenant(o, t)
                \/ \E u \in UserIds : \/ CreateAgent(o, t, u)
                                      \/ \E n \in UserNames : CreateUser(o, t, u, n)
                \/ \E g \in GroupIds, c \in GroupCodes : CreateGroup(o, t, g, c)
          \/ \E g \in GroupIds, u \in UserIds : AddMember(o, g, u)
    \/ \E t \in Tenants, n \in 0..MaxSeats : UpdateSettings(t, n)
    \/ \E g \in GroupIds, u \in UserIds : RemoveMember(g, u)

IdentitySpec == IdentityInit /\ [][IdentityNext]_identityVars

-----------------------------------------------------------------------------
\* Type correctness.
IdentityTypeOK ==
    /\ tenantRows \subseteq Tenants /\ halfMade \subseteq tenantRows
    /\ \A t \in Tenants : seats[t] \in 0..mostSeats[t] \cup {NoRow} /\ mostSeats[t] \in 0..MaxSeats
    /\ \A u \in UserIds : /\ users[u] = NoRow \/ users[u] \in [tenant : tenantRows, name : UserNames]
                          /\ agentOf[u] \in tenantRows \cup {NoRow}
    /\ \A g \in GroupIds : groups[g] = NoRow \/ groups[g] \in [tenant : tenantRows, code : GroupCodes]
    /\ members \subseteq Ids(groups) \X Ids(users)
    /\ \A o \in Officers : officer[o] = Free \/ officer[o] \in Errands

\* A tenant has never more agents than its largest limit allows and the
\* requests of the moment, but for one, add: the agents are counted before
\* the row is in. The bound is reached.
SeatsBounded ==
    \A t \in Tenants : AgentsOf(t) # {} =>
        Cardinality(AgentsOf(t)) <= mostSeats[t] + Cardinality(Officers) - 1

\* A tenant without settings is one whose creation stopped half way or is at
\* the settings now; it gets no agents.
TenantsComplete ==
    \A t \in tenantRows : seats[t] = NoRow =>
        /\ t \in halfMade \/ \E o \in Officers : Does(o, "defaults") /\ officer[o].tenant = t
        /\ AgentsOf(t) = {}
=============================================================================
