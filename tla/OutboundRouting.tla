-------------------------- MODULE OutboundRouting --------------------------
(***************************************************************************)
(* An outbound call, outbound.Service.Dial: the do-not-call list, the      *)
(* routing rules with the cache that the tenants of a process share        *)
(* (telephony.RoutingService), the caller's number (CLIPolicyService) and  *)
(* the row of the call, each a step of its own; and the requests that      *)
(* change rules and list while calls are being placed.                     *)
(* A rule matches a set of numbers: all ("any"), those with a prefix, none *)
(* (an unknown match type); what a time of day decides is an input of the  *)
(* step. Policies and phone numbers are inputs too.                        *)
(***************************************************************************)
EXTENDS Tenancy

CONSTANTS
    DialTenants,
    Rules,        \* ids of routing rules
    Priorities,   \* naturals; the smaller one wins
    Callees,      \* numbers to be called
    DncIds,       \* ids of do-not-call entries
    PhoneIds,     \* ids that policies name as caller's numbers
    Phones,       \* those of them that exist
    AreaPhones,   \* those of them with the area code of the callees
    Diallers,     \* goroutines that place calls
    MaxRuleEdits, \* bound: changes of rules and of the list
    MaxDials      \* bound: calls placed

ASSUME OutboundAssumption ==
    /\ Priorities \subseteq Nat
    /\ Phones \subseteq PhoneIds /\ AreaPhones \subseteq PhoneIds
    /\ MaxRuleEdits \in Nat /\ MaxDials \in Nat

VARIABLES
    rules,       \* routing_rules
    routeCache,  \* RoutingService.cache: tenant, rules, whether not expired
    dnc,         \* dnc_list
    cliCounter,  \* CLIPolicyService.counter, modulo the pools' sizes
    dials,       \* what each goroutine is doing
    ruleEdits, dialCount

outboundVars == <<rules, routeCache, dnc, cliCounter, dials, ruleEdits, dialCount>>

RuleRow == [tenant : DialTenants, priority : Priorities, matches : SUBSET Callees,
            isActive : BOOLEAN]
CacheEntry == [id : Rules, row : RuleRow]
DncRow == [tenant : DialTenants, number : Callees]
\* list: the rules the goroutine works with; banned: the callee has been on
\* the do-not-call list from the beginning (history).
Rest == [at |-> "idle", tenant |-> NoRow, callee |-> NoRow, list |-> {},
         rule |-> NoRow, cli |-> NoRow, banned |-> FALSE, failed |-> FALSE]

OutboundInit ==
    /\ rules = [r \in Rules |-> NoRow]
    /\ routeCache = [tenant |-> NoRow, list |-> {}, valid |-> FALSE]
    /\ dnc = [i \in DncIds |-> NoRow]
    /\ cliCounter = 0
    /\ dials = [g \in Diallers |-> Rest]
    /\ ruleEdits = 0 /\ dialCount = 0

RuleEdit == ruleEdits < MaxRuleEdits /\ ruleEdits' = ruleEdits + 1
requestVars == <<routeCache, cliCounter, dialCount>>

RuleCreate(t, r, p, set) ==
    /\ RuleEdit
    /\ rules[r] = NoRow
    /\ rules' = Inserted(rules, r, [tenant |-> t, priority |-> p, matches |-> set,
                                    isActive |-> TRUE])
    /\ UNCHANGED <<dnc, dials, requestVars>>
\* Update and Delete find a rule by its id alone; the cache is not told.
RuleUpdate(r, p, set, active) ==
    /\ RuleEdit
    /\ r \in Ids(rules)
    /\ rules' = Updated(rules, r, [rules[r] EXCEPT !.priority = p, !.matches = set,
                                                   !.isActive = active])
    /\ UNCHANGED <<dnc, dials, requestVars>>
RuleDelete(r) ==
    /\ RuleEdit
    /\ rules' = Deleted(rules, r)
    /\ UNCHANGED <<dnc, dials, requestVars>>

Listed(table, t, n) == \E i \in Ids(table) : table[i] = [tenant |-> t, number |-> n]

\* A number can be entered more than once.
AddEntry(t, i, n) ==
    /\ RuleEdit
    /\ dnc[i] = NoRow
    /\ dnc' = Inserted(dnc, i, [tenant |-> t, number |-> n])
    /\ UNCHANGED <<rules, dials, requestVars>>
RemoveEntry(i) ==
    /\ RuleEdit
    /\ i \in Ids(dnc)
    /\ dnc' = Deleted(dnc, i)
    /\ dials' = [g \in Diallers |->
          [dials[g] EXCEPT !.banned = @ /\ Listed(dnc', dials[g].tenant, dials[g].callee)]]
    /\ UNCHANGED <<rules, requestVars>>

DialBegin(g, t, n) ==
    /\ dials[g].at = "idle"
    /\ dialCount < MaxDials /\ dialCount' = dialCount + 1
    /\ dials' = [dials EXCEPT ![g] = [Rest EXCEPT !.at = "dnc", !.tenant = t,
                     !.callee = n, !.banned = Listed(dnc, t, n)]]
    /\ UNCHANGED <<rules, routeCache, dnc, cliCounter, ruleEdits>>

Step(g, new) == dials' = [dials EXCEPT ![g] = new]
rest == <<rules, dnc, ruleEdits, dialCount>>

\* Mutant: the list is asked for the number alone, of an arbitrary tenant.
MutantCheckDNC(g) ==
    /\ dials[g].at = "dnc"
    /\ Step(g, IF \A t \in DialTenants : Listed(dnc, t, dials[g].callee) THEN Rest
               ELSE [dials[g] EXCEPT !.at = "cache"])
    /\ UNCHANGED <<rest, routeCache, cliCounter>>

CheckDNC(g) ==
    /\ dials[g].at = "dnc"
    /\ Step(g, IF Listed(dnc, dials[g].tenant, dials[g].callee) THEN Rest
               ELSE [dials[g] EXCEPT !.at = "cache"])
    /\ UNCHANGED <<rest, routeCache, cliCounter>>
\* GetByNumber takes every error for a number that is not listed.
CheckDNCFails(g) ==
    /\ dials[g].at = "dnc"
    /\ Step(g, [dials[g] EXCEPT !.at = "cache", !.failed = TRUE])
    /\ UNCHANGED <<rest, routeCache, cliCounter>>

\* getCachedRules: under the read lock,
GetCachedRules(g) ==
    /\ dials[g].at = "cache"
    /\ Step(g, IF routeCache.tenant = dials[g].tenant /\ routeCache.valid
               THEN [dials[g] EXCEPT !.at = "match", !.list = routeCache.list]
               ELSE [dials[g] EXCEPT !.at = "list"])
    /\ UNCHANGED <<rest, routeCache, cliCounter>>
\* without a lock the query, which may fail,
ListActive(t) == {[id |-> r, row |-> rules[r]] :
                      r \in {q \in Ids(rules) : rules[q].tenant = t /\ rules[q].isActive}}
QueryRules(g) ==
    /\ dials[g].at = "list"
    /\ Step(g, [dials[g] EXCEPT !.at = "store", !.list = ListActive(dials[g].tenant)])
    /\ UNCHANGED <<rest, routeCache, cliCounter>>
QueryRulesFails(g) ==
    /\ dials[g].at = "list"
    /\ Step(g, Rest)
    /\ UNCHANGED <<rest, routeCache, cliCounter>>
\* and under the write lock all three fields.
StoreRules(g) ==
    /\ dials[g].at = "store"
    /\ routeCache' = [tenant |-> dials[g].tenant, list |-> dials[g].list, valid |-> TRUE]
    /\ Step(g, [dials[g] EXCEPT !.at = "match"])
    /\ UNCHANGED <<rest, cliCounter>>

\* routingCacheTTL passes.
CacheExpires ==
    /\ routeCache.valid
    /\ routeCache' = [routeCache EXCEPT !.valid = FALSE]
    /\ UNCHANGED <<rest, cliCounter, dials>>

\* MatchRule: among the rules that match, one of the smallest priority. The
\* order of rules of the same priority is the database's.
Best(list, n, e) ==
    n \in e.row.matches /\ \A f \in list : n \in f.row.matches => e.row.priority <= f.row.priority

\* Mutant: the rules are looked up in the cache again, after its lock was released.
MutantMatchRule(g) ==
    /\ dials[g].at = "match"
    /\ LET d == dials[g]
           best == {e \in routeCache.list : Best(routeCache.list, d.callee, e)}
       IN  IF best = {} THEN Step(g, Rest)
           ELSE \E e \in best : Step(g, [d EXCEPT !.at = "cli", !.rule = e])
    /\ UNCHANGED <<rest, routeCache, cliCounter>>

\* Without a match Dial ends with ErrNoMatchingRoute.
MatchRule(g) ==
    /\ dials[g].at = "match"
    /\ LET d == dials[g]
           best == {e \in d.list : Best(d.list, d.callee, e)}
       IN  IF best = {} THEN Step(g, Rest)
           ELSE \E e \in best : Step(g, [d EXCEPT !.at = "cli", !.rule = e])
    /\ UNCHANGED <<rest, routeCache, cliCounter>>

PoolSize == 2   \* the pools examined name two ids, in any order
\* SelectCLI: the id a policy of the strategy yields. Fixed and the pools name
\* ids that may not exist; only match_area leaves those out.
SelectCLI(strategy, numbers) ==
    CASE strategy = "fixed"       -> {numbers[1]}
      [] strategy = "round_robin" -> {numbers[1 + ((cliCounter + 1) % PoolSize)]}
      [] strategy = "random"      -> {numbers[1], numbers[2]}
      [] strategy = "match_area"  ->
           LET known == {i \in 1..PoolSize : numbers[i] \in Phones}
               area  == {i \in known : numbers[i] \in AreaPhones}
               first(set) == numbers[CHOOSE i \in set : \A j \in set : i <= j]
           IN  IF known = {} THEN {} ELSE {first(IF area # {} THEN area ELSE known)}

\* Mutant: a number that is not found is not noticed.
MutantCliChosen(id) == TRUE

\* Dial goes on only with a number that was found.
CliChosen(id) == id \in Phones

ChooseCLI(g, strategy, numbers) ==
    /\ dials[g].at = "cli"
    /\ cliCounter' = IF strategy = "round_robin" THEN (cliCounter + 1) % PoolSize ELSE cliCounter
    /\ \/ \E id \in SelectCLI(strategy, numbers) :
             Step(g, IF CliChosen(id) THEN [dials[g] EXCEPT !.at = "create", !.cli = id]
                     ELSE Rest)
       \/ SelectCLI(strategy, numbers) = {} /\ Step(g, Rest)
    /\ UNCHANGED <<rest, routeCache>>
\* No policy for the tenant, or a policy without a number.
NoPolicy(g) ==
    /\ dials[g].at = "cli"
    /\ Step(g, Rest)
    /\ UNCHANGED <<rest, routeCache, cliCounter>>

\* CreateOutboundCall; the goroutine's result stays until its next call.
CreateCall(g) ==
    /\ dials[g].at = "create"
    /\ Step(g, [dials[g] EXCEPT !.at = "created"])
    /\ UNCHANGED <<rest, routeCache, cliCounter>>
Answered(g) ==
    /\ dials[g].at = "created"
    /\ Step(g, Rest)
    /\ UNCHANGED <<rest, routeCache, cliCounter>>

DialStep(g) ==
    \/ CheckDNC(g) \/ CheckDNCFails(g)
    \/ GetCachedRules(g) \/ QueryRules(g) \/ QueryRulesFails(g) \/ StoreRules(g)
    \/ MatchRule(g)
    \/ \E strategy \in {"fixed", "round_robin", "random", "match_area"},
          a \in PhoneIds, b \in PhoneIds : ChooseCLI(g, strategy, <<a, b>>)
    \/ NoPolicy(g) \/ CreateCall(g) \/ Answered(g)

OutboundNext ==
    \/ \E r \in Rules, p \in Priorities, set \in {{}, Callees} :
          \/ \E t \in DialTenants : RuleCreate(t, r, p, set)
          \/ \E active \in BOOLEAN : RuleUpdate(r, p, set, active)
    \/ \E r \in Rules : r \in Ids(rules) /\ RuleDelete(r)
    \/ \E i \in DncIds : RemoveEntry(i) \/ \E t \in DialTenants, n \in Callees : AddEntry(t, i, n)
    \/ \E g \in Diallers : DialStep(g) \/ \E t \in DialTenants, n \in Callees : DialBegin(g, t, n)
    \/ CacheExpires

OutboundSpec == OutboundInit /\ [][OutboundNext]_outboundVars

-----------------------------------------------------------------------------
OutboundTypeOK ==
    /\ rules \in [Rules -> RuleRow \cup {NoRow}]
    /\ routeCache.list \subseteq CacheEntry
    /\ dnc \in [DncIds -> DncRow \cup {NoRow}]
    /\ cliCounter \in 0..(PoolSize - 1)
    /\ \A g \in Diallers :
          /\ dials[g].list \subseteq CacheEntry
          /\ dials[g].rule \in CacheEntry \cup {NoRow}
          /\ dials[g].cli \in Phones \cup {NoRow}
    /\ ruleEdits \in 0..MaxRuleEdits /\ dialCount \in 0..MaxDials

\* A call is routed by a rule of its own tenant, although one cache entry
\* serves all tenants and others refill it between the two locks.
RoutedByOwnRule ==
    \A g \in Diallers : dials[g].rule # NoRow => dials[g].rule.row.tenant = dials[g].tenant

\* A number that is on its tenant's do-not-call list from the beginning of a
\* call to its end is not called, whoever edits the list meanwhile; only an
\* error of the query, which counts as "not listed", lets it through.
ListedNotCalled ==
    \A g \in Diallers : dials[g].at = "created" /\ ~dials[g].failed => ~dials[g].banned
=============================================================================
