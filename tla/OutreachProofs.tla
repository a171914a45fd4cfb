--------------------------- MODULE OutreachProofs ---------------------------
(***************************************************************************)
(* Proofs about the components through which the system reaches out:       *)
(* webhooks, callbacks, outbound calls, trunks and the dialer.             *)
(***************************************************************************)
EXTENDS MCServices, FiniteSetTheorems, WellFoundedInduction, TLAPS

(* Webhooks. For each delivery: what its goroutine, its row of the log and   *)
(* the history have to do with each other, and with the configuration.       *)
HookJob == [at : {"none", "waiting", "posting", "logging", "ended"},
            tenant : HookTenants \cup {NoRow}, type : HookEvents \cup {NoRow},
            cfg : HookRow \cup {NoRow}, attempt : 0..MaxRetry,
            answer : Answers \cup {"none"}]

HookShape ==
    /\ hooks \in [Hooks -> HookRow \cup {NoRow}]
    /\ raised \in 0..MaxRaised
    /\ jobs \in [Deliveries -> HookJob]
    /\ sem \in 0..SemSize
    /\ hookLog \in [Deliveries -> DeliveryRow \cup {NoRow}]
    /\ owed \subseteq Deliveries /\ handled \subseteq Deliveries /\ excused \subseteq Deliveries
    /\ posts \in [Deliveries -> Nat]
    /\ hookEdits \in 0..MaxHookEdits /\ hookFaults \in 0..MaxHookFaults

JobUnderWay(d) ==
    /\ jobs[d].cfg \in HookRow /\ jobs[d].type \in HookEvents
    /\ jobs[d].cfg.tenant = jobs[d].tenant
    /\ hooks[d[2]] # NoRow => hooks[d[2]].tenant = jobs[d].tenant

DeliveryOK(d) ==
    /\ jobs[d].at # "none" => d[1] <= raised /\ d \in owed
    /\ jobs[d].at \in {"waiting", "posting", "logging"} => JobUnderWay(d)
    /\ jobs[d].at \in {"none", "waiting"} =>
          posts[d] = 0 /\ jobs[d].attempt = 0 /\ jobs[d].answer = "none"
    /\ jobs[d].at = "posting" =>
          /\ jobs[d].attempt = posts[d] /\ jobs[d].attempt < MaxRetry
          /\ jobs[d].cfg.url = "bad" => posts[d] = 0 /\ jobs[d].answer = "none"
    /\ jobs[d].at = "logging" =>
          /\ jobs[d].answer = "ok" => d \in handled
          /\ jobs[d].attempt = posts[d] \/ (jobs[d].attempt = MaxRetry /\ posts[d] = 0)
    /\ hookLog[d] # NoRow =>
          /\ jobs[d].at = "ended"
          /\ hookLog[d].success => d \in handled
          /\ hookLog[d].attempts = posts[d] \/ (hookLog[d].attempts = MaxRetry /\ posts[d] = 0)
          /\ hooks[d[2]] # NoRow => hooks[d[2]].tenant = hookLog[d].tenant
    /\ d \in owed =>
          \/ d \in handled \/ d \in excused
          \/ jobs[d].at \in {"waiting", "posting", "logging"}
          \/ hookLog[d] # NoRow /\ ~hookLog[d].success

TokenHolders == {d \in Deliveries : jobs[d].at \in {"posting", "logging"}}

HookInv ==
    /\ HookShape
    /\ \A d \in Deliveries : DeliveryOK(d)
    /\ IsFiniteSet(TokenHolders) /\ sem = Cardinality(TokenHolders)

LEMMA HookFacts ==
    ASSUME HookInv
    PROVE  /\ hooks \in [Hooks -> HookRow \cup {NoRow}]
           /\ jobs \in [Deliveries -> HookJob]
           /\ hookLog \in [Deliveries -> DeliveryRow \cup {NoRow}]
           /\ posts \in [Deliveries -> Nat]
           /\ sem \in Nat /\ raised \in Nat /\ MaxRetry \in Nat /\ MaxRaised \in Nat
           /\ NoRow \notin HookRow /\ NoRow \notin DeliveryRow
           /\ \A d \in Deliveries : d[1] \in Nat /\ d[2] \in Hooks
BY WebhookAssumption DEF HookInv, HookShape, Deliveries

(* The goroutine that is started, field by field.                           *)
LEMMA NewJobIs ==
    ASSUME NEW t, NEW e, NEW cfg, NEW job, job = NewJob(t, e, cfg)
    PROVE  job = [at |-> "waiting", tenant |-> t, type |-> e, cfg |-> cfg,
                  attempt |-> 0, answer |-> "none"]
BY DEF NewJob, NoJob

(* A step that touches one delivery leaves the others in order.              *)
LEMMA OneDelivery ==
    ASSUME HookInv, NEW e \in Deliveries, UNCHANGED <<hooks, raised, owed>>,
           \A d \in Deliveries \ {e} :
                /\ jobs'[d] = jobs[d] /\ hookLog'[d] = hookLog[d] /\ posts'[d] = posts[d],
           handled \subseteq handled', handled' \subseteq handled \cup {e},
           excused \subseteq excused',
           DeliveryOK(e)'
    PROVE  \A d \in Deliveries : DeliveryOK(d)'
<1> SUFFICES ASSUME NEW d \in Deliveries, d # e PROVE DeliveryOK(d)'
    OBVIOUS
<1>1. DeliveryOK(d)
    BY DEF HookInv
<1> QED
    BY <1>1 DEF DeliveryOK, JobUnderWay

(* The tokens follow the goroutines that hold one.                           *)
LEMMA TokensFollow ==
    ASSUME HookInv, NEW e \in Deliveries,
           \A d \in Deliveries \ {e} : jobs'[d] = jobs[d],
           \/ /\ jobs[e].at \in {"posting", "logging"} <=> jobs'[e].at \in {"posting", "logging"}
              /\ sem' = sem
           \/ /\ jobs[e].at \notin {"posting", "logging"} /\ jobs'[e].at \in {"posting", "logging"}
              /\ sem' = sem + 1
           \/ /\ jobs[e].at \in {"posting", "logging"} /\ jobs'[e].at \notin {"posting", "logging"}
              /\ sem' = sem - 1
    PROVE  /\ IsFiniteSet(TokenHolders') /\ sem' = Cardinality(TokenHolders')
           /\ sem' \in Nat
<1>1. IsFiniteSet(TokenHolders) /\ sem = Cardinality(TokenHolders) /\ sem \in Nat
    BY HookFacts DEF HookInv
<1>2. CASE sem' = sem
           /\ (jobs[e].at \in {"posting", "logging"} <=> jobs'[e].at \in {"posting", "logging"})
    <2>1. TokenHolders' = TokenHolders
        BY <1>2 DEF TokenHolders
    <2> QED
        BY <1>1, <1>2, <2>1
<1>3. CASE /\ jobs[e].at \notin {"posting", "logging"} /\ jobs'[e].at \in {"posting", "logging"}
           /\ sem' = sem + 1
    <2>1. TokenHolders' = TokenHolders \cup {e} /\ e \notin TokenHolders
        BY <1>3 DEF TokenHolders
    <2> QED
        BY <1>1, <1>3, <2>1, FS_AddElement
<1>4. CASE /\ jobs[e].at \in {"posting", "logging"} /\ jobs'[e].at \notin {"posting", "logging"}
           /\ sem' = sem - 1
    <2>1. TokenHolders' = TokenHolders \ {e} /\ e \in TokenHolders
        BY <1>4 DEF TokenHolders
    <2>2. IsFiniteSet(TokenHolders') /\ Cardinality(TokenHolders') = sem - 1
        BY <1>1, <2>1, FS_RemoveElement
    <2> QED
        BY <1>4, <2>2, FS_CardinalityType
<1> QED
    BY <1>2, <1>3, <1>4

(* Every step of the webhooks preserves the invariant.                       *)
LEMMA NextHook == HookInv /\ [WebhookNext]_webhookVars => HookInv'
<1> SUFFICES ASSUME HookInv, [WebhookNext]_webhookVars PROVE HookInv'
    OBVIOUS
<1>0. HookShape /\ IsFiniteSet(TokenHolders) /\ sem = Cardinality(TokenHolders)
    BY DEF HookInv
<1> USE HookFacts
<1>1. ASSUME NEW t \in HookTenants, NEW h \in Hooks, NEW form \in HookForms, HookCreate(t, h, form)
      PROVE  HookInv'
    <2>1. HookOf(t, form) \in HookRow /\ HookOf(t, form).tenant = t
        BY WebhookAssumption DEF HookOf, HookRow
    <2>2. HookShape'
        BY <1>1, <1>0, <2>1, WebhookAssumption DEF HookCreate, HookShape, Inserted, deliveryVars, HookEdit
    <2>3. ASSUME NEW d \in Deliveries PROVE DeliveryOK(d)'
        <3>1. DeliveryOK(d)
            BY DEF HookInv
        <3>2. CASE d[2] = h
            <4>1. jobs[d].at = "none"
                BY <1>1, <3>1, <3>2 DEF HookCreate, DeliveryOK
            <4> QED
                BY <1>1, <3>1, <4>1 DEF HookCreate, DeliveryOK, deliveryVars
        <3>3. CASE d[2] # h
            <4>1. hooks'[d[2]] = hooks[d[2]]
                BY <1>1, <3>3 DEF HookCreate, Inserted
            <4> QED
                BY <1>1, <3>1, <4>1 DEF HookCreate, DeliveryOK, JobUnderWay, deliveryVars
        <3> QED
            BY <3>2, <3>3
    <2>4. TokenHolders' = TokenHolders /\ sem' = sem
        BY <1>1 DEF HookCreate, TokenHolders, deliveryVars
    <2> QED
        BY <1>0, <2>2, <2>3, <2>4 DEF HookInv
<1>2. ASSUME NEW t \in HookTenants, NEW h \in Hooks,
             \/ \E form \in HookForms : HookUpdate(t, h, form)
             \/ HookDelete(t, h)
      PROVE  HookInv'
    <2>1. hooks[h] \in HookRow
        BY <1>2 DEF HookUpdate, HookDelete, Owns, Ids
    <2>2. /\ hooks' \in [Hooks -> HookRow \cup {NoRow}]
          /\ \A g \in Hooks : hooks'[g] # NoRow => hooks[g] # NoRow /\ hooks'[g].tenant = hooks[g].tenant
        <3>1. ASSUME NEW form \in HookForms, HookUpdate(t, h, form)
              PROVE  /\ hooks' = [hooks EXCEPT ![h] = HookOf(hooks[h].tenant, form)]
                     /\ HookOf(hooks[h].tenant, form) \in HookRow
                     /\ HookOf(hooks[h].tenant, form).tenant = hooks[h].tenant
            BY <2>1, <3>1, WebhookAssumption DEF HookUpdate, Updated, HookOf, HookRow
        <3>2. CASE HookDelete(t, h)
            BY <3>2 DEF HookDelete, Deleted
        <3>3. CASE \E form \in HookForms : HookUpdate(t, h, form)
            BY <2>1, <3>1, <3>3
        <3> QED
            BY <1>2, <3>2, <3>3
    <2>3. UNCHANGED deliveryVars /\ hookEdits' \in 0..MaxHookEdits
        BY <1>2, <1>0, WebhookAssumption DEF HookUpdate, HookDelete, HookEdit, HookShape
    <2>4. HookShape'
        BY <2>2, <2>3, <1>0 DEF HookShape, deliveryVars
    <2>5. ASSUME NEW d \in Deliveries PROVE DeliveryOK(d)'
        <3>1. DeliveryOK(d) /\ d[2] \in Hooks
            BY DEF HookInv
        <3> QED
            BY <3>1, <2>2, <2>3 DEF DeliveryOK, JobUnderWay, deliveryVars
    <2>6. TokenHolders' = TokenHolders /\ sem' = sem
        BY <2>3 DEF TokenHolders, deliveryVars
    <2> QED
        BY <1>0, <2>4, <2>5, <2>6 DEF HookInv
<1>d. ASSUME NEW t \in HookTenants, NEW e \in HookEvents, NEW d \in DueNow(t, e)
      PROVE  /\ d \in Deliveries /\ d[1] = raised + 1
             /\ hooks[d[2]] \in HookRow /\ hooks[d[2]].tenant = t
             /\ jobs[d].at = "none" /\ hookLog[d] = NoRow
             /\ posts[d] = 0 /\ jobs[d].attempt = 0 /\ jobs[d].answer = "none"
    <2>1. /\ d \in Deliveries /\ d[1] = raised + 1
          /\ hooks[d[2]] \in HookRow /\ hooks[d[2]].tenant = t
        BY DEF DueNow, ListActiveByEvent, Ids
    <2>2. DeliveryOK(d)
        BY <2>1 DEF HookInv
    <2>3. ~(d[1] <= raised)
        BY <2>1
    <2> QED
        BY <2>1, <2>2, <2>3 DEF DeliveryOK
<1>3. ASSUME NEW t \in HookTenants, NEW e \in HookEvents, Deliver(t, e) PROVE HookInv'
    <2>1. /\ raised' = raised + 1 /\ raised' \in 0..MaxRaised
          /\ owed' = owed \cup DueNow(t, e)
          /\ UNCHANGED <<hooks, sem, hookLog, handled, posts, excused, hookEdits, hookFaults>>
        BY <1>3, <1>0 DEF Deliver, HookShape
    <2>2. ASSUME NEW d \in DueNow(t, e)
          PROVE  DeliveryOK(d)' /\ jobs'[d] \in HookJob /\ jobs'[d].at = "waiting"
        <3>1. jobs'[d] = NewJob(t, e, hooks[d[2]])
            BY <1>3, <1>d DEF Deliver
        <3>2. jobs'[d] = [at |-> "waiting", tenant |-> t, type |-> e, cfg |-> hooks[d[2]],
                          attempt |-> 0, answer |-> "none"]
            BY <3>1, NewJobIs
        <3>3. jobs'[d] \in HookJob
            BY <1>d, <3>2 DEF HookJob
        <3> QED
            BY <1>d, <2>1, <2>2, <3>2, <3>3 DEF DeliveryOK, JobUnderWay
    <2>3. ASSUME NEW d \in Deliveries, d \notin DueNow(t, e)
          PROVE  DeliveryOK(d)' /\ jobs'[d] = jobs[d]
        <3>1. DeliveryOK(d) /\ jobs'[d] = jobs[d]
            BY <1>3, <2>3 DEF HookInv, Deliver
        <3> QED
            BY <2>1, <2>3, <3>1 DEF DeliveryOK, JobUnderWay
    <2>4. HookShape'
        <3>1. jobs' \in [Deliveries -> HookJob]
            <4>1. \A d \in Deliveries : jobs'[d] \in HookJob
                BY <2>2, <2>3
            <4>2. jobs' = [d \in Deliveries |-> jobs'[d]]
                BY <1>3 DEF Deliver
            <4> QED
                BY <4>1, <4>2
        <3> QED
            BY <1>0, <1>d, <2>1, <3>1 DEF HookShape
    <2>5. TokenHolders' = TokenHolders
        <3>1. \A d \in Deliveries : jobs'[d].at \in {"posting", "logging"} <=> jobs[d].at \in {"posting", "logging"}
            BY <1>d, <2>2, <2>3
        <3> QED
            BY <3>1 DEF TokenHolders
    <2> QED
        BY <1>0, <2>1, <2>2, <2>3, <2>4, <2>5 DEF HookInv
<1>f. ASSUME NEW t \in HookTenants, NEW e \in HookEvents, DeliverFails(t, e) PROVE HookInv'
    <2>1. /\ raised' = raised + 1 /\ raised' \in 0..MaxRaised /\ hookFaults' \in 0..MaxHookFaults
          /\ owed' = owed \cup DueNow(t, e) /\ excused' = excused \cup DueNow(t, e)
          /\ UNCHANGED <<hooks, jobs, sem, hookLog, handled, posts, hookEdits>>
        BY <1>f, <1>0, WebhookAssumption DEF DeliverFails, HookFault, HookShape
    <2>2. ASSUME NEW d \in DueNow(t, e) PROVE DeliveryOK(d)'
        BY <1>d, <2>1, <2>2 DEF DeliveryOK
    <2>3. ASSUME NEW d \in Deliveries, d \notin DueNow(t, e) PROVE DeliveryOK(d)'
        <3>1. DeliveryOK(d)
            BY DEF HookInv
        <3> QED
            BY <2>1, <2>3, <3>1 DEF DeliveryOK, JobUnderWay
    <2>4. HookShape'
        BY <1>0, <1>d, <2>1 DEF HookShape
    <2>5. TokenHolders' = TokenHolders
        BY <2>1 DEF TokenHolders
    <2> QED
        BY <1>0, <2>1, <2>2, <2>3, <2>4, <2>5 DEF HookInv
<1>4. ASSUME NEW d \in Deliveries, RetryDLQ(d) PROVE HookInv'
    <2>0. PICK e : e = <<raised + 1, d[2]>>
        OBVIOUS
    <2>1. e \in Deliveries /\ e[1] = raised + 1 /\ e[2] = d[2]
        BY <1>4, <2>0, <1>0 DEF RetryDLQ, Deliveries, HookShape
    <2>2. /\ raised' = raised + 1 /\ raised' \in 0..MaxRaised /\ owed' = owed \cup {e}
          /\ UNCHANGED <<hooks, sem, hookLog, handled, posts, excused, hookEdits, hookFaults>>
        BY <1>4, <1>0, <2>0 DEF RetryDLQ, HookShape
    <2>3. hookLog[d] \in DeliveryRow /\ hooks[d[2]] \in HookRow
        BY <1>4 DEF RetryDLQ, Ids
    <2>4. hookLog[d].tenant = hooks[d[2]].tenant
        BY <2>3 DEF HookInv, DeliveryOK
    <2>5. jobs' = [jobs EXCEPT ![e] =
                    [at |-> "waiting", tenant |-> hookLog[d].tenant, type |-> hookLog[d].type,
                     cfg |-> hooks[d[2]], attempt |-> 0, answer |-> "none"]]
        <3>1. jobs' = [jobs EXCEPT ![e] = NewJob(hookLog[d].tenant, hookLog[d].type, hooks[d[2]])]
            BY <1>4, <2>0 DEF RetryDLQ
        <3> QED
            BY <3>1, NewJobIs
    <2>6. hookLog[d].tenant \in HookTenants /\ hookLog[d].type \in HookEvents
        BY <2>3 DEF DeliveryRow
    <2>7. HookShape'
        BY <1>0, <2>1, <2>2, <2>3, <2>5, <2>6 DEF HookShape, HookJob
    <2>8. jobs[e].at = "none" /\ hookLog[e] = NoRow /\ posts[e] = 0
        <3>1. DeliveryOK(e)
            BY <2>1 DEF HookInv
        <3>2. ~(e[1] <= raised)
            BY <2>1
        <3> QED
            BY <3>1, <3>2 DEF DeliveryOK
    <2>9. ASSUME NEW g \in Deliveries PROVE DeliveryOK(g)'
        <3>1. CASE g = e
            <4>1. /\ jobs'[e].at = "waiting" /\ jobs'[e].attempt = 0 /\ jobs'[e].answer = "none"
                  /\ jobs'[e].tenant = hookLog[d].tenant /\ jobs'[e].type = hookLog[d].type
                  /\ jobs'[e].cfg = hooks[d[2]]
                BY <2>1, <2>5
            <4>2. e \in owed' /\ hookLog'[e] = NoRow /\ posts'[e] = 0 /\ e[1] <= raised'
                BY <2>1, <2>2, <2>8
            <4>3. JobUnderWay(e)'
                BY <2>1, <2>2, <2>3, <2>4, <2>6, <4>1 DEF JobUnderWay
            <4> QED
                BY <3>1, <4>1, <4>2, <4>3 DEF DeliveryOK
        <3>2. CASE g # e
            <4>1. DeliveryOK(g) /\ jobs'[g] = jobs[g]
                BY <3>2, <2>5 DEF HookInv
            <4> QED
                BY <3>2, <4>1, <2>2 DEF DeliveryOK, JobUnderWay
        <3> QED
            BY <3>1, <3>2
    <2>10. TokenHolders' = TokenHolders
        BY <2>1, <2>5, <2>8 DEF TokenHolders
    <2> QED
        BY <1>0, <2>2, <2>7, <2>9, <2>10 DEF HookInv
<1>5. ASSUME NEW d \in Deliveries, Acquire(d) PROVE HookInv'
    <2>1. jobs'[d] = [jobs[d] EXCEPT !.at = "posting"] /\ jobs[d].at = "waiting"
          /\ \A g \in Deliveries \ {d} : jobs'[g] = jobs[g]
        BY <1>5 DEF Acquire
    <2>2. DeliveryOK(d)
        BY DEF HookInv
    <2>3. DeliveryOK(d)'
        BY <1>5, <2>1, <2>2, WebhookAssumption DEF Acquire, DeliveryOK, JobUnderWay, HookJob
    <2>4. \A g \in Deliveries : DeliveryOK(g)'
        BY <1>5, <2>1, <2>3, OneDelivery DEF Acquire
    <2>5. IsFiniteSet(TokenHolders') /\ sem' = Cardinality(TokenHolders')
        BY <1>5, <2>1, TokensFollow DEF Acquire, HookJob
    <2>6. HookShape'
        BY <1>5, <1>0, WebhookAssumption DEF Acquire, HookShape, HookJob
    <2> QED
        BY <2>4, <2>5, <2>6 DEF HookInv
<1>6. ASSUME NEW d \in Deliveries, NEW answer \in Answers, Post(d, answer) PROVE HookInv'
    <2> DEFINE n == jobs[d].attempt + 1
               kept == IF answer = "late" THEN "error" ELSE answer
               next == IF isRetryable(answer) /\ n < MaxRetry THEN "posting" ELSE "logging"
    <2>1. jobs'[d] = [jobs[d] EXCEPT !.attempt = n, !.answer = kept, !.at = next]
          /\ jobs[d].at = "posting" /\ jobs[d].cfg.url = "good"
          /\ \A g \in Deliveries \ {d} : jobs'[g] = jobs[g]
        BY <1>6 DEF Post
    <2>2. DeliveryOK(d) /\ jobs[d] \in HookJob
        BY DEF HookInv
    <2>3. /\ posts'[d] = posts[d] + 1 /\ \A g \in Deliveries \ {d} : posts'[g] = posts[g]
          /\ posts' \in [Deliveries -> Nat]
          /\ UNCHANGED <<hooks, raised, sem, hookLog, owed, excused, hookEdits, hookFaults>>
          /\ handled' = IF answer \in {"ok", "late"} THEN handled \cup {d} ELSE handled
        BY <1>6 DEF Post
    <2>4. n \in 0..MaxRetry /\ kept \in Answers /\ next \in {"posting", "logging"}
          /\ (next = "posting" => n < MaxRetry) /\ n = posts[d] + 1
          /\ (kept = "ok" => d \in handled')
        BY <2>1, <2>2, <2>3 DEF DeliveryOK, HookJob, Answers
    <2>5. jobs'[d].at = next /\ jobs'[d].attempt = n /\ jobs'[d].answer = kept
          /\ jobs'[d].cfg = jobs[d].cfg /\ jobs'[d].tenant = jobs[d].tenant /\ jobs'[d].type = jobs[d].type
          /\ jobs'[d] \in HookJob
        <3> HIDE DEF n, kept, next
        <3>1. PICK i \in 0..MaxRetry, r \in Answers, x \in {"posting", "logging"} :
                  i = n /\ r = kept /\ x = next
            BY <2>4
        <3>2. jobs'[d] = [jobs[d] EXCEPT !.attempt = i, !.answer = r, !.at = x]
            BY <2>1, <3>1
        <3>3. /\ jobs'[d].at = x /\ jobs'[d].attempt = i /\ jobs'[d].answer = r
              /\ jobs'[d].cfg = jobs[d].cfg /\ jobs'[d].tenant = jobs[d].tenant
              /\ jobs'[d].type = jobs[d].type
            BY <2>2, <3>2 DEF HookJob
        <3>4. jobs'[d] \in HookJob
            BY <2>2, <3>2 DEF HookJob
        <3> QED
            BY <3>1, <3>3, <3>4
    <2> HIDE DEF n, kept, next
    <2>6. DeliveryOK(d)'
        BY <2>1, <2>2, <2>3, <2>4, <2>5 DEF DeliveryOK, JobUnderWay
    <2>7. \A g \in Deliveries : DeliveryOK(g)'
        BY <2>1, <2>3, <2>6, OneDelivery
    <2>8. IsFiniteSet(TokenHolders') /\ sem' = Cardinality(TokenHolders')
        BY <2>1, <2>3, <2>4, <2>5, TokensFollow
    <2>9. jobs' \in [Deliveries -> HookJob]
        BY <1>6, <2>1, <2>5 DEF Post
    <2>10. HookShape'
        BY <1>0, <2>3, <2>9 DEF HookShape
    <2> QED
        BY <2>7, <2>8, <2>10 DEF HookInv
<1>7. ASSUME NEW d \in Deliveries, NoRequest(d) PROVE HookInv'
    <2>1. jobs'[d] = [jobs[d] EXCEPT !.attempt = MaxRetry, !.at = "logging"]
          /\ jobs[d].at = "posting" /\ jobs[d].cfg.url = "bad"
          /\ \A g \in Deliveries \ {d} : jobs'[g] = jobs[g]
        BY <1>7 DEF NoRequest
    <2>2. DeliveryOK(d) /\ jobs[d] \in HookJob
        BY DEF HookInv
    <2>3. /\ jobs'[d].at = "logging" /\ jobs'[d].attempt = MaxRetry /\ jobs'[d].answer = jobs[d].answer
          /\ jobs'[d].cfg = jobs[d].cfg /\ jobs'[d].tenant = jobs[d].tenant /\ jobs'[d].type = jobs[d].type
          /\ jobs'[d] \in HookJob
        <3>1. MaxRetry \in 0..MaxRetry
            OBVIOUS
        <3> QED
            BY <2>1, <2>2, <3>1 DEF HookJob
    <2>4. DeliveryOK(d)'
        BY <1>7, <2>1, <2>2, <2>3 DEF NoRequest, DeliveryOK, JobUnderWay
    <2>5. \A g \in Deliveries : DeliveryOK(g)'
        BY <1>7, <2>1, <2>4, OneDelivery DEF NoRequest
    <2>6. IsFiniteSet(TokenHolders') /\ sem' = Cardinality(TokenHolders')
        BY <1>7, <2>1, <2>3, TokensFollow DEF NoRequest
    <2>7. HookShape'
        BY <1>7, <1>0 DEF NoRequest, HookShape, HookJob
    <2> QED
        BY <2>5, <2>6, <2>7 DEF HookInv
<1>8. ASSUME NEW d \in Deliveries, LogDelivery(d) \/ LogFails(d) PROVE HookInv'
    <2>1. jobs'[d] = Ended /\ jobs[d].at = "logging"
          /\ \A g \in Deliveries \ {d} : jobs'[g] = jobs[g]
        BY <1>8 DEF LogDelivery, LogFails
    <2>a. jobs' = [jobs EXCEPT ![d] = Ended]
        BY <1>8 DEF LogDelivery, LogFails
    <2>2. DeliveryOK(d) /\ jobs[d] \in HookJob
        BY DEF HookInv
    <2>3. Ended.at = "ended" /\ Ended \in HookJob
        BY DEF Ended, NoJob, HookJob
    <2>4. LogRow(d) \in DeliveryRow
        BY <2>1, <2>2 DEF LogRow, DeliveryRow, DeliveryOK, JobUnderWay, HookRow, HookJob
    <2>5. hookLog[d] = NoRow
        BY <2>1, <2>2 DEF DeliveryOK
    <2>6. /\ sem' = sem - 1 /\ UNCHANGED <<hooks, raised, owed, handled, posts, hookEdits>>
          /\ \/ hookLog' = [hookLog EXCEPT ![d] = LogRow(d)] /\ UNCHANGED <<excused, hookFaults>>
             \/ hookLog' = hookLog /\ excused' = excused \cup {d} /\ hookFaults' \in 0..MaxHookFaults
        BY <1>8, <1>0, WebhookAssumption DEF LogDelivery, LogFails, Inserted, HookFault, HookShape
    <2>7. DeliveryOK(d)'
        <3>1. CASE hookLog' = hookLog /\ excused' = excused \cup {d}
            BY <3>1, <2>1, <2>2, <2>3, <2>5, <2>6 DEF DeliveryOK
        <3>2. CASE hookLog' = [hookLog EXCEPT ![d] = LogRow(d)]
            <4>1. /\ hookLog'[d] # NoRow /\ hookLog'[d].success = (jobs[d].answer = "ok")
                  /\ hookLog'[d].attempts = jobs[d].attempt /\ hookLog'[d].tenant = jobs[d].cfg.tenant
                BY <3>2, <2>4 DEF LogRow
            <4>2. d \in handled' \/ ~hookLog'[d].success
                BY <4>1, <2>1, <2>2, <2>6 DEF DeliveryOK
            <4> QED
                BY <4>1, <4>2, <2>1, <2>2, <2>3, <2>6 DEF DeliveryOK, JobUnderWay
        <3> QED
            BY <2>6, <3>1, <3>2
    <2>8. \A g \in Deliveries : DeliveryOK(g)'
        BY <2>1, <2>6, <2>7, OneDelivery
    <2>9. IsFiniteSet(TokenHolders') /\ sem' = Cardinality(TokenHolders') /\ sem' \in Nat
        BY <2>1, <2>3, <2>6, TokensFollow
    <2>10. HookShape'
        <3>1. sem' \in 0..SemSize
            BY <1>0, <2>6, <2>9, WebhookAssumption DEF HookShape
        <3>2. jobs' \in [Deliveries -> HookJob]
            <4>1. jobs \in [Deliveries -> HookJob]
                OBVIOUS
            <4> QED
                BY <2>3, <2>a, <4>1
        <3>3. hookLog' \in [Deliveries -> DeliveryRow \cup {NoRow}]
            BY <2>4, <2>6
        <3>4. excused' \subseteq Deliveries /\ hookFaults' \in 0..MaxHookFaults
            BY <1>0, <2>6 DEF HookShape
        <3> QED
            BY <1>0, <2>6, <3>1, <3>2, <3>3, <3>4 DEF HookShape
    <2> QED
        BY <2>8, <2>9, <2>10 DEF HookInv
<1>9. ASSUME NEW t \in HookTenants, NEW n \in 1..MaxRaised, PurgeDLQ(t, n) PROVE HookInv'
    <2>1. PICK old \in SUBSET Deliveries :
            /\ \A d \in old : ~hookLog[d].success
            /\ hookLog' = [d \in Deliveries |-> IF d \in old THEN NoRow ELSE hookLog[d]]
            /\ excused' = excused \cup old
        BY <1>9 DEF PurgeDLQ, Ids
    <2>2. UNCHANGED <<hooks, raised, jobs, sem, owed, handled, posts, hookEdits, hookFaults>>
        BY <1>9 DEF PurgeDLQ
    <2>3. ASSUME NEW d \in Deliveries PROVE DeliveryOK(d)'
        <3>1. DeliveryOK(d)
            BY DEF HookInv
        <3>2. hookLog'[d] = IF d \in old THEN NoRow ELSE hookLog[d]
            BY <2>1
        <3> QED
            BY <2>1, <2>2, <3>1, <3>2 DEF DeliveryOK, JobUnderWay
    <2>4. HookShape'
        BY <1>0, <2>1, <2>2 DEF HookShape
    <2>5. TokenHolders' = TokenHolders
        BY <2>2 DEF TokenHolders
    <2> QED
        BY <1>0, <2>2, <2>3, <2>4, <2>5 DEF HookInv
<1>10. ASSUME HookRestart PROVE HookInv'
    <2>1. /\ UNCHANGED <<hooks, raised, hookLog, owed, handled, posts, hookEdits>>
          /\ sem' = 0 /\ excused' = excused \cup InProgress
          /\ jobs' = [d \in Deliveries |-> IF d \in InProgress THEN Ended ELSE jobs[d]]
        BY <1>10 DEF HookRestart
    <2>2. Ended.at = "ended" /\ Ended \in HookJob
        BY DEF Ended, NoJob, HookJob
    <2>3. ASSUME NEW d \in Deliveries PROVE DeliveryOK(d)'
        <3>1. DeliveryOK(d)
            BY DEF HookInv
        <3>2. jobs'[d] = IF d \in InProgress THEN Ended ELSE jobs[d]
            BY <2>1
        <3> QED
            BY <2>1, <2>2, <3>1, <3>2 DEF DeliveryOK, JobUnderWay, InProgress
    <2>4. HookShape'
        BY <1>10, <1>0, <2>1, <2>2, WebhookAssumption DEF HookShape, HookRestart, HookFault, InProgress
    <2>5. TokenHolders' = {}
        BY <2>1, <2>2 DEF TokenHolders, InProgress
    <2> QED
        BY <2>1, <2>3, <2>4, <2>5, FS_EmptySet DEF HookInv
<1>11. CASE UNCHANGED webhookVars
    <2>1. UNCHANGED <<hooks, raised, jobs, sem, hookLog, owed, handled, posts, excused, hookEdits, hookFaults>>
        BY <1>11 DEF webhookVars
    <2>2. HookShape' /\ TokenHolders' = TokenHolders
        BY <1>0, <2>1 DEF HookShape, TokenHolders
    <2>3. ASSUME NEW d \in Deliveries PROVE DeliveryOK(d)'
        BY <2>1 DEF HookInv, DeliveryOK, JobUnderWay
    <2> QED
        BY <1>0, <2>1, <2>2, <2>3 DEF HookInv
<1> QED
    BY <1>1, <1>2, <1>3, <1>f, <1>4, <1>5, <1>6, <1>7, <1>8, <1>9, <1>10, <1>11
    DEF WebhookNext, Delivering

LEMMA InitHook == WebhookInit => HookInv
<1> SUFFICES ASSUME WebhookInit PROVE HookInv
    OBVIOUS
<1>1. NoJob \in HookJob /\ NoJob.at = "none" /\ NoJob.attempt = 0 /\ NoJob.answer = "none"
    BY WebhookAssumption DEF NoJob, HookJob
<1>2. HookShape
    BY <1>1, WebhookAssumption DEF WebhookInit, HookShape
<1>3. TokenHolders = {}
    BY <1>1 DEF WebhookInit, TokenHolders
<1>4. \A d \in Deliveries : DeliveryOK(d)
    BY <1>1 DEF WebhookInit, DeliveryOK
<1> QED
    BY <1>2, <1>3, <1>4, FS_EmptySet DEF HookInv, WebhookInit

(* A step of the services is, for the webhooks, a step of theirs or none.    *)
LEMMA HookSteps ==
    [ServicesNext]_servicesVars => [WebhookNext]_webhookVars
BY DEF ServicesNext, servicesVars

(* HookInv holds in every reachable state, whatever the other services do.   *)
THEOREM HookInvariant == ServicesSpec => []HookInv
<1>1. ServicesInit => HookInv
    BY InitHook DEF ServicesInit
<1>2. HookInv /\ [ServicesNext]_servicesVars => HookInv'
    BY NextHook, HookSteps
<1> QED
    BY <1>1, <1>2, PTL DEF ServicesSpec

-----------------------------------------------------------------------------
(***************************************************************************)
(* Callbacks. Counts are overwritten with older ones, but no count, stored *)
(* or about to be, exceeds the attempts that were made.                    *)
(***************************************************************************)

(* Every set of numbers has a least one, and the rows of a tick a first one. *)
LEMMA LeastOf == \A T \in SUBSET Nat : T # {} => \E m \in T : \A k \in T : m <= k
<1> SUFFICES ASSUME NEW T \in SUBSET Nat, T # {} PROVE \E m \in T : \A k \in T : m <= k
    OBVIOUS
<1>1. PICK m \in T : \A k \in T : ~(<<k, m>> \in OpToRel(<, Nat))
    BY NatLessThanWellFounded, WFMin
<1>2. ASSUME NEW k \in T PROVE m <= k
    <2>1. <<k, m>> \in Nat \X Nat
        OBVIOUS
    <2>2. ~(k < m)
        BY <1>1, <2>1 DEF OpToRel
    <2> QED
        BY <2>2
<1> QED
    BY <1>2

LEMMA FirstInList ==
    ASSUME NEW list, list # {}, \A e \in list : e.id \in Nat
    PROVE  First(list) \in list
<1> DEFINE ids == {e.id : e \in list}
<1>1. ids \subseteq Nat /\ ids # {}
    OBVIOUS
<1>2. \E m \in ids : \A n \in ids : ~ (<<n, m>> \in OpToRel(<, Nat))
    BY <1>1, NatLessThanWellFounded, WFMin
<1>3. PICK e \in list : \A n \in ids : ~ (<<n, e.id>> \in OpToRel(<, Nat))
    BY <1>2
<1>4. ASSUME NEW f \in list PROVE e.id <= f.id
    <2>1. f.id \in ids /\ f.id \in Nat /\ e.id \in Nat
        OBVIOUS
    <2>2. ~ (<<f.id, e.id>> \in OpToRel(<, Nat))
        BY <1>3, <2>1
    <2>3. ~ (f.id < e.id)
        BY <2>1, <2>2 DEF OpToRel
    <2> QED
        BY <2>1, <2>3
<1> QED
    BY <1>4 DEF First

TruthfulRow(c, r) ==
    /\ r.attempts <= dialled[c]
    /\ r.status = "max_attempts" => r.attempts = MaxAttempts
    /\ r.status = "completed" => c \in reached

CbWork == [at : {"idle", "list", "dial", "write"}, list : SUBSET [id : Callbacks, row : CbRow],
           copy : CbRow, id : Callbacks \cup {0}]

CbInv ==
    /\ callbacks \in [Callbacks -> CbRow]
    /\ sched \in [Schedulers -> CbWork]
    /\ dialled \in [Callbacks -> Nat]
    /\ reached \subseteq Callbacks
    /\ cbFaults \in 0..MaxCbFaults
    /\ \A c \in Callbacks : TruthfulRow(c, callbacks[c])
    /\ \A s \in Schedulers :
          /\ \A e \in sched[s].list : TruthfulRow(e.id, e.row)
          /\ sched[s].at \in {"dial", "write"} =>
                sched[s].id \in Callbacks /\ TruthfulRow(sched[s].id, sched[s].copy)
          /\ sched[s].at = "dial" => sched[s].copy.attempts < MaxAttempts

LEMMA NextCb == CbInv /\ [CallbackNext]_callbackVars => CbInv'
<1> SUFFICES ASSUME CbInv, [CallbackNext]_callbackVars PROVE CbInv'
    OBVIOUS
<1> USE CallbackAssumption
<1>0. /\ callbacks \in [Callbacks -> CbRow] /\ sched \in [Schedulers -> CbWork]
      /\ dialled \in [Callbacks -> Nat] /\ reached \subseteq Callbacks
      /\ cbFaults \in 0..MaxCbFaults
    BY DEF CbInv
<1>r. Resting \in CbWork /\ Resting.at = "idle" /\ Resting.list = {}
    BY DEF Resting, CbWork, NoCallback, CbRow, CbStatus
\* A scheduler's step that writes no row and makes no attempt.
<1>s. ASSUME NEW s \in Schedulers, NEW new \in CbWork, sched' = [sched EXCEPT ![s] = new],
             UNCHANGED <<callbacks, dialled, reached>>, cbFaults' \in 0..MaxCbFaults,
             \A e \in new.list : TruthfulRow(e.id, e.row),
             new.at \in {"dial", "write"} => new.id \in Callbacks /\ TruthfulRow(new.id, new.copy),
             new.at = "dial" => new.copy.attempts < MaxAttempts
      PROVE  CbInv'
    <2>1. sched' \in [Schedulers -> CbWork] /\ sched'[s] = new
          /\ \A v \in Schedulers \ {s} : sched'[v] = sched[v]
        BY <1>0, <1>s
    <2>2. \A c, r : TruthfulRow(c, r)' <=> TruthfulRow(c, r)
        BY <1>s DEF TruthfulRow
    <2> QED
        BY <1>0, <1>s, <2>1, <2>2 DEF CbInv, TruthfulRow
<1>1. ASSUME NEW c \in Callbacks, RequestCallback(c) PROVE CbInv'
    <2>1. /\ callbacks' = [callbacks EXCEPT ![c].status = "pending"]
          /\ UNCHANGED <<sched, dialled, reached, cbFaults>>
        BY <1>1 DEF RequestCallback
    <2>2. callbacks' \in [Callbacks -> CbRow]
        BY <1>0, <2>1 DEF CbRow, CbStatus
    <2>3. callbacks'[c].status = "pending" /\ callbacks'[c].attempts = callbacks[c].attempts
          /\ \A d \in Callbacks \ {c} : callbacks'[d] = callbacks[d]
        BY <1>0, <2>1 DEF CbRow
    <2> QED
        BY <1>0, <2>1, <2>2, <2>3 DEF CbInv, TruthfulRow
<1>2. ASSUME NEW s \in Schedulers, ProcessAllPending(s) PROVE CbInv'
    <2> DEFINE new == [sched[s] EXCEPT !.at = "list",
                          !.list = {[id |-> c, row |-> callbacks[c]] : c \in ListAllPending}]
    <2>0. {[id |-> c, row |-> callbacks[c]] : c \in ListAllPending} \in SUBSET [id : Callbacks, row : CbRow]
        BY <1>0 DEF ListAllPending
    <2>1. new \in CbWork /\ new.at = "list"
          /\ new.list = {[id |-> c, row |-> callbacks[c]] : c \in ListAllPending}
        BY <1>0, <2>0 DEF CbWork
    <2>2. \A e \in new.list : TruthfulRow(e.id, e.row)
        BY <2>1 DEF CbInv, ListAllPending
    <2>3. sched' = [sched EXCEPT ![s] = new] /\ UNCHANGED <<callbacks, dialled, reached, cbFaults>>
        BY <1>2, <1>0 DEF ProcessAllPending, CbWork
    <2> HIDE DEF new
    <2> QED
        BY <1>s, <1>0, <2>1, <2>2, <2>3
<1>3. ASSUME NEW s \in Schedulers, TakeCallback(s) PROVE CbInv'
    <2>0. PICK e : e = First(sched[s].list)
        OBVIOUS
    <2>1. e \in sched[s].list /\ e \in [id : Callbacks, row : CbRow] /\ TruthfulRow(e.id, e.row)
          /\ sched[s] \in CbWork
        <3>1. sched[s].list \subseteq [id : Callbacks, row : CbRow]
            BY <1>0 DEF CbWork
        <3>2. e \in sched[s].list
            BY <1>3, <2>0, <3>1, FirstInList DEF TakeCallback
        <3> QED
            BY <1>0, <3>1, <3>2 DEF CbInv
    <2> DEFINE spent == e.row.attempts >= MaxAttempts
               new == [sched[s] EXCEPT !.list = @ \ {e}, !.id = e.id,
                          !.at = IF spent THEN "write" ELSE "dial",
                          !.copy = IF spent THEN [e.row EXCEPT !.status = "max_attempts"] ELSE e.row]
    <2>2. sched' = [sched EXCEPT ![s] = new] /\ UNCHANGED <<callbacks, dialled, reached, cbFaults>>
        BY <1>3, <1>0, <2>0 DEF TakeCallback, CbWork
    <2>3. /\ new.list = sched[s].list \ {e} /\ new.id = e.id
          /\ new.at = IF spent THEN "write" ELSE "dial"
          /\ new.copy = IF spent THEN [e.row EXCEPT !.status = "max_attempts"] ELSE e.row
        BY <2>1 DEF CbWork
    <2>4. new.copy \in CbRow /\ new.copy.attempts = e.row.attempts
          /\ (spent => new.copy.status = "max_attempts" /\ new.copy.attempts = MaxAttempts)
          /\ (~spent => new.copy = e.row)
        BY <2>1, <2>3 DEF CbRow, CbStatus
    <2>5. new \in CbWork
        BY <2>1, <2>3, <2>4 DEF CbWork
    <2>6. TruthfulRow(new.id, new.copy) /\ (new.at = "dial" => new.copy.attempts < MaxAttempts)
        BY <2>1, <2>3, <2>4 DEF TruthfulRow, CbRow
    <2>7. \A f \in new.list : TruthfulRow(f.id, f.row)
        BY <2>3 DEF CbInv
    <2>8. new.id \in Callbacks
        BY <2>1, <2>3
    <2> HIDE DEF new
    <2> QED
        BY <1>s, <1>0, <2>2, <2>5, <2>6, <2>7, <2>8
<1>4. ASSUME NEW s \in Schedulers, NEW ok \in BOOLEAN, AttemptCallback(s, ok) PROVE CbInv'
    <2>0. PICK c : c = sched[s].id
        OBVIOUS
    <2>1. c \in Callbacks /\ TruthfulRow(c, sched[s].copy) /\ sched[s].copy.attempts < MaxAttempts
          /\ sched[s] \in CbWork
        BY <1>4, <1>0, <2>0 DEF AttemptCallback, CbInv
    <2>2. dialled' = [dialled EXCEPT ![c] = dialled[c] + 1] /\ dialled' \in [Callbacks -> Nat]
        BY <1>4, <1>0, <2>0, <2>1 DEF AttemptCallback
    <2>3. reached' = (IF ok THEN reached \cup {c} ELSE reached) /\ UNCHANGED <<callbacks, cbFaults>>
        BY <1>4, <2>0 DEF AttemptCallback
    <2> PICK copy : copy = [status |-> IF ok THEN "completed" ELSE "retry",
                            attempts |-> sched[s].copy.attempts + 1]
        OBVIOUS
    <2>4. copy \in CbRow
        BY <2>1 DEF CbRow, CbStatus, CbWork
    <2>a. copy.attempts <= dialled[c] + 1 /\ copy.status # "max_attempts"
          /\ (copy.status = "completed" => ok)
        BY <1>0, <2>1 DEF TruthfulRow, CbWork, CbRow
    <2>5. /\ sched'[s].at = "write" /\ sched'[s].copy = copy /\ sched'[s].id = c
          /\ sched'[s].list = sched[s].list /\ \A v \in Schedulers \ {s} : sched'[v] = sched[v]
        BY <1>4, <1>0, <2>0 DEF AttemptCallback, CbWork
    <2>6. sched' \in [Schedulers -> CbWork]
        <3>1. sched' = [sched EXCEPT ![s] = [sched[s] EXCEPT !.at = "write", !.copy = copy]]
            BY <1>4, <1>0, <2>0 DEF AttemptCallback, CbWork
        <3>2. [sched[s] EXCEPT !.at = "write", !.copy = copy] \in CbWork
            BY <2>1, <2>4 DEF CbWork
        <3> QED
            BY <1>0, <3>1, <3>2
    <2>7. \A b \in Callbacks, r \in CbRow : TruthfulRow(b, r) => TruthfulRow(b, r)'
        BY <1>0, <2>1, <2>2, <2>3 DEF TruthfulRow, CbRow
    <2>8. TruthfulRow(c, copy)'
        BY <1>0, <2>1, <2>2, <2>3, <2>a DEF TruthfulRow
    <2>9. \A b \in Callbacks : TruthfulRow(b, callbacks[b])'
        BY <1>0, <2>3, <2>7 DEF CbInv
    <2>10. ASSUME NEW v \in Schedulers
           PROVE  /\ \A e \in sched'[v].list : TruthfulRow(e.id, e.row)'
                  /\ sched'[v].at \in {"dial", "write"} =>
                        sched'[v].id \in Callbacks /\ TruthfulRow(sched[v].id, sched[v].copy)'
                  /\ sched'[v].at = "dial" => sched'[v].copy.attempts < MaxAttempts
        <3>1. sched[v].list \subseteq [id : Callbacks, row : CbRow] /\ sched[v].copy \in CbRow
            BY <1>0 DEF CbWork
        <3>2. \A e \in sched[v].list : TruthfulRow(e.id, e.row)'
            BY <2>7, <3>1 DEF CbInv
        <3>3. CASE v = s
            BY <2>1, <2>5, <2>8, <3>2, <3>3
        <3>4. CASE v # s
            <4>1. sched[v].at \in {"dial", "write"} =>
                    sched[v].id \in Callbacks /\ TruthfulRow(sched[v].id, sched[v].copy)
                BY DEF CbInv
            <4>2. PICK i, r : i = sched[v].id /\ r = sched[v].copy
                OBVIOUS
            <4>3. sched[v].at \in {"dial", "write"} => TruthfulRow(i, r)'
                BY <2>7, <3>1, <4>1, <4>2
            <4> QED
                BY <2>5, <3>2, <3>4, <4>1, <4>2, <4>3 DEF CbInv
        <3> QED
            BY <3>3, <3>4
    <2> QED
        BY <1>0, <2>2, <2>3, <2>1, <2>6, <2>9, <2>10 DEF CbInv
<1>5. ASSUME NEW s \in Schedulers PROVE
            /\ Processed(s) \in CbWork /\ Processed(s).at \in {"idle", "list"}
            /\ Processed(s).list = sched[s].list
    <2>1. NoCallback \in CbRow
        BY DEF NoCallback, CbRow, CbStatus
    <2> QED
        BY <1>0, <1>r, <2>1 DEF Processed, CbWork
<1>6. ASSUME NEW s \in Schedulers, WriteCallback(s) PROVE CbInv'
    <2>0. PICK c : c = sched[s].id
        OBVIOUS
    <2>1. c \in Callbacks /\ TruthfulRow(c, sched[s].copy) /\ sched[s].copy \in CbRow
        BY <1>6, <1>0, <2>0 DEF WriteCallback, CbInv, CbWork
    <2>2. /\ callbacks' = [callbacks EXCEPT ![c] = sched[s].copy]
          /\ sched' = [sched EXCEPT ![s] = Processed(s)]
          /\ UNCHANGED <<dialled, reached, cbFaults>>
        BY <1>6, <2>0 DEF WriteCallback
    <2>3. \A b \in Callbacks : TruthfulRow(b, callbacks[b])'
        BY <1>0, <2>1, <2>2 DEF CbInv, TruthfulRow
    <2>4. sched'[s] = Processed(s) /\ \A v \in Schedulers \ {s} : sched'[v] = sched[v]
        BY <1>0, <2>2
    <2>5. ASSUME NEW v \in Schedulers
          PROVE  /\ \A e \in sched'[v].list : TruthfulRow(e.id, e.row)'
                 /\ sched'[v].at \in {"dial", "write"} =>
                       sched'[v].id \in Callbacks /\ TruthfulRow(sched[v].id, sched[v].copy)'
                 /\ sched'[v].at = "dial" => sched'[v].copy.attempts < MaxAttempts
        BY <1>5, <2>2, <2>4 DEF CbInv, TruthfulRow
    <2> QED
        BY <1>0, <1>5, <2>1, <2>2, <2>3, <2>5 DEF CbInv
<1>7. ASSUME NEW s \in Schedulers, WriteCallbackFails(s) \/ SchedulerRestart(s) PROVE CbInv'
    <2>1. /\ sched' = [sched EXCEPT ![s] = Processed(s)] \/ sched' = [sched EXCEPT ![s] = Resting]
          /\ UNCHANGED <<callbacks, dialled, reached>> /\ cbFaults' \in 0..MaxCbFaults
        BY <1>7, <1>0 DEF WriteCallbackFails, SchedulerRestart, CbFault
    <2>2. \A e \in Processed(s).list : TruthfulRow(e.id, e.row)
        BY <1>5 DEF CbInv
    <2>3. CASE sched' = [sched EXCEPT ![s] = Processed(s)]
        BY <1>s, <1>5, <2>1, <2>2, <2>3
    <2>4. CASE sched' = [sched EXCEPT ![s] = Resting]
        BY <1>s, <1>r, <2>1, <2>4
    <2> QED
        BY <2>1, <2>3, <2>4
<1>8. CASE UNCHANGED callbackVars
    BY <1>8 DEF callbackVars, CbInv, TruthfulRow
<1> QED
    BY <1>1, <1>2, <1>3, <1>4, <1>6, <1>7, <1>8 DEF CallbackNext, SchedulerStep

LEMMA InitCb == CallbackInit => CbInv
<1> SUFFICES ASSUME CallbackInit PROVE CbInv
    OBVIOUS
<1>1. Resting \in CbWork /\ Resting.at = "idle" /\ Resting.list = {}
      /\ NoCallback \in CbRow /\ NoCallback.status = "none" /\ NoCallback.attempts = 0
    BY CallbackAssumption DEF Resting, CbWork, NoCallback, CbRow, CbStatus
<1> QED
    BY <1>1, CallbackAssumption DEF CallbackInit, CbInv, TruthfulRow

(* CbInv holds in every reachable state.                                     *)
THEOREM CbInvariant == ServicesSpec => []CbInv
<1>1. ServicesInit => CbInv
    BY InitCb DEF ServicesInit
<1>2. [ServicesNext]_servicesVars => [CallbackNext]_callbackVars
    BY DEF ServicesNext, servicesVars
<1>3. CbInv /\ [ServicesNext]_servicesVars => CbInv'
    BY <1>2, NextCb
<1> QED
    BY <1>1, <1>3, PTL DEF ServicesSpec

(* How often a callback is attempted. For each count k, the schedulers that   *)
(* may still make an attempt at k: they hold a row that has it, or they can   *)
(* read it and have not just attempted it; and those that attempted at k and  *)
(* have not written k + 1 yet.                                                *)
Unattempted(w, c, k) ==
    \/ \E e \in w.list : e.id = c /\ e.row.attempts = k
    \/ w.at = "dial" /\ w.id = c /\ w.copy.attempts = k
Attempted(w, c, k) == w.at = "write" /\ w.id = c /\ w.copy.attempts = k + 1

MayCall(c, k) == {s \in Schedulers : \/ Unattempted(sched[s], c, k)
                                     \/ callbacks[c].attempts = k /\ ~Attempted(sched[s], c, k)}
Unwritten(c, k) == {s \in Schedulers : Attempted(sched[s], c, k)}

\* A scheduler has one row of each callback at a time.
SoundWork(w) ==
    /\ \A e, f \in w.list : e.id = f.id => e = f
    /\ w.at \in {"dial", "write"} => \A e \in w.list : e.id # w.id
    /\ w.at = "write" => w.copy.attempts >= 1

\* total[k]: the attempts made below count k; epochs[k]: how often a row came to
\* have count k. An epoch lets each scheduler make one attempt, a fault lets one
\* scheduler make one more.
Tally(c, total, epochs) ==
    /\ total[0] = 0 /\ dialled[c] = total[MaxAttempts] /\ epochs[0] <= 1
    /\ \A k \in 0..(MaxAttempts - 1) :
          /\ total[k] <= total[k + 1]
          /\ total[k + 1] - total[k] + Cardinality(MayCall(c, k)) <= Cardinality(Schedulers) * epochs[k] + cbFaults
    /\ \A k \in 0..(MaxAttempts - 2) :
          epochs[k + 1] + Cardinality(Unwritten(c, k)) <= total[k + 1] - total[k]

Counts == [0..MaxAttempts -> Nat]

CallsInv ==
    /\ CbInv
    /\ \A s \in Schedulers : SoundWork(sched[s])
    /\ \A c \in Callbacks : \E total, epochs \in Counts : Tally(c, total, epochs)

\* The kinds of steps: nothing that counts, a fault, an attempt, a row written.
Fewer(c, k) == MayCall(c, k)' \subseteq MayCall(c, k)
NoneMore(c, k) == k < MaxAttempts - 1 => Unwritten(c, k)' \subseteq Unwritten(c, k)
StepIsQuiet ==
    /\ dialled' = dialled /\ cbFaults' = cbFaults
    /\ \A c \in Callbacks : \A k \in 0..MaxAttempts : Fewer(c, k) /\ NoneMore(c, k)
StepIsFault(s) ==
    /\ dialled' = dialled /\ cbFaults' = cbFaults + 1
    /\ \A c \in Callbacks : \A k \in 0..MaxAttempts :
          MayCall(c, k)' \subseteq MayCall(c, k) \cup {s} /\ NoneMore(c, k)
StepIsAttempt(s, c, v) ==
    /\ c \in Callbacks /\ v \in 0..(MaxAttempts - 1) /\ cbFaults' = cbFaults
    /\ dialled' = [dialled EXCEPT ![c] = dialled[c] + 1]
    /\ \A b \in Callbacks : \A k \in 0..MaxAttempts : Fewer(b, k) /\ (<<b, k>> # <<c, v>> => NoneMore(b, k))
    /\ s \in MayCall(c, v) /\ s \notin MayCall(c, v)'
    /\ Unwritten(c, v)' \subseteq Unwritten(c, v) \cup {s}
StepIsWrite(s, c, v) ==
    /\ c \in Callbacks /\ v \in 1..MaxAttempts /\ dialled' = dialled /\ cbFaults' = cbFaults
    /\ \A b \in Callbacks : \A k \in 0..MaxAttempts : NoneMore(b, k) /\ (<<b, k>> # <<c, v>> => Fewer(b, k))
    /\ s \in Unwritten(c, v - 1) /\ s \notin Unwritten(c, v - 1)'

\* One scheduler moved and no row got another count.
LEMMA OneMoved ==
    ASSUME CbInv, NEW s \in Schedulers, NEW new, sched' = [sched EXCEPT ![s] = new],
           NEW c \in Callbacks, NEW k \in Nat, callbacks'[c].attempts = callbacks[c].attempts
    PROVE  /\ MayCall(c, k)' \subseteq MayCall(c, k) \cup {s}
           /\ /\ Unattempted(new, c, k) => s \in MayCall(c, k)
              /\ callbacks[c].attempts = k /\ ~Attempted(new, c, k) => s \in MayCall(c, k)
              => Fewer(c, k)
           /\ Unwritten(c, k)' \subseteq Unwritten(c, k) \cup {s}
           /\ (Attempted(new, c, k) => Attempted(sched[s], c, k)) => Unwritten(c, k)' \subseteq Unwritten(c, k)
<1>1. sched'[s] = new /\ \A v \in Schedulers \ {s} : sched'[v] = sched[v]
    BY DEF CbInv
<1>2. \A v \in Schedulers \ {s} : v \in MayCall(c, k)' => v \in MayCall(c, k)
    BY <1>1 DEF MayCall, Unattempted, Attempted
<1>3. s \in MayCall(c, k)' => Unattempted(new, c, k) \/ (callbacks[c].attempts = k /\ ~Attempted(new, c, k))
    BY <1>1 DEF MayCall, Unattempted, Attempted
<1>4. MayCall(c, k)' \subseteq Schedulers
    BY DEF MayCall
<1>5. \A v \in Unwritten(c, k)' : v \in Schedulers /\ (v # s => v \in Unwritten(c, k))
    BY <1>1 DEF Unwritten, Attempted
<1>6. s \in Unwritten(c, k)' => Attempted(new, c, k)
    BY <1>1 DEF Unwritten, Attempted
<1>7. Attempted(sched[s], c, k) => s \in Unwritten(c, k)
    BY DEF Unwritten
<1> QED
    BY <1>2, <1>3, <1>4, <1>5, <1>6, <1>7, Zenon DEF Fewer

LEMMA CallbackMoves ==
    ASSUME CbInv, CbInv', \A s \in Schedulers : SoundWork(sched[s]), CallbackNext
    PROVE  /\ \A s \in Schedulers : SoundWork(sched'[s])
           /\ \/ StepIsQuiet
              \/ \E s \in Schedulers : StepIsFault(s)
              \/ \E s \in Schedulers : \E c, v : StepIsAttempt(s, c, v)
              \/ \E s \in Schedulers : \E c, v : StepIsWrite(s, c, v)
<1> USE CallbackAssumption
<1>0. /\ callbacks \in [Callbacks -> CbRow] /\ sched \in [Schedulers -> CbWork]
      /\ dialled \in [Callbacks -> Nat] /\ cbFaults \in Nat
      /\ \A k \in 0..MaxAttempts : k \in Nat /\ k + 1 \in Nat
    BY DEF CbInv
<1>1. ASSUME NEW s \in Schedulers
      PROVE  /\ sched[s] \in CbWork /\ SoundWork(sched[s])
             /\ sched[s].list \subseteq [id : Callbacks, row : CbRow] /\ sched[s].copy \in CbRow
             /\ sched[s].copy.attempts \in 0..MaxAttempts
    BY <1>0 DEF CbWork, CbRow
<1>2. ASSUME NEW s \in Schedulers, NEW new, sched' = [sched EXCEPT ![s] = new], SoundWork(new)
      PROVE  \A v \in Schedulers : SoundWork(sched'[v])
    BY <1>0, <1>2
<1>3. ASSUME NEW s \in Schedulers
      PROVE  /\ Processed(s).list = sched[s].list /\ Processed(s).at \in {"idle", "list"}
             /\ SoundWork(Processed(s)) /\ Resting.list = {} /\ Resting.at = "idle" /\ SoundWork(Resting)
    <2>1. Processed(s).list = sched[s].list /\ Processed(s).at \in {"idle", "list"}
        BY <1>0, <1>1 DEF Processed, Resting, CbWork
    <2>2. Resting.list = {} /\ Resting.at = "idle"
        BY DEF Resting
    <2> QED
        BY <1>1, <2>1, <2>2 DEF SoundWork
\* A request adds a row that has no attempts.
<1>4. ASSUME NEW c \in Callbacks, RequestCallback(c)
      PROVE  StepIsQuiet /\ \A s \in Schedulers : SoundWork(sched'[s])
    <2>1. /\ callbacks' = [callbacks EXCEPT ![c].status = "pending"]
          /\ UNCHANGED <<sched, dialled, reached, cbFaults>>
        BY <1>4 DEF RequestCallback
    <2>2. \A b \in Callbacks : callbacks'[b].attempts = callbacks[b].attempts
        BY <1>0, <2>1 DEF CbRow
    <2>3. \A b \in Callbacks : \A k \in 0..MaxAttempts : Fewer(b, k) /\ NoneMore(b, k)
        BY <2>1, <2>2 DEF Fewer, NoneMore, MayCall, Unwritten, Unattempted, Attempted
    <2> QED
        BY <2>1, <2>3 DEF StepIsQuiet
\* A scheduler reads the rows.
<1>5. ASSUME NEW s \in Schedulers, ProcessAllPending(s)
      PROVE  StepIsQuiet /\ \A v \in Schedulers : SoundWork(sched'[v])
    <2>0. PICK new : new = [sched[s] EXCEPT !.at = "list",
                          !.list = {[id |-> c, row |-> callbacks[c]] : c \in ListAllPending}]
        OBVIOUS
    <2>1. new.at = "list" /\ new.list = {[id |-> c, row |-> callbacks[c]] : c \in ListAllPending}
        BY <1>1, <2>0 DEF CbWork
    <2>2. sched' = [sched EXCEPT ![s] = new] /\ UNCHANGED <<callbacks, dialled, reached, cbFaults>>
        BY <1>5, <1>0, <2>0 DEF ProcessAllPending, CbWork
    <2>3. SoundWork(new)
        BY <2>1 DEF SoundWork
    <2>4. \A c \in Callbacks : \A k \in 0..MaxAttempts :
            ~Attempted(new, c, k) /\ (Unattempted(new, c, k) => callbacks[c].attempts = k)
        BY <2>1 DEF Attempted, Unattempted
    <2>5. \A c \in Callbacks : \A k \in 0..MaxAttempts : callbacks[c].attempts = k => s \in MayCall(c, k)
        BY <1>5 DEF MayCall, Attempted, ProcessAllPending
    <2>6. \A c \in Callbacks : \A k \in 0..MaxAttempts : Fewer(c, k) /\ Unwritten(c, k)' \subseteq Unwritten(c, k)
        BY <1>0, <2>2, <2>4, <2>5, OneMoved
    <2> QED
        BY <1>2, <2>2, <2>3, <2>6 DEF StepIsQuiet, NoneMore
\* A scheduler takes the next row of its list.
<1>6. ASSUME NEW s \in Schedulers, TakeCallback(s)
      PROVE  StepIsQuiet /\ \A v \in Schedulers : SoundWork(sched'[v])
    <2>0. PICK e : e = First(sched[s].list)
        OBVIOUS
    <2>1. e \in sched[s].list /\ e \in [id : Callbacks, row : CbRow] /\ e.row.attempts \in 0..MaxAttempts
        BY <1>1, <1>6, <2>0, FirstInList DEF TakeCallback, CbRow
    <2>2. PICK spent : spent = (e.row.attempts >= MaxAttempts)
        OBVIOUS
    <2>3. PICK new : new = [sched[s] EXCEPT !.list = @ \ {e}, !.id = e.id,
                          !.at = IF e.row.attempts >= MaxAttempts THEN "write" ELSE "dial",
                          !.copy = IF e.row.attempts >= MaxAttempts
                                   THEN [e.row EXCEPT !.status = "max_attempts"] ELSE e.row]
        OBVIOUS
    <2>4. sched' = [sched EXCEPT ![s] = new] /\ UNCHANGED <<callbacks, dialled, reached, cbFaults>>
        BY <1>6, <1>0, <2>0, <2>3 DEF TakeCallback, CbWork
    <2>5. /\ new.list = sched[s].list \ {e} /\ new.id = e.id /\ new.copy.attempts = e.row.attempts
          /\ new.at = IF e.row.attempts >= MaxAttempts THEN "write" ELSE "dial"
        BY <1>1, <2>1, <2>3 DEF CbWork, CbRow
    <2>6. SoundWork(new)
        BY <1>1, <2>1, <2>5 DEF SoundWork
    <2>7. ASSUME NEW c \in Callbacks, NEW k \in 0..MaxAttempts
          PROVE  Fewer(c, k) /\ NoneMore(c, k)
        <3>1. Unattempted(new, c, k) => Unattempted(sched[s], c, k)
            BY <2>1, <2>5 DEF Unattempted
        <3>2. ~Attempted(sched[s], c, k)
            BY <1>6 DEF TakeCallback, Attempted
        <3>3. Attempted(new, c, k) => k = MaxAttempts - 1
            BY <2>1, <2>5 DEF Attempted
        <3>4. Unattempted(new, c, k) => s \in MayCall(c, k)
            BY <3>1 DEF MayCall
        <3>5. callbacks[c].attempts = k => s \in MayCall(c, k)
            BY <3>2 DEF MayCall
        <3>6. callbacks'[c].attempts = callbacks[c].attempts /\ k \in Nat
            BY <2>4
        <3>7. Fewer(c, k)
            BY <2>4, <3>4, <3>5, <3>6, OneMoved
        <3>8. ASSUME k < MaxAttempts - 1 PROVE ~Attempted(new, c, k)
            BY <3>3, <3>8
        <3> QED
            BY <2>4, <3>6, <3>7, <3>8, OneMoved DEF NoneMore
    <2> QED
        BY <1>2, <2>4, <2>6, <2>7 DEF StepIsQuiet
\* A scheduler attempts the callback.
<1>7. ASSUME NEW s \in Schedulers, NEW ok \in BOOLEAN, AttemptCallback(s, ok)
      PROVE  /\ \E c, v : StepIsAttempt(s, c, v)
             /\ \A v \in Schedulers : SoundWork(sched'[v])
    <2>0. PICK c, v : c = sched[s].id /\ v = sched[s].copy.attempts
        OBVIOUS
    <2>1. sched[s].at = "dial" /\ c \in Callbacks /\ v \in 0..MaxAttempts /\ v < MaxAttempts /\ v \in 0..(MaxAttempts - 1)
        BY <1>1, <1>7, <2>0 DEF AttemptCallback, CbInv
    <2>2. PICK new : new = [sched[s] EXCEPT !.at = "write",
                          !.copy = [status |-> IF ok THEN "completed" ELSE "retry", attempts |-> v + 1]]
        OBVIOUS
    <2>3. /\ sched' = [sched EXCEPT ![s] = new] /\ UNCHANGED <<callbacks, cbFaults>>
          /\ dialled' = [dialled EXCEPT ![c] = dialled[c] + 1]
        BY <1>7, <1>0, <2>0, <2>2 DEF AttemptCallback, CbWork
    <2>4. new.at = "write" /\ new.list = sched[s].list /\ new.id = c /\ new.copy.attempts = v + 1
        BY <1>1, <2>0, <2>2 DEF CbWork
    <2>5. \A e \in sched[s].list : e.id # c
        BY <1>1, <2>0, <2>1 DEF SoundWork
    <2>6. SoundWork(new)
        BY <1>1, <2>1, <2>4, <2>5 DEF SoundWork
    <2>7. ASSUME NEW b \in Callbacks, NEW k \in 0..MaxAttempts
          PROVE  /\ Fewer(b, k)
                 /\ <<b, k>> # <<c, v>> => Unwritten(b, k)' \subseteq Unwritten(b, k)
                 /\ Unwritten(b, k)' \subseteq Unwritten(b, k) \cup {s}
        <3>1. Unattempted(new, b, k) => Unattempted(sched[s], b, k)
            BY <2>4, <2>5 DEF Unattempted
        <3>2. ~Attempted(sched[s], b, k)
            BY <2>1 DEF Attempted
        <3>3. Attempted(new, b, k) => b = c /\ k = v
            BY <2>1, <2>4 DEF Attempted
        <3>4. (Unattempted(new, b, k) => s \in MayCall(b, k)) /\ (callbacks[b].attempts = k => s \in MayCall(b, k))
            BY <3>1, <3>2 DEF MayCall
        <3>5. callbacks'[b].attempts = callbacks[b].attempts /\ k \in Nat
            BY <2>3
        <3> QED
            BY <1>0, <2>3, <3>3, <3>4, <3>5, OneMoved
    <2>8. s \in MayCall(c, v)
        BY <2>0, <2>1 DEF MayCall, Unattempted
    <2>9. s \notin MayCall(c, v)'
        <3>1. sched'[s] = new
            BY <1>0, <2>3
        <3>2. ~Unattempted(new, c, v) /\ Attempted(new, c, v)
            BY <2>4, <2>5 DEF Unattempted, Attempted
        <3> QED
            BY <3>1, <3>2 DEF MayCall, Unattempted, Attempted
    <2>10. StepIsAttempt(s, c, v)
        <3>1. c \in Callbacks /\ v \in 0..MaxAttempts
            BY <2>1
        <3> QED
            BY <2>1, <2>3, <2>7, <2>8, <2>9, <3>1 DEF StepIsAttempt, NoneMore
    <2> QED
        BY <1>2, <2>3, <2>6, <2>10
\* A scheduler writes the row back.
<1>8. ASSUME NEW s \in Schedulers, WriteCallback(s)
      PROVE  /\ \E c, v : StepIsWrite(s, c, v)
             /\ \A v \in Schedulers : SoundWork(sched'[v])
    <2>0. PICK c, v : c = sched[s].id /\ v = sched[s].copy.attempts
        OBVIOUS
    <2>1. /\ sched[s].at = "write" /\ c \in Callbacks /\ v \in 1..MaxAttempts
          /\ v \in Nat /\ v - 1 \in Nat /\ v - 1 + 1 = v /\ v - 1 # v
        BY <1>1, <1>8, <2>0 DEF WriteCallback, CbInv, SoundWork
    <2>2. PICK new : new = Processed(s)
        OBVIOUS
    <2>3. /\ sched' = [sched EXCEPT ![s] = new] /\ UNCHANGED <<dialled, cbFaults>>
          /\ callbacks' = [callbacks EXCEPT ![c] = sched[s].copy]
        BY <1>8, <2>0, <2>2 DEF WriteCallback
    <2>4. new.at \in {"idle", "list"} /\ new.list = sched[s].list /\ SoundWork(new)
        BY <1>3, <2>2
    <2>5. callbacks'[c].attempts = v /\ \A b \in Callbacks \ {c} : callbacks'[b] = callbacks[b]
        BY <1>0, <2>0, <2>1, <2>3
    <2>6. sched'[s] = new /\ \A u \in Schedulers \ {s} : sched'[u] = sched[u]
        BY <1>0, <2>3
    <2>7. \A e \in sched[s].list : e.id # c
        BY <1>1, <2>0, <2>1 DEF SoundWork
    <2>8. ASSUME NEW b \in Callbacks, NEW k \in Nat
          PROVE  ~Attempted(new, b, k) /\ (Unattempted(new, b, k) => b # c /\ Unattempted(sched[s], b, k))
        BY <2>4, <2>7 DEF Unattempted, Attempted
    <2>9. ASSUME NEW b \in Callbacks, NEW k \in 0..MaxAttempts, <<b, k>> # <<c, v>>
          PROVE  Fewer(b, k)
        <3>1. CASE b = c
            <4>1. callbacks'[b].attempts # k
                BY <2>5, <2>9, <3>1
            <4>2. \A u \in MayCall(b, k)' : u \in Schedulers /\ Unattempted(sched'[u], b, k)
                BY <4>1 DEF MayCall, Unattempted, Attempted
            <4>3. \A u \in MayCall(b, k)' : u \in MayCall(b, k)
                BY <2>6, <2>8, <3>1, <4>2 DEF MayCall
            <4> QED
                BY <4>3 DEF Fewer
        <3>2. CASE b # c
            <4>1. ~Attempted(sched[s], b, k)
                BY <2>0, <3>2 DEF Attempted
            <4>2. /\ Unattempted(new, b, k) => s \in MayCall(b, k)
                  /\ callbacks[b].attempts = k => s \in MayCall(b, k)
                BY <2>8, <4>1 DEF MayCall
            <4>3. callbacks'[b].attempts = callbacks[b].attempts
                BY <2>5, <3>2
            <4> QED
                BY <1>0, <2>3, <4>2, <4>3, OneMoved
        <3> QED
            BY <3>1, <3>2
    <2>10. ASSUME NEW b \in Callbacks, NEW k \in Nat
           PROVE  Unwritten(b, k)' \subseteq Unwritten(b, k) /\ s \notin Unwritten(b, k)'
        <3>1. \A u \in Unwritten(b, k)' : u \in Schedulers /\ Attempted(sched'[u], b, k)
            BY DEF Unwritten, Attempted
        <3>2. \A u \in Unwritten(b, k)' : u # s
            BY <2>6, <2>8, <3>1
        <3>3. \A u \in Unwritten(b, k)' : u \in Unwritten(b, k)
            BY <2>6, <3>1, <3>2 DEF Unwritten
        <3> QED
            BY <3>2, <3>3
    <2>11. s \in Unwritten(c, v - 1)
        BY <2>0, <2>1 DEF Unwritten, Attempted
    <2>12. StepIsWrite(s, c, v)
        BY <1>0, <2>1, <2>3, <2>9, <2>10, <2>11 DEF StepIsWrite, NoneMore
    <2> QED
        BY <1>2, <2>3, <2>4, <2>12
\* A write fails, or the process is restarted.
<1>9. ASSUME NEW s \in Schedulers, WriteCallbackFails(s) \/ SchedulerRestart(s)
      PROVE  StepIsFault(s) /\ \A v \in Schedulers : SoundWork(sched'[v])
    <2>1. PICK new : /\ sched' = [sched EXCEPT ![s] = new] /\ new \in {Processed(s), Resting}
                     /\ UNCHANGED <<callbacks, dialled>> /\ cbFaults' = cbFaults + 1
        BY <1>9 DEF WriteCallbackFails, SchedulerRestart, CbFault
    <2>2. new.at \in {"idle", "list"} /\ SoundWork(new)
        BY <1>3, <2>1
    <2>3. \A c \in Callbacks : \A k \in 0..MaxAttempts :
              MayCall(c, k)' \subseteq MayCall(c, k) \cup {s} /\ Unwritten(c, k)' \subseteq Unwritten(c, k)
        <3>1. \A c \in Callbacks : \A k \in 0..MaxAttempts : ~Attempted(new, c, k)
            BY <2>2 DEF Attempted
        <3> QED
            BY <1>0, <2>1, <3>1, OneMoved
    <2> QED
        BY <1>2, <2>1, <2>2, <2>3 DEF StepIsFault, NoneMore
<1> QED
    BY <1>4, <1>5, <1>6, <1>7, <1>8, <1>9 DEF CallbackNext, SchedulerStep

\* A part of a finite set, a part of it with one more, and one without a member.
LEMMA OneMoreOrLess ==
    ASSUME NEW S, IsFiniteSet(S), NEW T
    PROVE  /\ T \subseteq S => IsFiniteSet(T) /\ Cardinality(T) <= Cardinality(S)
           /\ \A s : T \subseteq S \cup {s} => IsFiniteSet(T) /\ Cardinality(T) <= Cardinality(S) + 1
           /\ \A s \in S : T \subseteq S /\ s \notin T => Cardinality(T) + 1 <= Cardinality(S)
           /\ Cardinality(S) \in Nat /\ (T \subseteq S => Cardinality(T) \in Nat)
<1>1. ASSUME NEW U, IsFiniteSet(U), T \subseteq U
      PROVE  IsFiniteSet(T) /\ Cardinality(T) <= Cardinality(U)
    BY <1>1, FS_Subset
<1>2. ASSUME NEW s, T \subseteq S \cup {s}
      PROVE  IsFiniteSet(T) /\ Cardinality(T) <= Cardinality(S) + 1
    <2>1. PICK U : U = S \cup {s}
        OBVIOUS
    <2>2. IsFiniteSet(U) /\ Cardinality(U) = (IF s \in S THEN Cardinality(S) ELSE Cardinality(S) + 1)
        BY <2>1, FS_AddElement
    <2>3. IsFiniteSet(T) /\ Cardinality(T) <= Cardinality(U)
        BY <1>1, <1>2, <2>1, <2>2
    <2>4. Cardinality(S) \in Nat /\ Cardinality(T) \in Nat /\ Cardinality(U) \in Nat
        BY <2>2, <2>3, FS_CardinalityType
    <2> QED
        BY <2>2, <2>3, <2>4
<1>3. ASSUME NEW s \in S, T \subseteq S, s \notin T
      PROVE  Cardinality(T) + 1 <= Cardinality(S)
    <2>1. PICK U : U = S \ {s}
        OBVIOUS
    <2>2. IsFiniteSet(U) /\ Cardinality(U) = Cardinality(S) - 1
        BY <2>1, FS_RemoveElement
    <2>3. IsFiniteSet(T) /\ Cardinality(T) <= Cardinality(U)
        BY <1>1, <1>3, <2>1, <2>2
    <2>4. Cardinality(S) \in Nat /\ Cardinality(T) \in Nat /\ Cardinality(U) \in Nat
        BY <2>2, <2>3, FS_CardinalityType
    <2> QED
        BY <2>2, <2>3, <2>4
<1>4. Cardinality(S) \in Nat /\ (T \subseteq S => Cardinality(T) \in Nat)
    BY <1>1, FS_CardinalityType
<1> QED
    BY <1>1, <1>2, <1>3, <1>4

LEMMA CallersCounted ==
    /\ \A c, k : /\ IsFiniteSet(MayCall(c, k)) /\ IsFiniteSet(Unwritten(c, k))
                 /\ Cardinality(MayCall(c, k)) \in 0..Cardinality(Schedulers)
                 /\ Cardinality(MayCall(c, k)') \in 0..Cardinality(Schedulers)
                 /\ Cardinality(Unwritten(c, k)) \in Nat /\ Cardinality(Unwritten(c, k)') \in Nat
    /\ Cardinality(Schedulers) \in Nat
<1>1. IsFiniteSet(Schedulers) /\ Cardinality(Schedulers) \in Nat
    BY CallbackAssumption, FS_CardinalityType
<1>2. ASSUME NEW T, T \subseteq Schedulers
      PROVE  IsFiniteSet(T) /\ Cardinality(T) <= Cardinality(Schedulers) /\ Cardinality(T) \in Nat
    BY <1>1, <1>2, OneMoreOrLess
<1>3. ASSUME NEW c, NEW k
      PROVE  /\ MayCall(c, k) \subseteq Schedulers /\ Unwritten(c, k) \subseteq Schedulers
             /\ MayCall(c, k)' \subseteq Schedulers /\ Unwritten(c, k)' \subseteq Schedulers
    BY DEF MayCall, Unwritten
<1> QED
    BY <1>1, <1>2, <1>3

LEMMA Indices ==
    /\ \A k \in 0..(MaxAttempts - 1) : k \in 0..MaxAttempts /\ k + 1 \in 0..MaxAttempts /\ k + 1 # 0
    /\ \A k \in 0..(MaxAttempts - 2) : k \in 0..(MaxAttempts - 1) /\ k + 1 \in 0..(MaxAttempts - 1)
    /\ MaxAttempts \in 0..MaxAttempts /\ 0 \in 0..MaxAttempts /\ 0 \in 0..(MaxAttempts - 1) /\ MaxAttempts # 0
    /\ \A f \in Counts : \A k \in 0..MaxAttempts : f[k] \in Nat
BY CallbackAssumption DEF Counts

\* The tally of a callback stays where no more may be called than faults allow.
LEMMA TallyStays ==
    ASSUME NEW c, NEW total \in Counts, NEW epochs \in Counts, Tally(c, total, epochs),
           cbFaults \in Nat, cbFaults' \in Nat, dialled'[c] = dialled[c],
           \A k \in 0..(MaxAttempts - 1) :
               Cardinality(MayCall(c, k)') + cbFaults <= Cardinality(MayCall(c, k)) + cbFaults',
           \A k \in 0..(MaxAttempts - 2) : Cardinality(Unwritten(c, k)') <= Cardinality(Unwritten(c, k))
    PROVE  Tally(c, total, epochs)'
<1>1. ASSUME NEW k \in 0..(MaxAttempts - 1)
      PROVE  total[k + 1] - total[k] + Cardinality(MayCall(c, k)') <= Cardinality(Schedulers) * epochs[k] + cbFaults'
    <2>1. PICK d, m, n, p \in Int : /\ d = total[k + 1] - total[k] /\ m = Cardinality(MayCall(c, k))
                                    /\ n = Cardinality(MayCall(c, k)') /\ p = Cardinality(Schedulers) * epochs[k]
        <3>1. total[k] \in Int /\ total[k + 1] \in Int /\ epochs[k] \in Int
            BY Indices
        <3>2. Cardinality(MayCall(c, k)) \in Int /\ Cardinality(MayCall(c, k)') \in Int /\ Cardinality(Schedulers) \in Int
            BY CallersCounted
        <3>3. total[k + 1] - total[k] \in Int /\ Cardinality(Schedulers) * epochs[k] \in Int
            BY <3>1, <3>2
        <3> QED
            BY <3>2, <3>3
    <2>2. d + m <= p + cbFaults /\ n + cbFaults <= m + cbFaults'
        BY <2>1 DEF Tally
    <2> QED
        BY <2>1, <2>2
<1>2. ASSUME NEW k \in 0..(MaxAttempts - 2)
      PROVE  epochs[k + 1] + Cardinality(Unwritten(c, k)') <= total[k + 1] - total[k]
    <2>1. /\ epochs[k + 1] \in Int /\ total[k + 1] \in Int /\ total[k] \in Int
          /\ Cardinality(Unwritten(c, k)) \in Int /\ Cardinality(Unwritten(c, k)') \in Int
        BY CallersCounted, Indices
    <2>2. epochs[k + 1] + Cardinality(Unwritten(c, k)) <= total[k + 1] - total[k]
        BY DEF Tally
    <2> QED
        BY <2>1, <2>2
<1> QED
    BY <1>1, <1>2 DEF Tally

LEMMA AttemptCounted ==
    ASSUME CbInv, NEW s \in Schedulers, NEW c, NEW v, StepIsAttempt(s, c, v),
           NEW total \in Counts, NEW epochs \in Counts, Tally(c, total, epochs)
    PROVE  \E t \in Counts : Tally(c, t, epochs)'
<1>0. /\ cbFaults \in Nat /\ cbFaults' = cbFaults /\ c \in Callbacks /\ v \in 0..(MaxAttempts - 1) /\ v \in Nat
      /\ dialled \in [Callbacks -> Nat] /\ dialled'[c] = dialled[c] + 1 /\ MaxAttempts \in Nat
    BY CallbackAssumption DEF StepIsAttempt, CbInv
<1>1. PICK t : t = [k \in 0..MaxAttempts |-> IF k > v THEN total[k] + 1 ELSE total[k]]
    OBVIOUS
<1>2. /\ t \in Counts /\ t[0] = 0 /\ t[MaxAttempts] = dialled'[c]
      /\ \A k \in 0..MaxAttempts : t[k] = IF k > v THEN total[k] + 1 ELSE total[k]
    <2>1. \A k \in 0..MaxAttempts : t[k] = (IF k > v THEN total[k] + 1 ELSE total[k]) /\ total[k] \in Nat
        BY <1>1, Indices
    <2>2. ~(0 > v) /\ MaxAttempts > v
        BY <1>0
    <2>3. \A k \in 0..MaxAttempts : t[k] \in Nat
        BY <2>1
    <2>4. t \in Counts
        BY <1>1, <2>3 DEF Counts
    <2> QED
        BY <1>0, <2>1, <2>2, <2>4, Indices DEF Tally
<1>3. ASSUME NEW k \in 0..(MaxAttempts - 1)
      PROVE  t[k + 1] - t[k] = IF k = v THEN total[k + 1] - total[k] + 1 ELSE total[k + 1] - total[k]
    <2>1. /\ k \in 0..MaxAttempts /\ k + 1 \in 0..MaxAttempts /\ total[k] \in Nat /\ total[k + 1] \in Nat
          /\ (k + 1 > v <=> k > v \/ k = v) /\ ~(v > v)
        BY <1>0, Indices
    <2> QED
        BY <1>2, <2>1
<1>4. ASSUME NEW k \in 0..(MaxAttempts - 1)
      PROVE  /\ t[k] <= t[k + 1]
             /\ t[k + 1] - t[k] + Cardinality(MayCall(c, k)') <= Cardinality(Schedulers) * epochs[k] + cbFaults'
    <2>1. /\ k \in 0..MaxAttempts /\ k + 1 \in 0..MaxAttempts
          /\ total[k] \in Nat /\ total[k + 1] \in Nat /\ t[k] \in Nat /\ t[k + 1] \in Nat /\ epochs[k] \in Nat
        BY <1>2, Indices
    <2>2. PICK m \in Nat, n \in Nat : m = Cardinality(MayCall(c, k)) /\ n = Cardinality(MayCall(c, k)')
        BY CallersCounted
    <2>3. PICK p \in Nat : p = Cardinality(Schedulers) * epochs[k]
        <3>1. \A x, y \in Nat : x * y \in Nat
            OBVIOUS
        <3> QED
            BY <2>1, <3>1, CallersCounted
    <2>4. total[k] <= total[k + 1] /\ total[k + 1] - total[k] + m <= p + cbFaults
        BY <2>2, <2>3 DEF Tally
    <2>5. n <= m /\ (k = v => n + 1 <= m)
        <3>1. MayCall(c, k)' \subseteq MayCall(c, k) /\ (k = v => s \in MayCall(c, k) /\ s \notin MayCall(c, k)')
            BY <1>0, <2>1 DEF StepIsAttempt, Fewer
        <3>2. PICK S, T : S = MayCall(c, k) /\ T = MayCall(c, k)'
            OBVIOUS
        <3>3. IsFiniteSet(S)
            BY <3>2, CallersCounted
        <3> QED
            BY <2>2, <3>1, <3>2, <3>3, OneMoreOrLess
    <2> QED
        BY <1>0, <1>3, <2>1, <2>2, <2>3, <2>4, <2>5
<1>5. ASSUME NEW k \in 0..(MaxAttempts - 2)
      PROVE  epochs[k + 1] + Cardinality(Unwritten(c, k)') <= t[k + 1] - t[k]
    <2>1. /\ k \in 0..(MaxAttempts - 1) /\ k \in 0..MaxAttempts /\ k + 1 \in 0..MaxAttempts
          /\ total[k] \in Nat /\ total[k + 1] \in Nat /\ t[k] \in Nat /\ t[k + 1] \in Nat /\ epochs[k + 1] \in Nat
        BY <1>2, Indices
    <2>2. PICK m \in Nat, n \in Nat : m = Cardinality(Unwritten(c, k)) /\ n = Cardinality(Unwritten(c, k)')
        BY CallersCounted
    <2>3. epochs[k + 1] + m <= total[k + 1] - total[k]
        BY <2>2 DEF Tally
    <2>4. n <= m + 1 /\ (k # v => n <= m)
        <3>1. k < MaxAttempts - 1
            BY <1>0
        <3>2. k # v => Unwritten(c, k)' \subseteq Unwritten(c, k)
            BY <1>0, <2>1, <3>1 DEF StepIsAttempt, NoneMore
        <3>3. k = v => Unwritten(c, k)' \subseteq Unwritten(c, k) \cup {s}
            BY DEF StepIsAttempt
        <3>4. PICK S, T : S = Unwritten(c, k) /\ T = Unwritten(c, k)'
            OBVIOUS
        <3>5. IsFiniteSet(S)
            BY <3>4, CallersCounted
        <3> QED
            BY <2>2, <3>2, <3>3, <3>4, <3>5, OneMoreOrLess
    <2>5. t[k + 1] - t[k] = IF k = v THEN total[k + 1] - total[k] + 1 ELSE total[k + 1] - total[k]
        BY <1>3, <2>1
    <2> QED
        BY <2>1, <2>2, <2>3, <2>4, <2>5
<1>6. epochs[0] <= 1
    BY DEF Tally
<1> QED
    BY <1>2, <1>4, <1>5, <1>6 DEF Tally

LEMMA WriteCounted ==
    ASSUME CbInv, NEW s \in Schedulers, NEW c, NEW v, StepIsWrite(s, c, v),
           NEW total \in Counts, NEW epochs \in Counts, Tally(c, total, epochs)
    PROVE  \E e \in Counts : Tally(c, total, e)'
<1>0. /\ cbFaults \in Nat /\ cbFaults' = cbFaults /\ c \in Callbacks /\ v \in 1..MaxAttempts
      /\ v \in 0..MaxAttempts /\ v # 0 /\ dialled' = dialled /\ MaxAttempts \in Nat
    BY CallbackAssumption DEF StepIsWrite, CbInv
<1>1. PICK e : e = [epochs EXCEPT ![v] = epochs[v] + 1]
    OBVIOUS
<1>2. /\ e \in Counts /\ e[v] = epochs[v] + 1 /\ e[0] = epochs[0]
      /\ \A k \in 0..MaxAttempts : k # v => e[k] = epochs[k]
    <2>1. epochs[v] + 1 \in Nat
        BY <1>0, Indices
    <2> QED
        BY <1>0, <1>1, <2>1, Indices DEF Counts
<1>3. ASSUME NEW k \in 0..(MaxAttempts - 1)
      PROVE  total[k + 1] - total[k] + Cardinality(MayCall(c, k)') <= Cardinality(Schedulers) * e[k] + cbFaults'
    <2>1. /\ k \in 0..MaxAttempts /\ total[k] \in Nat /\ total[k + 1] \in Nat /\ epochs[k] \in Nat
        BY Indices
    <2>2. PICK N \in Nat, m \in Nat, n \in Nat :
              /\ N = Cardinality(Schedulers) /\ m = Cardinality(MayCall(c, k))
              /\ n = Cardinality(MayCall(c, k)') /\ n <= N
        BY CallersCounted
    <2>3. \A x, y \in Nat : x * y \in Nat /\ x * (y + 1) = x * y + x
        OBVIOUS
    <2>4. PICK p \in Nat : p = N * epochs[k]
        BY <2>1, <2>3
    <2>5. total[k + 1] - total[k] + m <= p + cbFaults
        BY <2>2, <2>4 DEF Tally
    <2>6. CASE k = v
        <3>1. N * e[k] = p + N
            BY <1>2, <2>1, <2>3, <2>4, <2>6
        <3> QED
            BY <1>0, <2>1, <2>2, <2>5, <3>1
    <2>7. CASE k # v
        <3>1. n <= m
            <4>1. MayCall(c, k)' \subseteq MayCall(c, k)
                BY <1>0, <2>1, <2>7 DEF StepIsWrite, Fewer
            <4>2. PICK S, T : S = MayCall(c, k) /\ T = MayCall(c, k)'
                OBVIOUS
            <4>3. IsFiniteSet(S)
                BY <4>2, CallersCounted
            <4> QED
                BY <2>2, <4>1, <4>2, <4>3, OneMoreOrLess
        <3>2. N * e[k] = p
            BY <1>2, <2>1, <2>4, <2>7
        <3> QED
            BY <1>0, <2>1, <2>2, <2>5, <3>1, <3>2
    <2> QED
        BY <2>6, <2>7
<1>4. ASSUME NEW k \in 0..(MaxAttempts - 2)
      PROVE  e[k + 1] + Cardinality(Unwritten(c, k)') <= total[k + 1] - total[k]
    <2>1. /\ k \in 0..MaxAttempts /\ k + 1 \in 0..MaxAttempts /\ k < MaxAttempts - 1
          /\ total[k] \in Nat /\ total[k + 1] \in Nat /\ epochs[k + 1] \in Nat /\ (k + 1 = v => k = v - 1)
        BY <1>0, Indices
    <2>2. PICK m \in Nat, n \in Nat : m = Cardinality(Unwritten(c, k)) /\ n = Cardinality(Unwritten(c, k)')
        BY CallersCounted
    <2>3. epochs[k + 1] + m <= total[k + 1] - total[k]
        BY <2>2 DEF Tally
    <2>4. n <= m /\ (k + 1 = v => n + 1 <= m)
        <3>1. Unwritten(c, k)' \subseteq Unwritten(c, k)
            BY <1>0, <2>1 DEF StepIsWrite, NoneMore
        <3>2. k + 1 = v => s \in Unwritten(c, k) /\ s \notin Unwritten(c, k)'
            BY <2>1 DEF StepIsWrite
        <3>3. PICK S, T : S = Unwritten(c, k) /\ T = Unwritten(c, k)'
            OBVIOUS
        <3>4. IsFiniteSet(S)
            BY <3>3, CallersCounted
        <3> QED
            BY <2>2, <3>1, <3>2, <3>3, <3>4, OneMoreOrLess
    <2> QED
        BY <1>2, <2>1, <2>2, <2>3, <2>4
<1> QED
    BY <1>0, <1>2, <1>3, <1>4 DEF Tally

\* Nothing happened to the tally of this callback, except perhaps a fault.
LEMMA OthersCounted ==
    ASSUME CbInv, CbInv', NEW s, NEW c \in Callbacks, dialled'[c] = dialled[c],
           \/ cbFaults' = cbFaults /\ \A k \in 0..MaxAttempts : Fewer(c, k)
           \/ cbFaults' = cbFaults + 1 /\ \A k \in 0..MaxAttempts : MayCall(c, k)' \subseteq MayCall(c, k) \cup {s},
           \A k \in 0..MaxAttempts : NoneMore(c, k),
           NEW total \in Counts, NEW epochs \in Counts, Tally(c, total, epochs)
    PROVE  Tally(c, total, epochs)'
<1>0. cbFaults \in Nat /\ cbFaults' \in Nat /\ MaxAttempts \in Nat
    BY CallbackAssumption DEF CbInv
<1>1. ASSUME NEW k \in 0..(MaxAttempts - 1)
      PROVE  Cardinality(MayCall(c, k)') + cbFaults <= Cardinality(MayCall(c, k)) + cbFaults'
    <2>1. k \in 0..MaxAttempts
        BY Indices
    <2>2. PICK S, T : S = MayCall(c, k) /\ T = MayCall(c, k)'
        OBVIOUS
    <2>3. IsFiniteSet(S) /\ Cardinality(S) \in Nat /\ Cardinality(T) \in Nat
        BY <2>2, CallersCounted
    <2>4. \/ cbFaults' = cbFaults /\ T \subseteq S
          \/ cbFaults' = cbFaults + 1 /\ T \subseteq S \cup {s}
        BY <2>1, <2>2 DEF Fewer
    <2>5. \/ cbFaults' = cbFaults /\ Cardinality(T) <= Cardinality(S)
          \/ cbFaults' = cbFaults + 1 /\ Cardinality(T) <= Cardinality(S) + 1
        BY <2>3, <2>4, OneMoreOrLess
    <2>6. Cardinality(T) + cbFaults <= Cardinality(S) + cbFaults'
        BY <1>0, <2>3, <2>5
    <2> QED
        BY <2>2, <2>6
<1>2. ASSUME NEW k \in 0..(MaxAttempts - 2)
      PROVE  Cardinality(Unwritten(c, k)') <= Cardinality(Unwritten(c, k))
    <2>1. k \in 0..MaxAttempts /\ k < MaxAttempts - 1
        BY <1>0
    <2>2. PICK S, T : S = Unwritten(c, k) /\ T = Unwritten(c, k)'
        OBVIOUS
    <2>3. IsFiniteSet(S) /\ T \subseteq S
        BY <2>1, <2>2, CallersCounted DEF NoneMore
    <2> QED
        BY <2>2, <2>3, OneMoreOrLess
<1> QED
    BY <1>0, <1>1, <1>2, TallyStays

LEMMA NextCalls == CallsInv /\ [CallbackNext]_callbackVars => CallsInv'
<1> SUFFICES ASSUME CallsInv, [CallbackNext]_callbackVars PROVE CallsInv'
    OBVIOUS
<1>1. CbInv /\ CbInv' /\ dialled \in [Callbacks -> Nat]
    BY NextCb DEF CallsInv, CbInv
<1>2. CASE CallbackNext
    <2>1. /\ \A s \in Schedulers : SoundWork(sched'[s])
          /\ \/ StepIsQuiet
             \/ \E s \in Schedulers : StepIsFault(s)
             \/ \E s \in Schedulers : \E c, v : StepIsAttempt(s, c, v)
             \/ \E s \in Schedulers : \E c, v : StepIsWrite(s, c, v)
        BY <1>1, <1>2, CallbackMoves DEF CallsInv
    <2>2. ASSUME NEW c \in Callbacks PROVE \E t, e \in Counts : Tally(c, t, e)'
        <3>1. PICK total \in Counts, epochs \in Counts : Tally(c, total, epochs)
            BY DEF CallsInv
        <3>2. CASE StepIsQuiet \/ \E s \in Schedulers : StepIsFault(s)
            <4>1. Tally(c, total, epochs)'
                BY <1>1, <3>1, <3>2, OthersCounted DEF StepIsQuiet, StepIsFault
            <4> QED
                BY <4>1
        <3>3. CASE \E s \in Schedulers : \E b, v : StepIsAttempt(s, b, v)
            <4>0. PICK s \in Schedulers : \E b, v : StepIsAttempt(s, b, v)
                BY <3>3
            <4>1. PICK b, v : StepIsAttempt(s, b, v)
                BY <4>0
            <4>2. CASE b = c
                BY <1>1, <3>1, <4>1, <4>2, AttemptCounted
            <4>3. CASE b # c
                <5>1. dialled'[c] = dialled[c] /\ cbFaults' = cbFaults
                    BY <1>1, <4>1, <4>3 DEF StepIsAttempt
                <5>2. \A k \in 0..MaxAttempts : Fewer(c, k) /\ NoneMore(c, k)
                    BY <4>1, <4>3 DEF StepIsAttempt
                <5>3. Tally(c, total, epochs)'
                    BY <1>1, <3>1, <5>1, <5>2, OthersCounted
                <5> QED
                    BY <5>3
            <4> QED
                BY <4>2, <4>3
        <3>4. CASE \E s \in Schedulers : \E b, v : StepIsWrite(s, b, v)
            <4>0. PICK s \in Schedulers : \E b, v : StepIsWrite(s, b, v)
                BY <3>4
            <4>1. PICK b, v : StepIsWrite(s, b, v)
                BY <4>0
            <4>2. CASE b = c
                BY <1>1, <3>1, <4>1, <4>2, WriteCounted
            <4>3. CASE b # c
                <5>1. dialled'[c] = dialled[c] /\ cbFaults' = cbFaults
                    BY <4>1 DEF StepIsWrite
                <5>2. \A k \in 0..MaxAttempts : Fewer(c, k) /\ NoneMore(c, k)
                    BY <4>1, <4>3 DEF StepIsWrite
                <5>3. Tally(c, total, epochs)'
                    BY <1>1, <3>1, <5>1, <5>2, OthersCounted
                <5> QED
                    BY <5>3
            <4> QED
                BY <4>2, <4>3
        <3> QED
            BY <2>1, <3>2, <3>3, <3>4
    <2> QED
        BY <1>1, <2>1, <2>2 DEF CallsInv
<1>3. CASE UNCHANGED callbackVars
    <2>1. UNCHANGED <<callbacks, sched, dialled, reached, cbFaults>>
        BY <1>3 DEF callbackVars
    <2>2. \A c, k : MayCall(c, k)' = MayCall(c, k) /\ Unwritten(c, k)' = Unwritten(c, k)
        BY <2>1 DEF MayCall, Unwritten
    <2>3. ASSUME NEW c, NEW t, NEW e, Tally(c, t, e) PROVE Tally(c, t, e)'
        BY <2>1, <2>2, <2>3 DEF Tally
    <2>4. \A c \in Callbacks : \E t, e \in Counts : Tally(c, t, e)'
        BY <2>3 DEF CallsInv
    <2>5. \A s \in Schedulers : SoundWork(sched'[s])
        BY <2>1 DEF CallsInv
    <2> QED
        BY <1>1, <2>4, <2>5 DEF CallsInv
<1> QED
    BY <1>2, <1>3

LEMMA InitCalls == CallbackInit => CallsInv
<1> SUFFICES ASSUME CallbackInit PROVE CallsInv
    OBVIOUS
<1>1. /\ CbInv /\ cbFaults = 0 /\ \A c \in Callbacks : dialled[c] = 0 /\ callbacks[c].attempts = 0
      /\ \A s \in Schedulers : sched[s].at = "idle" /\ sched[s].list = {}
    BY InitCb DEF CallbackInit, Resting, NoCallback
<1>2. \A s \in Schedulers : SoundWork(sched[s])
    BY <1>1 DEF SoundWork
<1>3. PICK t, e : t = [k \in 0..MaxAttempts |-> 0] /\ e = [k \in 0..MaxAttempts |-> IF k = 0 THEN 1 ELSE 0]
    OBVIOUS
<1>4. t \in Counts /\ e \in Counts /\ e[0] = 1 /\ \A k \in 0..MaxAttempts : t[k] = 0 /\ (k # 0 => e[k] = 0)
    BY <1>3, Indices DEF Counts
<1>5. ASSUME NEW c \in Callbacks PROVE Tally(c, t, e)
    <2>1. ASSUME NEW k \in 0..MaxAttempts
          PROVE  Cardinality(Unwritten(c, k)) = 0 /\ (k # 0 => Cardinality(MayCall(c, k)) = 0)
        <3>1. Unwritten(c, k) = {} /\ (k # 0 => MayCall(c, k) = {})
            BY <1>1 DEF Unwritten, MayCall, Attempted, Unattempted
        <3> QED
            BY <3>1, FS_EmptySet
    <2>2. ASSUME NEW k \in 0..(MaxAttempts - 1)
          PROVE  Cardinality(MayCall(c, k)) <= Cardinality(Schedulers) * e[k]
        <3>1. PICK m \in Nat, N \in Nat : m = Cardinality(MayCall(c, k)) /\ N = Cardinality(Schedulers) /\ m <= N
            BY CallersCounted
        <3>2. N * 1 = N /\ N * 0 = 0
            OBVIOUS
        <3>3. k \in 0..MaxAttempts
            BY Indices
        <3> QED
            BY <1>4, <2>1, <3>1, <3>2, <3>3
    <2>3. ASSUME NEW k \in 0..(MaxAttempts - 1)
          PROVE  /\ t[k] <= t[k + 1]
                 /\ t[k + 1] - t[k] + Cardinality(MayCall(c, k)) <= Cardinality(Schedulers) * e[k] + cbFaults
        <3>1. PICK m, p : m \in Nat /\ m = Cardinality(MayCall(c, k)) /\ p = Cardinality(Schedulers) * e[k]
            BY CallersCounted
        <3>2. p \in Int
            <4>1. Cardinality(Schedulers) \in Int /\ e[k] \in Int
                BY <1>4, CallersCounted, Indices
            <4> QED
                BY <3>1, <4>1
        <3>3. t[k] = 0 /\ t[k + 1] = 0
            BY <1>4, Indices
        <3> QED
            BY <1>1, <2>2, <3>1, <3>2, <3>3
    <2>4. ASSUME NEW k \in 0..(MaxAttempts - 2)
          PROVE  e[k + 1] + Cardinality(Unwritten(c, k)) <= t[k + 1] - t[k]
        <3>1. k \in 0..MaxAttempts /\ k + 1 \in 0..MaxAttempts /\ k + 1 # 0
            BY Indices
        <3> QED
            BY <1>4, <2>1, <3>1
    <2> QED
        BY <1>1, <1>4, <2>3, <2>4, Indices DEF Tally
<1> QED
    BY <1>1, <1>2, <1>4, <1>5 DEF CallsInv

-----------------------------------------------------------------------------
(* The bound. Each count but the first comes from attempts one below it.     *)
UpToBounds(u, n) ==
    /\ u \in Counts /\ u[0] = 0 /\ u[MaxAttempts] = AttemptBound(n)
    /\ \A k \in 0..(MaxAttempts - 1) : u[k + 1] = n * (1 + u[k])

LEMMA UpToBoundsExist == \A n \in Nat : \E u : UpToBounds(u, n)
<1> SUFFICES ASSUME NEW n \in Nat PROVE \E u : UpToBounds(u, n)
    OBVIOUS
<1> USE CallbackAssumption
<1> DEFINE Recursion(u, m) == [k \in 0..m |-> IF k = 0 THEN 0 ELSE n * (1 + u[k - 1])]
           Undefined == {m \in 0..MaxAttempts : ~ \E u : u = Recursion(u, m)}
<1>0. MaxAttempts \in Nat
    OBVIOUS
<1>1. Undefined = {}
    <2> SUFFICES ASSUME Undefined # {} PROVE FALSE
        OBVIOUS
    <2>0. Undefined \in SUBSET Nat
        BY <1>0
    <2>1. PICK m \in Undefined : \A k \in Undefined : m <= k
        BY <2>0, LeastOf
    <2>2. CASE m = 0
        <3>1. [k \in 0..0 |-> 0] = Recursion([k \in 0..0 |-> 0], 0)
            OBVIOUS
        <3> QED
            BY <2>1, <2>2, <3>1
    <2>3. CASE m # 0
        <3>0. m \in 0..MaxAttempts /\ m - 1 \in 0..MaxAttempts /\ ~(m <= m - 1)
            BY <1>0, <2>1, <2>3
        <3>1. m - 1 \in 0..MaxAttempts /\ m - 1 \notin Undefined
            <4> HIDE DEF Undefined
            <4> QED
                BY <2>1, <3>0
        <3>2. PICK u : u = Recursion(u, m - 1)
            BY <3>1
        <3>3. PICK h : h = [k \in 0..m |-> IF k = m THEN n * (1 + u[m - 1]) ELSE u[k]]
            OBVIOUS
        <3>4. ASSUME NEW k \in 0..m PROVE h[k] = IF k = 0 THEN 0 ELSE n * (1 + h[k - 1])
            <4>1. CASE k = m
                <5>1. m - 1 \in 0..m /\ m - 1 # m
                    BY <1>0, <3>0, <2>3
                <5>2. h[m - 1] = u[m - 1]
                    BY <3>3, <5>1
                <5> QED
                    BY <2>3, <3>3, <4>1, <5>2
            <4>2. CASE k # m
                <5>1. k \in 0..(m - 1) /\ (k # 0 => k - 1 \in 0..m /\ k - 1 # m)
                    BY <1>0, <3>0, <4>2
                <5>2. h[k] = u[k] /\ (k # 0 => h[k - 1] = u[k - 1])
                    BY <3>3, <4>2, <5>1
                <5>3. u[k] = IF k = 0 THEN 0 ELSE n * (1 + u[k - 1])
                    BY <3>2, <5>1
                <5> QED
                    BY <5>2, <5>3
            <4> QED
                BY <4>1, <4>2
        <3>5. h = Recursion(h, m)
            BY <3>3, <3>4
        <3> QED
            BY <2>1, <3>5
    <2> QED
        BY <2>2, <2>3
<1>2. PICK u : u = Recursion(u, MaxAttempts) /\ u[MaxAttempts] = AttemptBound(n)
    <2>1. \E u : u = Recursion(u, MaxAttempts)
        <3>1. MaxAttempts \in 0..MaxAttempts /\ MaxAttempts \notin Undefined
            <4> HIDE DEF Undefined
            <4> QED
                BY <1>0, <1>1
        <3> QED
            BY <3>1
    <2> QED
        BY <2>1 DEF AttemptBound
<1>3. u[0] = 0 /\ \A k \in 1..MaxAttempts : u[k] = n * (1 + u[k - 1])
    <2>1. 0 \in 0..MaxAttempts /\ \A k \in 1..MaxAttempts : k \in 0..MaxAttempts /\ k # 0
        BY <1>0
    <2> QED
        BY <1>2, <2>1
<1>4. \A k \in 0..MaxAttempts : u[k] \in Nat
    <2> DEFINE Wrong == {k \in 0..MaxAttempts : u[k] \notin Nat}
    <2> SUFFICES ASSUME Wrong # {} PROVE FALSE
        OBVIOUS
    <2>0. Wrong \in SUBSET Nat
        BY <1>0
    <2>1. PICK m \in Wrong : \A k \in Wrong : m <= k
        BY <2>0, LeastOf
    <2>2. m # 0 /\ m \in 1..MaxAttempts /\ m - 1 \in 0..MaxAttempts /\ ~(m <= m - 1)
        BY <1>0, <1>3, <2>1
    <2>3. u[m - 1] \in Nat
        BY <2>1, <2>2
    <2>4. u[m] = n * (1 + u[m - 1])
        BY <1>3, <2>2
    <2>5. \A x, y \in Nat : x * (1 + y) \in Nat
        OBVIOUS
    <2> QED
        BY <1>0, <2>1, <2>3, <2>4, <2>5
<1>5. u \in Counts
    BY <1>2, <1>4 DEF Counts
<1>6. ASSUME NEW k \in 0..(MaxAttempts - 1) PROVE u[k + 1] = n * (1 + u[k])
    <2>1. k + 1 \in 1..MaxAttempts /\ (k + 1) - 1 = k
        BY <1>0
    <2> QED
        BY <1>3, <2>1
<1> QED
    BY <1>2, <1>3, <1>5, <1>6 DEF UpToBounds

\* f is what faults add, N the schedulers; s <= u are what is compared.
LEMMA BoundGrows ==
    \A N, f, k, s, u \in Nat : s <= u /\ (k <= u \/ f = 0) =>
        /\ (N + f) + N * s + k * f <= (N + f) * (1 + u)
        /\ N + f # 0 => k + 1 <= (N + f) * (1 + u) \/ f = 0
<1> SUFFICES ASSUME NEW N \in Nat, NEW f \in Nat, NEW k \in Nat, NEW s \in Nat, NEW u \in Nat,
                    s <= u, k <= u \/ f = 0
             PROVE  /\ (N + f) + N * s + k * f <= (N + f) * (1 + u)
                    /\ N + f # 0 => k + 1 <= (N + f) * (1 + u) \/ f = 0
    OBVIOUS
<1>1. PICK d \in Nat : u = s + d
    <2>1. u - s \in Nat /\ u = s + (u - s)
        OBVIOUS
    <2> QED
        BY <2>1
<1>2. N * u = N * s + N * d /\ N * s \in Nat /\ N * d \in Nat
    BY <1>1
<1>3. k * f <= f * u /\ k * f \in Nat /\ f * u \in Nat
    <2>1. CASE f = 0
        BY <2>1
    <2>2. CASE k <= u
        <3>1. PICK g \in Nat : u = k + g
            <4>1. u - k \in Nat /\ u = k + (u - k)
                BY <2>2
            <4> QED
                BY <4>1
        <3>2. f * u = k * f + f * g /\ k * f \in Nat /\ f * g \in Nat
            BY <3>1
        <3> QED
            BY <3>2
    <2> QED
        BY <2>1, <2>2
<1>4. (N + f) * (1 + u) = (N + f) + N * u + f * u
    OBVIOUS
<1>5. (N + f) + N * s + k * f <= (N + f) * (1 + u)
    <2>1. PICK a \in Nat, b \in Nat, c \in Nat, e \in Nat :
              a = N * s /\ b = N * d /\ c = k * f /\ e = f * u
        BY <1>2, <1>3
    <2>2. c <= e /\ (N + f) * (1 + u) = (N + f) + (a + b) + e
        BY <1>2, <1>3, <1>4, <2>1
    <2>3. (N + f) + a + c <= (N + f) + (a + b) + e
        BY <2>1, <2>2
    <2> QED
        BY <2>1, <2>2, <2>3
<1>6. ASSUME N + f # 0, f # 0 PROVE k + 1 <= (N + f) * (1 + u)
    <2>1. PICK g \in Nat : f = 1 + g
        <3>1. f - 1 \in Nat /\ f = 1 + (f - 1)
            BY <1>6
        <3> QED
            BY <3>1
    <2>2. f * u = u + g * u /\ g * u \in Nat /\ N * u \in Nat
        BY <2>1
    <2>3. k <= u
        BY <1>6
    <2>4. PICK a \in Nat, b \in Nat : a = g * u /\ b = N * u
        BY <2>2
    <2>5. (N + f) * (1 + u) = (N + f) + b + (u + a)
        BY <1>4, <2>2, <2>4
    <2> QED
        BY <1>6, <2>1, <2>3, <2>4, <2>5
<1> QED
    BY <1>5, <1>6

LEMMA TallyBounded ==
    ASSUME cbFaults \in Nat, NEW c, NEW total \in Counts, NEW epochs \in Counts, Tally(c, total, epochs)
    PROVE  dialled[c] <= AttemptBound(Cardinality(Schedulers) + cbFaults)
<1>1. PICK N \in Nat, f \in Nat : N = Cardinality(Schedulers) /\ f = cbFaults
    BY CallersCounted
<1>2. PICK u : UpToBounds(u, N + f)
    <2>1. N + f \in Nat
        OBVIOUS
    <2> QED
        BY <2>1, UpToBoundsExist
<1>3. /\ u \in Counts /\ u[0] = 0 /\ u[MaxAttempts] = AttemptBound(N + f)
      /\ \A k \in 0..(MaxAttempts - 1) : u[k + 1] = (N + f) * (1 + u[k])
    BY <1>2 DEF UpToBounds
<1> DEFINE Bounded(k) == /\ total[k] <= u[k] /\ (k <= u[k] \/ f = 0)
                         /\ total[k + 1] <= (N + f) + N * total[k] + k * f
<1>4. ASSUME NEW k \in 0..(MaxAttempts - 1)
      PROVE  /\ k \in Nat /\ total[k] \in Nat /\ total[k + 1] \in Nat /\ epochs[k] \in Nat /\ u[k] \in Nat
             /\ total[k] <= total[k + 1] /\ total[k + 1] - total[k] <= N * epochs[k] + f
    <2>1. /\ k \in Nat /\ total[k] \in Nat /\ total[k + 1] \in Nat /\ epochs[k] \in Nat /\ u[k] \in Nat
        BY <1>3, Indices
    <2>2. PICK m \in Nat : m = Cardinality(MayCall(c, k))
        BY CallersCounted
    <2>3. PICK p \in Nat : p = N * epochs[k]
        <3>1. \A x, y \in Nat : x * y \in Nat
            OBVIOUS
        <3> QED
            BY <2>1, <3>1
    <2>4. total[k] <= total[k + 1] /\ total[k + 1] - total[k] + m <= p + f
        BY <1>1, <2>2, <2>3 DEF Tally
    <2> QED
        BY <2>1, <2>2, <2>3, <2>4
\* What holds at a count gives the bound of the next one.
<1>5. ASSUME NEW k \in 0..(MaxAttempts - 1), Bounded(k)
      PROVE  total[k + 1] <= u[k + 1] /\ (k + 1 <= u[k + 1] \/ f = 0)
    <2>1. /\ (N + f) + N * total[k] + k * f <= (N + f) * (1 + u[k])
          /\ N + f # 0 => k + 1 <= (N + f) * (1 + u[k]) \/ f = 0
        BY <1>4, <1>5, BoundGrows
    <2>2. u[k + 1] = (N + f) * (1 + u[k]) /\ u[k + 1] \in Nat
        BY <1>3, Indices
    <2>3. PICK b \in Nat : b = (N + f) + N * total[k] + k * f
        <3>1. \A x, y \in Nat : x * y \in Nat /\ x + y \in Nat
            OBVIOUS
        <3>2. N * total[k] \in Nat /\ k * f \in Nat /\ N + f \in Nat
            BY <1>4, <3>1
        <3> QED
            BY <3>1, <3>2
    <2>4. total[k + 1] <= b /\ b <= u[k + 1]
        BY <1>5, <2>1, <2>2, <2>3
    <2>5. N + f = 0 => f = 0
        OBVIOUS
    <2> QED
        BY <1>4, <2>1, <2>2, <2>3, <2>4, <2>5
<1>6. Bounded(0)
    <2>1. 0 \in 0..(MaxAttempts - 1) /\ total[0] = 0 /\ u[0] = 0 /\ epochs[0] \in Nat /\ epochs[0] <= 1
        BY <1>3, Indices DEF Tally
    <2>2. N * 0 = 0 /\ N * 1 = N /\ 0 * f = 0
        OBVIOUS
    <2>3. epochs[0] = 0 \/ epochs[0] = 1
        BY <2>1
    <2>4. N * epochs[0] = 0 \/ N * epochs[0] = N
        BY <2>2, <2>3
    <2>5. total[0 + 1] \in Nat /\ total[0 + 1] - total[0] <= N * epochs[0] + f
        BY <1>4, <2>1
    <2>6. total[0 + 1] <= N + f
        BY <2>1, <2>4, <2>5
    <2> QED
        BY <2>1, <2>2, <2>6
<1>7. ASSUME NEW k \in 0..(MaxAttempts - 2), Bounded(k) PROVE Bounded(k + 1)
    <2>0. k \in 0..(MaxAttempts - 1) /\ k + 1 \in 0..(MaxAttempts - 1) /\ k + 1 \in 0..MaxAttempts /\ k \in Nat
        BY Indices
    <2>1. total[k + 1] <= u[k + 1] /\ (k + 1 <= u[k + 1] \/ f = 0)
        BY <1>5, <1>7, <2>0
    <2>2. PICK a \in Nat, b \in Nat, d \in Nat, e \in Nat :
              a = total[k] /\ b = total[k + 1] /\ d = total[k + 1 + 1] /\ e = epochs[k + 1]
        BY <1>4, <2>0
    <2>3. a <= b /\ d - b <= N * e + f
        BY <1>4, <2>0, <2>2
    <2>4. e <= b - a
        <3>1. PICK m \in Nat : m = Cardinality(Unwritten(c, k))
            BY CallersCounted
        <3>2. e + m <= b - a
            BY <2>2, <3>1 DEF Tally
        <3> QED
            BY <2>2, <3>1, <3>2
    <2>5. PICK g \in Nat : b = a + e + g
        <3>1. b - a - e \in Nat /\ b = a + e + (b - a - e)
            BY <2>2, <2>3, <2>4
        <3> QED
            BY <3>1
    <2>6. N * b = N * a + N * e + N * g /\ N * a \in Nat /\ N * e \in Nat /\ N * g \in Nat
        BY <2>5
    <2>7. b <= (N + f) + N * a + k * f /\ (k + 1) * f = k * f + f /\ k * f \in Nat
        BY <1>7, <2>0, <2>2
    <2>8. d <= (N + f) + N * b + (k + 1) * f
        <3>1. PICK x \in Nat, y \in Nat, z \in Nat, w \in Nat : x = N * a /\ y = N * e /\ z = N * g /\ w = k * f
            BY <2>6, <2>7
        <3>2. /\ N * b = x + y + z /\ (k + 1) * f = w + f
              /\ d - b <= y + f /\ b <= (N + f) + x + w
            BY <2>3, <2>6, <2>7, <3>1
        <3>3. d <= (N + f) + (x + y + z) + (w + f)
            BY <3>2
        <3> QED
            BY <3>2, <3>3
    <2> QED
        BY <2>1, <2>2, <2>8
<1>8. ASSUME NEW k \in 0..(MaxAttempts - 1) PROVE Bounded(k)
    <2> DEFINE Wrong == {j \in 0..(MaxAttempts - 1) : ~Bounded(j)}
    <2> HIDE DEF Bounded
    <2>1. ASSUME Wrong # {} PROVE FALSE
        <3>0. Wrong \in SUBSET Nat
            OBVIOUS
        <3>1. PICK m \in Wrong : \A j \in Wrong : m <= j
            BY <2>1, <3>0, LeastOf
        <3>2. m # 0 /\ m \in 0..(MaxAttempts - 1) /\ ~Bounded(m)
            BY <1>6, <3>1
        <3>3. MaxAttempts \in Nat
            BY CallbackAssumption
        <3>4. m - 1 \in 0..(MaxAttempts - 2) /\ (m - 1) + 1 = m /\ ~(m <= m - 1) /\ m - 1 \in 0..(MaxAttempts - 1)
            BY <3>2, <3>3
        <3>5. Bounded(m - 1)
            BY <3>1, <3>4
        <3>6. Bounded((m - 1) + 1)
            BY <1>7, <3>4, <3>5
        <3> QED
            BY <3>2, <3>4, <3>6
    <2> QED
        BY <2>1
<1> QED
    <2>0. MaxAttempts \in Nat \ {0}
        BY CallbackAssumption
    <2>1. MaxAttempts - 1 \in 0..(MaxAttempts - 1) /\ (MaxAttempts - 1) + 1 = MaxAttempts
        BY <2>0
    <2>2. Bounded(MaxAttempts - 1)
        BY <1>8, <2>1
    <2> HIDE DEF Bounded
    <2>3. total[MaxAttempts] <= u[MaxAttempts]
        BY <1>5, <2>1, <2>2
    <2> QED
        BY <1>1, <1>3, <2>3 DEF Tally

(* CallsInv holds in every reachable state, however many schedulers there    *)
(* are: each count of a callback is attempted so often, and not more.        *)
THEOREM CallsInvariant == ServicesSpec => []CallsInv
<1>1. ServicesInit => CallsInv
    BY InitCalls DEF ServicesInit
<1>2. [ServicesNext]_servicesVars => [CallbackNext]_callbackVars
    BY DEF ServicesNext, servicesVars
<1>3. CallsInv /\ [ServicesNext]_servicesVars => CallsInv'
    BY <1>2, NextCalls
<1> QED
    BY <1>1, <1>3, PTL DEF ServicesSpec

LEMMA CallsAreBounded == CallsInv => CallsBounded
<1> SUFFICES ASSUME CallsInv, NEW c \in Callbacks
             PROVE  dialled[c] <= AttemptBound(Cardinality(Schedulers) + cbFaults)
    BY DEF CallsBounded
<1>1. cbFaults \in Nat
    BY CallbackAssumption DEF CallsInv, CbInv
<1>2. PICK t \in Counts, e \in Counts : Tally(c, t, e)
    BY DEF CallsInv
<1> QED
    BY <1>1, <1>2, TallyBounded

-----------------------------------------------------------------------------
(***************************************************************************)
(* Trunks. A selection's candidates are members it has not come to yet.    *)
(***************************************************************************)
Pick == [at : {"idle", "scan", "done", "none"}, next : 1..(TrunkCount + 1),
         got : 0..TrunkCount, upAll : SUBSET Trunks]

TrunkInv ==
    /\ health \in [Trunks -> [status : {"active", "down"}, fails : 0..FailLimit]]
    /\ sweep \subseteq Trunks
    /\ misses \in [Trunks -> 0..FailLimit]
    /\ picks \in [Selectors -> Pick]
    /\ \A t \in Trunks : /\ health[t].fails = misses[t]
                         /\ health[t].status = "down" <=> misses[t] = FailLimit
    /\ \A s \in Selectors :
          /\ picks[s].at = "done" => picks[s].got # 0
          /\ picks[s].at = "none" => picks[s].upAll = {}
          /\ picks[s].at = "scan" =>
                \A t \in picks[s].upAll : picks[s].next <= t /\ health[t].status # "down"

LEMMA NextTrunk == TrunkInv /\ [TrunkNext]_trunkVars => TrunkInv'
<1> SUFFICES ASSUME TrunkInv, [TrunkNext]_trunkVars PROVE TrunkInv'
    OBVIOUS
<1> USE TrunkAssumption DEF Trunks
<1>0. /\ health \in [Trunks -> [status : {"active", "down"}, fails : 0..FailLimit]]
      /\ sweep \subseteq Trunks /\ misses \in [Trunks -> 0..FailLimit]
      /\ picks \in [Selectors -> Pick]
    BY DEF TrunkInv
\* A step of one selection.
<1>s. ASSUME NEW s \in Selectors, NEW new \in Pick, picks' = [picks EXCEPT ![s] = new],
             UNCHANGED <<health, sweep, misses>>,
             new.at = "done" => new.got # 0,
             new.at = "none" => new.upAll = {},
             new.at = "scan" => \A t \in new.upAll : new.next <= t /\ health[t].status # "down"
      PROVE  TrunkInv'
    <2>1. picks' \in [Selectors -> Pick] /\ picks'[s] = new
          /\ \A v \in Selectors \ {s} : picks'[v] = picks[v]
        BY <1>0, <1>s
    <2> QED
        BY <1>0, <1>s, <2>1 DEF TrunkInv
<1>n. NoPick \in Pick /\ NoPick.at = "idle" /\ NoPick.next = 1
    BY DEF NoPick, Pick
<1>1. CASE CheckAll
    BY <1>1 DEF CheckAll, TrunkInv
<1>2. ASSUME NEW t \in Trunks, NEW success \in BOOLEAN, CheckTrunk(t, success) PROVE TrunkInv'
    <2>1. /\ sweep' = sweep \ {t}
          /\ health' = [health EXCEPT ![t] = Recorded(health[t], success)]
          /\ misses' = [misses EXCEPT ![t] = IF success THEN 0
                            ELSE IF misses[t] < FailLimit THEN misses[t] + 1 ELSE misses[t]]
          /\ picks' = [s \in Selectors |->
                [picks[s] EXCEPT !.upAll = {u \in picks[s].upAll : health'[u].status # "down"}]]
        BY <1>2 DEF CheckTrunk
    <2>2. Recorded(health[t], success) \in [status : {"active", "down"}, fails : 0..FailLimit]
        BY <1>0 DEF Recorded
    <2>3. health' \in [Trunks -> [status : {"active", "down"}, fails : 0..FailLimit]]
          /\ misses' \in [Trunks -> 0..FailLimit]
        BY <1>0, <2>1, <2>2
    <2>4. health[t].fails = misses[t] /\ (health[t].status = "down" <=> misses[t] = FailLimit)
        BY DEF TrunkInv
    <2>5. health'[t].fails = misses'[t] /\ (health'[t].status = "down" <=> misses'[t] = FailLimit)
        BY <1>0, <2>1, <2>4 DEF Recorded
    <2>6. \A u \in Trunks : /\ health'[u].fails = misses'[u]
                            /\ health'[u].status = "down" <=> misses'[u] = FailLimit
        BY <1>0, <2>1, <2>5 DEF TrunkInv
    <2>7. ASSUME NEW s \in Selectors
          PROVE  /\ picks'[s] \in Pick /\ picks'[s].at = picks[s].at /\ picks'[s].got = picks[s].got
                 /\ picks'[s].next = picks[s].next
                 /\ picks'[s].upAll = {u \in picks[s].upAll : health'[u].status # "down"}
        BY <1>0, <2>1 DEF Pick
    <2>8. picks' \in [Selectors -> Pick]
        BY <2>1, <2>7
    <2>9. ASSUME NEW s \in Selectors
          PROVE  /\ picks'[s].at = "done" => picks'[s].got # 0
                 /\ picks'[s].at = "none" => picks'[s].upAll = {}
                 /\ picks'[s].at = "scan" =>
                       \A u \in picks'[s].upAll : picks'[s].next <= u /\ health'[u].status # "down"
        BY <2>7 DEF TrunkInv
    <2> QED
        BY <1>0, <2>1, <2>3, <2>6, <2>8, <2>9 DEF TrunkInv
<1>3. ASSUME NEW s \in Selectors, SelectBegin(s) PROVE TrunkInv'
    <2> DEFINE up == {t \in Trunks : health[t].status # "down"}
               new == [NoPick EXCEPT !.at = "scan", !.upAll = up]
    <2>1. picks' = [picks EXCEPT ![s] = new] /\ UNCHANGED <<health, sweep, misses>>
        BY <1>3 DEF SelectBegin
    <2>2. new \in Pick /\ new.at = "scan" /\ new.next = 1 /\ new.upAll = up
        <3>1. up \in SUBSET Trunks
            OBVIOUS
        <3> HIDE DEF up
        <3> QED
            BY <1>n, <3>1 DEF Pick
    <2>3. \A t \in up : 1 <= t /\ health[t].status # "down"
        OBVIOUS
    <2> HIDE DEF new, up
    <2> QED
        BY <1>s, <2>1, <2>2, <2>3
<1>4. ASSUME NEW s \in Selectors, NEW found \in BOOLEAN, SelectNext(s, found) PROVE TrunkInv'
    <2>0. PICK t : t = picks[s].next
        OBVIOUS
    <2>1. t \in Trunks /\ picks[s].at = "scan" /\ picks[s] \in Pick
        BY <1>4, <1>0, <2>0 DEF SelectNext, Pick
    <2>2. \A u \in picks[s].upAll : t <= u /\ health[u].status # "down"
        BY <2>0, <2>1 DEF TrunkInv
    <2>3. CASE health[t].status # "down" /\ found
        <3> DEFINE new == [picks[s] EXCEPT !.at = "done", !.got = t]
        <3>0. t \in 0..TrunkCount /\ t # 0
            BY <2>1
        <3>1. new \in Pick /\ new.at = "done" /\ new.got # 0
            BY <2>1, <3>0 DEF Pick
        <3>2. picks' = [picks EXCEPT ![s] = new] /\ UNCHANGED <<health, sweep, misses>>
            BY <1>4, <2>0, <2>3 DEF SelectNext
        <3> HIDE DEF new
        <3> QED
            BY <1>s, <3>1, <3>2
    <2>4. CASE ~(health[t].status # "down" /\ found)
        <3> DEFINE up == IF found THEN picks[s].upAll ELSE picks[s].upAll \ {t}
                   new == [picks[s] EXCEPT !.next = t + 1, !.upAll = up]
        <3>0. up \in SUBSET Trunks /\ t + 1 \in 1..(TrunkCount + 1)
            BY <2>1 DEF Pick
        <3>1. new \in Pick /\ new.at = "scan" /\ new.next = t + 1 /\ new.upAll = up
            <4> HIDE DEF up
            <4> QED
                BY <2>1, <3>0 DEF Pick
        <3>2. picks' = [picks EXCEPT ![s] = new] /\ UNCHANGED <<health, sweep, misses>>
            <4>1. ~(health[picks[s].next].status # "down" /\ found)
                BY <2>0, <2>4
            <4>2. picks' = [picks EXCEPT ![s] = [picks[s] EXCEPT !.next = picks[s].next + 1,
                        !.upAll = IF found THEN picks[s].upAll ELSE picks[s].upAll \ {picks[s].next}]]
                BY <1>4, <4>1 DEF SelectNext
            <4> QED
                BY <1>4, <2>0, <4>2 DEF SelectNext
        <3>3. \A u \in up : t + 1 <= u /\ health[u].status # "down"
            <4>1. t \notin up
                BY <2>2, <2>4
            <4> QED
                BY <2>1, <2>2, <4>1 DEF Pick
        <3> HIDE DEF new, up
        <3> QED
            BY <1>s, <3>1, <3>2, <3>3
    <2> QED
        BY <2>3, <2>4
<1>5. ASSUME NEW s \in Selectors, SelectFails(s) PROVE TrunkInv'
    <2>1. picks[s] \in Pick /\ picks[s].at = "scan" /\ picks[s].next > TrunkCount
        BY <1>5, <1>0 DEF SelectFails
    <2>2. picks[s].upAll = {}
        BY <2>1 DEF TrunkInv, Pick
    <2> DEFINE new == [picks[s] EXCEPT !.at = "none"]
    <2>3. new \in Pick /\ new.at = "none" /\ new.upAll = {}
        BY <2>1, <2>2 DEF Pick
    <2>4. picks' = [picks EXCEPT ![s] = new] /\ UNCHANGED <<health, sweep, misses>>
        BY <1>5 DEF SelectFails
    <2> HIDE DEF new
    <2> QED
        BY <1>s, <2>3, <2>4
<1>6. ASSUME NEW s \in Selectors, SelectReturns(s) PROVE TrunkInv'
    BY <1>6, <1>s, <1>n DEF SelectReturns
<1>7. CASE UNCHANGED trunkVars
    BY <1>7 DEF trunkVars, TrunkInv
<1> QED
    BY <1>1, <1>2, <1>3, <1>4, <1>5, <1>6, <1>7 DEF TrunkNext

LEMMA InitTrunk == TrunkInit => TrunkInv
BY TrunkAssumption DEF TrunkInit, TrunkInv, Pick, NoPick, Trunks

(* TrunkInv holds in every reachable state.                                  *)
THEOREM TrunkInvariant == ServicesSpec => []TrunkInv
<1>1. ServicesInit => TrunkInv
    BY InitTrunk DEF ServicesInit
<1>2. [ServicesNext]_servicesVars => [TrunkNext]_trunkVars
    BY DEF ServicesNext, servicesVars
<1>3. TrunkInv /\ [ServicesNext]_servicesVars => TrunkInv'
    BY <1>2, NextTrunk
<1> QED
    BY <1>1, <1>3, PTL DEF ServicesSpec

-----------------------------------------------------------------------------
(***************************************************************************)
(* Outbound calls. What a goroutine carries from the list, the cache and   *)
(* the rules belongs to the tenant it dials for.                           *)
(***************************************************************************)
DialRec == [at : {"idle", "dnc", "cache", "list", "store", "match", "cli", "create", "created"},
            tenant : DialTenants \cup {NoRow}, callee : Callees \cup {NoRow},
            list : SUBSET CacheEntry, rule : CacheEntry \cup {NoRow},
            cli : Phones \cup {NoRow}, banned : BOOLEAN, failed : BOOLEAN]

OfTenant(list, t) == \A e \in list : e.row.tenant = t

CacheOK(cache) ==
    /\ cache.list \subseteq CacheEntry
    /\ OfTenant(cache.list, cache.tenant)

DialOK(d, table) ==
    /\ d.at \in {"store", "match"} => OfTenant(d.list, d.tenant)
    /\ d.rule # NoRow => d.rule.row.tenant = d.tenant
    /\ d.banned => d.at = "dnc" \/ d.failed
    /\ d.at = "dnc" /\ d.banned => Listed(table, d.tenant, d.callee)

OutInv ==
    /\ rules \in [Rules -> RuleRow \cup {NoRow}]
    /\ dnc \in [DncIds -> DncRow \cup {NoRow}]
    /\ cliCounter \in 0..(PoolSize - 1)
    /\ ruleEdits \in 0..MaxRuleEdits /\ dialCount \in 0..MaxDials
    /\ dials \in [Diallers -> DialRec]
    /\ routeCache \in [tenant : DialTenants \cup {NoRow}, list : SUBSET CacheEntry, valid : BOOLEAN]
    /\ CacheOK(routeCache)
    /\ \A g \in Diallers : DialOK(dials[g], dnc)

LEMMA NextOut == OutInv /\ [OutboundNext]_outboundVars => OutInv'
<1> SUFFICES ASSUME OutInv, [OutboundNext]_outboundVars PROVE OutInv'
    OBVIOUS
<1> USE OutboundAssumption
<1>0. /\ rules \in [Rules -> RuleRow \cup {NoRow}] /\ dnc \in [DncIds -> DncRow \cup {NoRow}]
      /\ cliCounter \in 0..(PoolSize - 1)
      /\ ruleEdits \in 0..MaxRuleEdits /\ dialCount \in 0..MaxDials
      /\ dials \in [Diallers -> DialRec] /\ CacheOK(routeCache)
      /\ routeCache \in [tenant : DialTenants \cup {NoRow}, list : SUBSET CacheEntry, valid : BOOLEAN]
      /\ \A g \in Diallers : DialOK(dials[g], dnc)
    BY DEF OutInv
<1>r. Rest \in DialRec /\ \A table : DialOK(Rest, table)
    BY DEF Rest, DialRec, DialOK
\* What a step of one goroutine has to keep.
<1>s. ASSUME NEW g \in Diallers, NEW new \in DialRec, DialOK(new, dnc), Step(g, new),
             UNCHANGED <<rules, dnc, ruleEdits>>, dialCount' \in 0..MaxDials,
             cliCounter' \in 0..(PoolSize - 1), CacheOK(routeCache'),
             routeCache' \in [tenant : DialTenants \cup {NoRow}, list : SUBSET CacheEntry,
                              valid : BOOLEAN]
      PROVE  OutInv'
    <2>1. dials' \in [Diallers -> DialRec] /\ dials'[g] = new
          /\ \A h \in Diallers \ {g} : dials'[h] = dials[h]
        BY <1>0, <1>s DEF Step
    <2>2. \A h \in Diallers : DialOK(dials'[h], dnc')
        BY <1>0, <1>s, <2>1
    <2> QED
        BY <1>0, <1>s, <2>1, <2>2 DEF OutInv
\* A change of the rules leaves the goroutines alone.
<1>e. ASSUME rules' \in [Rules -> RuleRow \cup {NoRow}], UNCHANGED <<dnc, dials, requestVars>>, RuleEdit
      PROVE  OutInv'
    <2>1. ruleEdits' \in 0..MaxRuleEdits
        BY <1>e, <1>0 DEF RuleEdit
    <2> QED
        BY <1>e, <1>0, <2>1 DEF OutInv, requestVars
<1>1. ASSUME NEW r \in Rules, NEW p \in Priorities, NEW set \in {{}, Callees}, NEW t \in DialTenants,
             RuleCreate(t, r, p, set)
      PROVE  OutInv'
    <2>1. [tenant |-> t, priority |-> p, matches |-> set, isActive |-> TRUE] \in RuleRow
        BY DEF RuleRow
    <2>2. rules' \in [Rules -> RuleRow \cup {NoRow}]
        BY <1>1, <1>0, <2>1 DEF RuleCreate, Inserted
    <2> QED
        BY <1>1, <1>e, <2>2 DEF RuleCreate
<1>2. ASSUME NEW r \in Rules, NEW p \in Priorities, NEW set \in {{}, Callees}, NEW active \in BOOLEAN,
             RuleUpdate(r, p, set, active)
      PROVE  OutInv'
    <2>1. rules[r] \in RuleRow
        BY <1>2, <1>0 DEF RuleUpdate, Ids
    <2>2. [rules[r] EXCEPT !.priority = p, !.matches = set, !.isActive = active] \in RuleRow
        BY <2>1 DEF RuleRow
    <2>3. rules' \in [Rules -> RuleRow \cup {NoRow}]
        BY <1>2, <1>0, <2>2 DEF RuleUpdate, Updated, Ids
    <2> QED
        BY <1>2, <1>e, <2>3 DEF RuleUpdate
<1>3. ASSUME NEW r \in Rules, RuleDelete(r) PROVE OutInv'
    <2>1. rules' \in [Rules -> RuleRow \cup {NoRow}]
        BY <1>3, <1>0 DEF RuleDelete, Deleted
    <2> QED
        BY <1>3, <1>e, <2>1 DEF RuleDelete
<1>4. ASSUME NEW i \in DncIds, RemoveEntry(i) PROVE OutInv'
    <2>1. dnc' \in [DncIds -> DncRow \cup {NoRow}]
        BY <1>4, <1>0 DEF RemoveEntry, Deleted
    <2>2. PICK table : table = dnc'
        OBVIOUS
    <2>3. ASSUME NEW h \in Diallers
          PROVE  dials'[h] \in DialRec /\ DialOK(dials'[h], dnc')
        <3>0. PICK b : b = (dials[h].banned /\ Listed(table, dials[h].tenant, dials[h].callee))
            OBVIOUS
        <3>1. dials'[h] = [dials[h] EXCEPT !.banned = b]
            BY <1>4, <2>2, <3>0 DEF RemoveEntry
        <3>2. dials[h] \in DialRec /\ DialOK(dials[h], dnc)
            BY <1>0
        <3>3. b \in BOOLEAN /\ (b => dials[h].banned)
              /\ (b => Listed(table, dials[h].tenant, dials[h].callee))
            BY <3>0
        <3>4. /\ dials'[h].at = dials[h].at /\ dials'[h].tenant = dials[h].tenant
              /\ dials'[h].callee = dials[h].callee /\ dials'[h].list = dials[h].list
              /\ dials'[h].rule = dials[h].rule /\ dials'[h].failed = dials[h].failed
              /\ dials'[h].banned = b
            BY <3>1, <3>2 DEF DialRec
        <3>5. dials'[h] \in DialRec
            BY <3>1, <3>2, <3>3 DEF DialRec
        <3> QED
            BY <2>2, <3>2, <3>3, <3>4, <3>5 DEF DialOK
    <2>4. dials' \in [Diallers -> DialRec]
        BY <1>4, <2>3 DEF RemoveEntry
    <2> QED
        BY <1>4, <1>0, <2>1, <2>3, <2>4 DEF OutInv, RemoveEntry, RuleEdit, requestVars
<1>5. ASSUME NEW i \in DncIds, NEW t \in DialTenants, NEW n \in Callees, AddEntry(t, i, n) PROVE OutInv'
    <2>1. dnc' \in [DncIds -> DncRow \cup {NoRow}]
        BY <1>5, <1>0 DEF AddEntry, Inserted, DncRow
    <2>2. \A u, m : Listed(dnc, u, m) => Listed(dnc', u, m)
        BY <1>5, <1>0 DEF AddEntry, Inserted, Listed, Ids
    <2>3. \A h \in Diallers : DialOK(dials[h], dnc')
        BY <1>0, <2>2 DEF DialOK
    <2> QED
        BY <1>5, <1>0, <2>1, <2>3 DEF OutInv, AddEntry, RuleEdit, requestVars
<1>6. ASSUME NEW g \in Diallers, NEW t \in DialTenants, NEW n \in Callees, DialBegin(g, t, n) PROVE OutInv'
    <2>0. PICK b : b = Listed(dnc, t, n)
        OBVIOUS
    <2>a. b \in BOOLEAN
        BY <2>0 DEF Listed
    <2> DEFINE new == [Rest EXCEPT !.at = "dnc", !.tenant = t, !.callee = n, !.banned = b]
    <2>1. new \in DialRec
        BY <1>r, <2>a DEF DialRec
    <2>2. new.at = "dnc" /\ new.rule = NoRow /\ new.tenant = t /\ new.callee = n /\ new.banned = b
        BY DEF Rest
    <2>3. DialOK(new, dnc)
        BY <2>0, <2>2 DEF DialOK
    <2>4. Step(g, new) /\ dialCount' \in 0..MaxDials
        BY <1>6, <1>0, <2>0 DEF DialBegin, Step
    <2> HIDE DEF new
    <2> QED
        BY <1>6, <1>0, <1>s, <2>1, <2>3, <2>4 DEF DialBegin
<1>7. ASSUME NEW g \in Diallers, DialStep(g) PROVE OutInv'
    <2>0. dials[g] \in DialRec /\ DialOK(dials[g], dnc)
        BY <1>0
    \* The steps that leave the cache and the counter alone.
    <2>s. ASSUME NEW new \in DialRec, DialOK(new, dnc), Step(g, new),
                 UNCHANGED <<rest, routeCache, cliCounter>>
          PROVE  OutInv'
        BY <1>0, <1>s, <2>s DEF rest
    <2>r. ASSUME Step(g, Rest), UNCHANGED <<rest, routeCache, cliCounter>> PROVE OutInv'
        BY <1>r, <2>r, <2>s
    \* The steps that only go on to another place, from a place where nothing
    \* is known of the list any more, or keep what is known.
    <2>m. ASSUME NEW a \in {"cache", "list", "match", "create", "created"},
                 a = "match" => OfTenant(dials[g].list, dials[g].tenant),
                 ~dials[g].banned \/ dials[g].failed
          PROVE  [dials[g] EXCEPT !.at = a] \in DialRec /\ DialOK([dials[g] EXCEPT !.at = a], dnc)
        <3> DEFINE new == [dials[g] EXCEPT !.at = a]
        <3>1. new \in DialRec
            BY <2>0, <2>m DEF DialRec
        <3>2. /\ new.at = a /\ new.tenant = dials[g].tenant /\ new.list = dials[g].list
              /\ new.rule = dials[g].rule /\ new.banned = dials[g].banned
              /\ new.failed = dials[g].failed
            BY <2>0 DEF DialRec
        <3> HIDE DEF new
        <3>3. DialOK(new, dnc)
            BY <2>0, <2>m, <3>2 DEF DialOK
        <3> QED
            BY <3>1, <3>3 DEF new
    <2>1. CASE CheckDNC(g)
        <3>1. CASE Listed(dnc, dials[g].tenant, dials[g].callee)
            BY <2>1, <2>r, <3>1 DEF CheckDNC
        <3>2. CASE ~Listed(dnc, dials[g].tenant, dials[g].callee)
            <4>1. ~dials[g].banned
                BY <2>0, <2>1, <3>2 DEF CheckDNC, DialOK
            <4> QED
                BY <2>1, <2>s, <2>m, <3>2, <4>1 DEF CheckDNC
        <3> QED
            BY <3>1, <3>2
    <2>2. CASE CheckDNCFails(g)
        <3> DEFINE new == [dials[g] EXCEPT !.at = "cache", !.failed = TRUE]
        <3>1. new \in DialRec
            BY <2>0 DEF DialRec
        <3>2. /\ new.at = "cache" /\ new.tenant = dials[g].tenant
              /\ new.rule = dials[g].rule /\ new.failed
            BY <2>0 DEF DialRec
        <3>3. Step(g, new) /\ UNCHANGED <<rest, routeCache, cliCounter>>
            BY <2>2 DEF CheckDNCFails
        <3> HIDE DEF new
        <3>4. DialOK(new, dnc)
            BY <2>0, <3>2 DEF DialOK
        <3> QED
            BY <2>s, <3>1, <3>3, <3>4
    <2>b. dials[g].at # "dnc" => ~dials[g].banned \/ dials[g].failed
        BY <2>0 DEF DialOK
    <2>3. CASE GetCachedRules(g)
        <3>1. CASE routeCache.tenant = dials[g].tenant /\ routeCache.valid
            <4> DEFINE new == [dials[g] EXCEPT !.at = "match", !.list = routeCache.list]
            <4>1. new \in DialRec
                BY <1>0, <2>0 DEF DialRec, CacheOK
            <4>2. /\ new.at = "match" /\ new.tenant = dials[g].tenant /\ new.list = routeCache.list
                  /\ new.rule = dials[g].rule /\ new.banned = dials[g].banned
                  /\ new.failed = dials[g].failed
                BY <2>0 DEF DialRec
            <4>3. Step(g, new) /\ UNCHANGED <<rest, routeCache, cliCounter>> /\ dials[g].at = "cache"
                BY <2>3, <3>1 DEF GetCachedRules
            <4> HIDE DEF new
            <4>4. DialOK(new, dnc)
                BY <1>0, <2>0, <2>b, <3>1, <4>2, <4>3 DEF DialOK, CacheOK
            <4> QED
                BY <2>s, <4>1, <4>3, <4>4
        <3>2. CASE ~(routeCache.tenant = dials[g].tenant /\ routeCache.valid)
            <4>1. Step(g, [dials[g] EXCEPT !.at = "list"]) /\ dials[g].at = "cache"
                  /\ UNCHANGED <<rest, routeCache, cliCounter>>
                BY <2>3, <3>2 DEF GetCachedRules
            <4> QED
                BY <2>s, <2>m, <2>b, <4>1
        <3> QED
            BY <3>1, <3>2
    <2>4. CASE QueryRules(g)
        <3>0. PICK l : l = ListActive(dials[g].tenant)
            OBVIOUS
        <3>1. l \in SUBSET CacheEntry /\ OfTenant(l, dials[g].tenant)
            BY <1>0, <3>0 DEF ListActive, Ids, CacheEntry, OfTenant
        <3> DEFINE new == [dials[g] EXCEPT !.at = "store", !.list = l]
        <3>2. new \in DialRec
            BY <2>0, <3>1 DEF DialRec
        <3>3. /\ new.at = "store" /\ new.tenant = dials[g].tenant /\ new.list = l
              /\ new.rule = dials[g].rule /\ new.banned = dials[g].banned
              /\ new.failed = dials[g].failed
            BY <2>0 DEF DialRec
        <3>4. Step(g, new) /\ UNCHANGED <<rest, routeCache, cliCounter>> /\ dials[g].at = "list"
            BY <2>4, <3>0 DEF QueryRules
        <3> HIDE DEF new
        <3>5. DialOK(new, dnc)
            BY <2>0, <2>b, <3>1, <3>3, <3>4 DEF DialOK
        <3> QED
            BY <2>s, <3>2, <3>4, <3>5
    <2>5. CASE QueryRulesFails(g) \/ NoPolicy(g) \/ Answered(g)
        BY <2>5, <2>r DEF QueryRulesFails, NoPolicy, Answered
    <2>6. CASE StoreRules(g)
        <3>1. OfTenant(dials[g].list, dials[g].tenant) /\ dials[g].at = "store"
            BY <2>0, <2>6 DEF StoreRules, DialOK
        <3>2. routeCache' = [tenant |-> dials[g].tenant, list |-> dials[g].list, valid |-> TRUE]
              /\ UNCHANGED <<rest, cliCounter>>
            BY <2>6 DEF StoreRules
        <3>3. routeCache' \in [tenant : DialTenants \cup {NoRow}, list : SUBSET CacheEntry,
                               valid : BOOLEAN] /\ CacheOK(routeCache')
            BY <2>0, <3>1, <3>2 DEF DialRec, CacheOK
        <3>4. Step(g, [dials[g] EXCEPT !.at = "match"])
            BY <2>6 DEF StoreRules
        <3> QED
            BY <1>0, <1>s, <2>m, <2>b, <3>1, <3>2, <3>3, <3>4 DEF rest
    <2>7. CASE MatchRule(g)
        <3>1. CASE Step(g, Rest)
            BY <2>7, <2>r, <3>1 DEF MatchRule
        <3>2. CASE ~Step(g, Rest)
            <4>1. PICK e \in dials[g].list : Step(g, [dials[g] EXCEPT !.at = "cli", !.rule = e])
                BY <2>7, <3>2 DEF MatchRule
            <4>2. e \in CacheEntry /\ e.row.tenant = dials[g].tenant /\ dials[g].at = "match"
                BY <2>0, <2>7, <4>1 DEF MatchRule, DialOK, OfTenant, DialRec
            <4> DEFINE new == [dials[g] EXCEPT !.at = "cli", !.rule = e]
            <4>3. new \in DialRec
                BY <2>0, <4>2 DEF DialRec
            <4>4. /\ new.at = "cli" /\ new.tenant = dials[g].tenant /\ new.rule = e
                  /\ new.banned = dials[g].banned /\ new.failed = dials[g].failed
                BY <2>0 DEF DialRec
            <4>5. Step(g, new) /\ UNCHANGED <<rest, routeCache, cliCounter>>
                BY <2>7, <4>1 DEF MatchRule
            <4> HIDE DEF new
            <4>6. DialOK(new, dnc)
                BY <2>0, <2>b, <4>2, <4>4 DEF DialOK
            <4> QED
                BY <2>s, <4>3, <4>5, <4>6
        <3> QED
            BY <3>1, <3>2
    <2>8. ASSUME NEW strategy, NEW numbers, ChooseCLI(g, strategy, numbers) PROVE OutInv'
        <3>a. (cliCounter + 1) % PoolSize \in 0..(PoolSize - 1)
            BY <1>0 DEF PoolSize
        <3>b. cliCounter' \in {cliCounter, (cliCounter + 1) % PoolSize}
              /\ UNCHANGED <<rest, routeCache>> /\ dials[g].at = "cli"
            BY <2>8 DEF ChooseCLI
        <3>1. cliCounter' \in 0..(PoolSize - 1) /\ UNCHANGED <<rest, routeCache>> /\ dials[g].at = "cli"
            BY <1>0, <3>a, <3>b
        <3>2. CASE Step(g, Rest)
            BY <1>0, <1>r, <1>s, <3>1, <3>2 DEF rest
        <3>3. CASE ~Step(g, Rest)
            <4>1. PICK id \in Phones : Step(g, [dials[g] EXCEPT !.at = "create", !.cli = id])
                BY <2>8, <3>3 DEF ChooseCLI, CliChosen
            <4> DEFINE new == [dials[g] EXCEPT !.at = "create", !.cli = id]
            <4>2. new \in DialRec
                BY <2>0, <4>1 DEF DialRec
            <4>3. /\ new.at = "create" /\ new.tenant = dials[g].tenant /\ new.rule = dials[g].rule
                  /\ new.banned = dials[g].banned /\ new.failed = dials[g].failed
                BY <2>0 DEF DialRec
            <4> HIDE DEF new
            <4>4. DialOK(new, dnc)
                BY <2>0, <2>b, <3>1, <4>3 DEF DialOK
            <4>5. Step(g, new)
                BY <4>1 DEF new
            <4> QED
                BY <1>0, <1>s, <3>1, <4>2, <4>4, <4>5 DEF rest
        <3> QED
            BY <3>2, <3>3
    <2>9. CASE CreateCall(g)
        BY <2>9, <2>s, <2>m, <2>b DEF CreateCall
    <2> QED
        BY <1>7, <2>1, <2>2, <2>3, <2>4, <2>5, <2>6, <2>7, <2>8, <2>9 DEF DialStep
<1>8. CASE CacheExpires
    <2>1. routeCache' = [routeCache EXCEPT !.valid = FALSE] /\ UNCHANGED <<rest, cliCounter, dials>>
        BY <1>8 DEF CacheExpires
    <2>2. routeCache'.tenant = routeCache.tenant /\ routeCache'.list = routeCache.list
          /\ routeCache' \in [tenant : DialTenants \cup {NoRow}, list : SUBSET CacheEntry,
                              valid : BOOLEAN]
        BY <1>0, <2>1
    <2> QED
        BY <1>0, <2>1, <2>2 DEF OutInv, CacheOK, rest
<1>9. CASE UNCHANGED outboundVars
    BY <1>0, <1>9 DEF outboundVars, OutInv
<1> QED
    BY <1>1, <1>2, <1>3, <1>4, <1>5, <1>6, <1>7, <1>8, <1>9 DEF OutboundNext

LEMMA InitOut == OutboundInit => OutInv
<1> SUFFICES ASSUME OutboundInit PROVE OutInv
    OBVIOUS
<1>1. Rest \in DialRec /\ \A table : DialOK(Rest, table)
    BY DEF Rest, DialRec, DialOK
<1>2. CacheOK(routeCache)
    BY DEF OutboundInit, CacheOK, OfTenant
<1> QED
    BY <1>1, <1>2, OutboundAssumption DEF OutboundInit, OutInv, PoolSize

(* OutInv holds in every reachable state: the rules of the cache and those a *)
(* dial has read or picked are of the tenant they were read for, whoever     *)
(* refills the cache in between, and only a dial whose DNC query failed goes *)
(* on with a number that was listed all the while.                           *)
THEOREM OutInvariant == ServicesSpec => []OutInv
<1>1. ServicesInit => OutInv
    BY InitOut DEF ServicesInit
<1>2. [ServicesNext]_servicesVars => [OutboundNext]_outboundVars
    BY DEF ServicesNext, servicesVars
<1>3. OutInv /\ [ServicesNext]_servicesVars => OutInv'
    BY <1>2, NextOut
<1> QED
    BY <1>1, <1>3, PTL DEF ServicesSpec

-----------------------------------------------------------------------------
(* For any number of tenants, configurations, events, retries, late answers, *)
(* failed rows and restarts: the semaphore counts the goroutines that hold a *)
(* token, the log tells the truth, what a subscriber is owed is handled, at   *)
(* work or a dead letter (but for configurations that could not be listed,   *)
(* log rows purged or not written, and restarts), and every event stays with *)
(* its tenant. For any number of                                             *)
(* schedulers, diallers and selectors: no callback is given up before its    *)
(* attempts were made, or attempted more often than the bound; a call is     *)
(* routed by a rule of its own tenant and not placed to a number listed all  *)
(* the while; a trunk is down after so many misses in a row, and a selection *)
(* that finds none met none that was up.                                     *)
THEOREM OutreachIsSafe == ServicesSpec => []OutreachSafe
<1>1. HookInv => HookTypeOK /\ TokensReturn /\ LogTellsTruth /\ NoSilentLoss /\ EventsStayHome
    <2> SUFFICES ASSUME HookInv
                 PROVE  HookTypeOK /\ TokensReturn /\ LogTellsTruth /\ NoSilentLoss /\ EventsStayHome
        OBVIOUS
    <2>0. HookShape /\ \A d \in Deliveries : DeliveryOK(d)
        BY DEF HookInv
    <2>1. HookTypeOK
        BY <2>0 DEF HookShape, HookTypeOK, HookJob
    <2>2. TokensReturn
        BY DEF HookInv, TokensReturn, TokenHolders
    <2>3. LogTellsTruth
        BY <2>0, HookFacts DEF LogTellsTruth, DeliveryOK, Ids
    <2>4. NoSilentLoss
        BY <2>0, HookFacts DEF NoSilentLoss, DeliveryOK, HookShape, InProgress, Ids
    <2>5. EventsStayHome
        BY <2>0 DEF EventsStayHome, DeliveryOK, InProgress, JobUnderWay
    <2> QED
        BY <2>1, <2>2, <2>3, <2>4, <2>5
<1>2. CallsInv => CallbackTypeOK /\ CallsBounded /\ GivenUpAfterAttempts /\ CompletedWasCalled
    <2> SUFFICES ASSUME CallsInv
                 PROVE  CallbackTypeOK /\ CallsBounded /\ GivenUpAfterAttempts /\ CompletedWasCalled
        OBVIOUS
    <2>0. CbInv
        BY DEF CallsInv
    <2>1. CallbackTypeOK
        BY <2>0 DEF CbInv, CallbackTypeOK, CbWork
    <2>2. GivenUpAfterAttempts /\ CompletedWasCalled
        BY <2>0 DEF CbInv, GivenUpAfterAttempts, CompletedWasCalled, TruthfulRow
    <2>3. CallsBounded
        BY CallsAreBounded
    <2> QED
        BY <2>1, <2>2, <2>3
<1>3. TrunkInv => TrunkTypeOK /\ DownAfterThreeMisses /\ FailoverFindsTrunk
    BY DEF TrunkInv, TrunkTypeOK, DownAfterThreeMisses, FailoverFindsTrunk, Pick
<1>4. OutInv => OutboundTypeOK /\ RoutedByOwnRule /\ ListedNotCalled
    <2> SUFFICES ASSUME OutInv PROVE OutboundTypeOK /\ RoutedByOwnRule /\ ListedNotCalled
        OBVIOUS
    <2>1. OutboundTypeOK
        BY DEF OutInv, OutboundTypeOK, DialRec
    <2>2. RoutedByOwnRule /\ ListedNotCalled
        BY DEF OutInv, RoutedByOwnRule, ListedNotCalled, DialOK
    <2> QED
        BY <2>1, <2>2
<1>5. HookInv /\ CallsInv /\ TrunkInv /\ OutInv => OutreachSafe
    BY <1>1, <1>2, <1>3, <1>4 DEF OutreachSafe
<1> QED
    BY <1>5, HookInvariant, CallsInvariant, TrunkInvariant, OutInvariant, PTL


-----------------------------------------------------------------------------
(* The dialer. A worker has a case where it works on one, holds a slot only   *)
(* of a loop of its own process and only until its result is recorded; the   *)
(* open loops are the registered ones; the daily count of a number covers    *)
(* the dials made and those about to be made.                                *)
DialWorker == [at : Places, k : Cases \cup {0}, loop : Loops \cup {0}, ctx : Contexts,
               ok : BOOLEAN, cs : CaseRow, c : CampaignRow]
DialLoop == [at : {"unused", "idle", "stop", "batch", "dial", "exited"}, inst : Instances,
             mode : Modes \cup {"none"}, open : BOOLEAN, active : Nat, dialed : Nat,
             abandoned : Nat, slots : Nat]

OfCase == {"dialCase", "skipCase", "complete", "completeCase", "fail", "failUpdate",
           "failCase", "accept", "freq", "place", "record"}

WorkerOK(w) ==
    /\ work[w].at \in OfCase => work[w].k \in Cases
    /\ work[w].at \in {"dialCase", "accept"} => work[w].ctx # "own"
    /\ work[w].loop # 0 =>
          /\ work[w].at \in {"freq", "place", "record"}
          /\ loops[work[w].loop].at # "unused"
          /\ loops[work[w].loop].inst = InstOf[w]

LoopOK(l) ==
    /\ loops[l].open => loops[l].at # "unused" /\ reg[loops[l].inst] = l
    /\ loops[l].at = "dial" <=> loops[l].slots # 0
    /\ loops[l].slots <= Pace(loops[l].mode)

\* The slots taken and the slots to use, of the loops that are open.
LoopSlotsOK(l) ==
    loops[l].open =>
        /\ loops[l].active <= Cardinality(SlotHolders(l))
        /\ loops[l].active + loops[l].slots <= Pace(loops[l].mode) + Cardinality(Previews(l))

RegOK(i) == reg[i] # 0 => loops[reg[i]].inst = i /\ loops[reg[i]].open

Dialling(k) == {w \in DialWorkers : work[w].at = "place" /\ work[w].k = k /\ Live(w)}
NumberOK(k) ==
    /\ freq[k] <= FreqLimit + 1
    /\ placed[k] + Cardinality(Dialling(k)) <= UpTo(freq[k], FreqLimit) + errors

DialInv ==
    /\ DialerTypeOK
    /\ \A w \in DialWorkers : WorkerOK(w)
    /\ \A l \in Loops : LoopOK(l) /\ LoopSlotsOK(l)
    /\ \A i \in Instances : RegOK(i)
    /\ \A k \in Cases : NumberOK(k)

LEMMA DialFacts ==
    ASSUME DialInv
    PROVE  /\ camp \in CampaignRow /\ cases \in [Cases -> CaseRow]
           /\ work \in [DialWorkers -> DialWorker]
           /\ requests \in 0..MaxEvents /\ errors \in 0..MaxEvents
           /\ reg \in [Instances -> Loops \cup {0}]
           /\ loops \in [Loops -> DialLoop]
           /\ freq \in [Cases -> Nat] /\ placed \in [Cases -> Nat] /\ calls \in [Cases -> Nat]
           /\ \A w \in DialWorkers : WorkerOK(w)
           /\ \A l \in Loops : LoopOK(l) /\ LoopSlotsOK(l)
           /\ \A i \in Instances : RegOK(i)
           /\ \A k \in Cases : NumberOK(k)
           /\ Loops \subseteq Nat /\ 0 \notin Loops /\ Cases \subseteq Nat /\ 0 \notin Cases
           /\ InstOf \in [DialWorkers -> Instances] /\ FreqLimit \in Nat /\ MaxEvents \in Nat
<1>1. DialerTypeOK
    BY DEF DialInv
<1>2. /\ work \in [DialWorkers -> DialWorker] /\ loops \in [Loops -> DialLoop]
      /\ reg \in [Instances -> Loops \cup {0}]
    BY <1>1 DEF DialerTypeOK, DialWorker, DialLoop
<1>3. /\ camp \in CampaignRow /\ cases \in [Cases -> CaseRow]
      /\ requests \in 0..MaxEvents /\ errors \in 0..MaxEvents
      /\ freq \in [Cases -> Nat] /\ placed \in [Cases -> Nat] /\ calls \in [Cases -> Nat]
    BY <1>1 DEF DialerTypeOK
<1>4. /\ Loops \subseteq Nat /\ 0 \notin Loops /\ Cases \subseteq Nat /\ 0 \notin Cases
      /\ InstOf \in [DialWorkers -> Instances] /\ FreqLimit \in Nat /\ MaxEvents \in Nat
    BY DialerAssumption, CampaignAssumption DEF Loops
<1> QED
    BY <1>2, <1>3, <1>4 DEF DialInv

LEMMA IdleWorker ==
    /\ Idle \in DialWorker /\ Idle.at = "idle" /\ Idle.k = 0 /\ Idle.loop = 0 /\ Idle.ctx = "own"
    /\ Idle.cs = NoCase /\ Idle.c = NoCampaign
    /\ NoCase \in CaseRow /\ NoCampaign \in CampaignRow
BY DEF Idle, NoCase, NoCampaign, DialWorker, CaseRow, CampaignRow, Places, Contexts,
       CaseStatus, CampaignStatus

(* What the methods make of the rows they read.                              *)
LEMMA RowsMade ==
    /\ \A cs \in CaseRow : Attempt(cs) \in CaseRow /\ Settle(cs) \in CaseRow
    /\ \A cs \in CaseRow, st \in CaseStatus : [cs EXCEPT !.status = st] \in CaseRow
    /\ \A c \in CampaignRow : Counted(c) \in CampaignRow
    /\ \A c \in CampaignRow, st \in CampaignStatus : [c EXCEPT !.status = st] \in CampaignRow
<1>1. ASSUME NEW cs \in CaseRow, NEW st \in CaseStatus
      PROVE  [cs EXCEPT !.status = st] \in CaseRow
    BY DEF CaseRow
<1>2. ASSUME NEW cs \in CaseRow, NEW n \in Nat
      PROVE  [cs EXCEPT !.attempts = n] \in CaseRow
    BY DEF CaseRow
<1>3. ASSUME NEW cs \in CaseRow
      PROVE  [cs EXCEPT !.due = FALSE] \in CaseRow
    BY DEF CaseRow
<1>4. ASSUME NEW cs \in CaseRow PROVE Attempt(cs) \in CaseRow
    <2>1. UpTo(cs.attempts + 1, MaxRetries) \in Nat
        BY CampaignAssumption DEF UpTo, CaseRow
    <2> QED
        BY <1>2, <2>1 DEF Attempt
<1>5. ASSUME NEW cs \in CaseRow PROVE Settle(cs) \in CaseRow
    <2>1. PICK one : one = [cs EXCEPT !.status = "pending"]
        OBVIOUS
    <2>2. one \in CaseRow /\ [cs EXCEPT !.status = "failed"] \in CaseRow
        BY <1>1, <2>1 DEF CaseStatus
    <2>3. [one EXCEPT !.due = FALSE] \in CaseRow
        BY <1>3, <2>2
    <2>4. [one EXCEPT !.due = FALSE] = [cs EXCEPT !.status = "pending", !.due = FALSE]
        BY <2>1 DEF CaseRow
    <2> QED
        BY <2>2, <2>3, <2>4 DEF Settle
<1>6. ASSUME NEW c \in CampaignRow, NEW st \in CampaignStatus
      PROVE  [c EXCEPT !.status = st] \in CampaignRow
    BY DEF CampaignRow
<1>7. ASSUME NEW c \in CampaignRow PROVE Counted(c) \in CampaignRow
    <2>1. Cardinality(Cases) \in Nat
        BY CampaignAssumption, FS_CardinalityType
    <2>2. PICK n : n = UpTo(c.completed + 1, Cardinality(Cases))
        OBVIOUS
    <2>3. n \in Nat
        BY <2>1, <2>2 DEF UpTo, CampaignRow
    <2>4. PICK more : more = [c EXCEPT !.completed = n]
        OBVIOUS
    <2>5. more \in CampaignRow
        BY <2>3, <2>4 DEF CampaignRow
    <2>6. autoComplete(more) \in CampaignRow
        BY <1>6, <2>5 DEF autoComplete, CampaignStatus
    <2> QED
        BY <2>2, <2>4, <2>6 DEF Counted
<1> QED
    BY <1>1, <1>4, <1>5, <1>6, <1>7

LEMMA DialSets ==
    /\ \A l : IsFiniteSet(SlotHolders(l)) /\ IsFiniteSet(Previews(l))
    /\ \A l : Cardinality(SlotHolders(l)) \in Nat /\ Cardinality(Previews(l)) \in Nat
    /\ \A k : IsFiniteSet(Dialling(k)) /\ Cardinality(Dialling(k)) \in Nat
<1>1. \A T \in SUBSET DialWorkers : IsFiniteSet(T) /\ Cardinality(T) \in Nat
    BY CampaignAssumption, FS_Subset, FS_CardinalityType
<1> QED
    BY <1>1 DEF SlotHolders, Previews, Dialling

(* Who holds slots depends on the loops and contexts of the workers only.    *)
LEMMA HoldersKeep ==
    ASSUME \A w \in DialWorkers :
               /\ work'[w].loop = work[w].loop
               /\ work[w].loop # 0 => (work'[w].ctx = "own" <=> work[w].ctx = "own"),
           NEW l \in Loops
    PROVE  SlotHolders(l)' = SlotHolders(l) /\ Previews(l)' = Previews(l)
<1>1. l # 0
    BY DEF Loops
<1>2. SlotHolders(l)' = SlotHolders(l)
    BY DEF SlotHolders
<1>3. \A w \in DialWorkers : w \in Previews(l)' <=> w \in Previews(l)
    BY <1>1 DEF Previews, SlotHolders
<1>4. Previews(l)' \subseteq DialWorkers /\ Previews(l) \subseteq DialWorkers
    BY DEF Previews, SlotHolders
<1> QED
    BY <1>2, <1>3, <1>4

(* A worker that is not newly about to dial does not disturb the counts.     *)
LEMMA NumbersKeep ==
    ASSUME DialInv, UNCHANGED <<freq, placed>>, errors' \in Nat, errors <= errors',
           \A w \in DialWorkers :
               work'[w].at = "place" /\ work'[w].ctx # "cancelled" =>
                   /\ work[w].at = "place" /\ work[w].ctx # "cancelled"
                   /\ work'[w].k = work[w].k
    PROVE  \A k \in Cases : NumberOK(k)'
<1> SUFFICES ASSUME NEW k \in Cases PROVE NumberOK(k)'
    OBVIOUS
<1>1. Dialling(k)' \subseteq Dialling(k)
    BY DEF Dialling, Live
<1>2. Cardinality(Dialling(k)') <= Cardinality(Dialling(k)) /\ Cardinality(Dialling(k)') \in Nat
    BY <1>1, OneMoreOrLess, DialSets
<1>3. PICK u : u = UpTo(freq[k], FreqLimit)
    OBVIOUS
<1>4. u = UpTo(freq[k], FreqLimit)' /\ u \in Nat
    BY <1>3, DialFacts DEF UpTo
<1>5. /\ freq[k] <= FreqLimit + 1 /\ freq'[k] = freq[k] /\ placed'[k] = placed[k]
      /\ placed[k] + Cardinality(Dialling(k)) <= u + errors
      /\ placed[k] \in Nat /\ errors \in Nat
    BY <1>3, DialFacts DEF NumberOK
<1>6. PICK n \in Nat, m \in Nat : n = Cardinality(Dialling(k)) /\ m = Cardinality(Dialling(k)')
    BY <1>2, DialSets
<1>7. placed'[k] + m <= u + errors'
    BY <1>2, <1>4, <1>5, <1>6
<1> QED
    BY <1>4, <1>5, <1>6, <1>7 DEF NumberOK

(* A worker goes on, ends or begins, and the loops do not change.            *)
LEMMA WorkerMoves ==
    ASSUME DialInv, NEW w \in DialWorkers, NEW new \in DialWorker,
           work' = [work EXCEPT ![w] = new], UNCHANGED <<reg, loops>>,
           camp' \in CampaignRow, cases' \in [Cases -> CaseRow], calls' \in [Cases -> Nat],
           requests' \in 0..MaxEvents, errors' \in 0..MaxEvents,
           freq' \in [Cases -> Nat], placed' \in [Cases -> Nat],
           \A k \in Cases : NumberOK(k)',
           new.at \in OfCase => new.k \in Cases,
           new.at \in {"dialCase", "accept"} => new.ctx # "own",
           new.loop = work[w].loop,
           new.loop # 0 => /\ new.at \in {"freq", "place", "record"}
                           /\ new.ctx = "own" <=> work[w].ctx = "own"
    PROVE  DialInv'
<1>1. work' \in [DialWorkers -> DialWorker] /\ \A v \in DialWorkers : work'[v] = IF v = w THEN new ELSE work[v]
    BY DialFacts
<1>2. DialerTypeOK'
    <2>1. /\ reg' \in [Instances -> Loops \cup {0}] /\ loops' \in [Loops -> DialLoop]
        BY DialFacts
    <2> QED
        BY <1>1, <2>1 DEF DialerTypeOK, DialWorker, DialLoop
<1>3. ASSUME NEW v \in DialWorkers PROVE WorkerOK(v)'
    <2>1. CASE v = w
        BY <1>1, <2>1, DialFacts DEF WorkerOK
    <2>2. CASE v # w
        BY <1>1, <2>2, DialFacts DEF WorkerOK
    <2> QED
        BY <2>1, <2>2
<1>4. ASSUME NEW l \in Loops PROVE LoopOK(l)' /\ LoopSlotsOK(l)'
    <2>1. SlotHolders(l)' = SlotHolders(l) /\ Previews(l)' = Previews(l)
        BY <1>1, HoldersKeep
    <2> QED
        BY <2>1, DialFacts DEF LoopOK, LoopSlotsOK
<1>5. \A i \in Instances : RegOK(i)'
    BY DialFacts DEF RegOK
<1> QED
    BY <1>2, <1>3, <1>4, <1>5 DEF DialInv

(* Rows and loops change, where loops start, stop, tick or open a batch, and  *)
(* a worker at most ends that holds no slot.                                 *)
LEMMA LoopsMove ==
    ASSUME DialInv, UNCHANGED <<freq, placed>>,
           camp' \in CampaignRow, cases' \in [Cases -> CaseRow], calls' \in [Cases -> Nat],
           requests' \in 0..MaxEvents, errors' \in 0..MaxEvents, errors <= errors',
           work' \in [DialWorkers -> DialWorker],
           \A v \in DialWorkers : work'[v] = work[v] \/ (work'[v] = Idle /\ work[v].loop = 0),
           reg' \in [Instances -> Loops \cup {0}], loops' \in [Loops -> DialLoop],
           \A l \in Loops : LoopOK(l)', \A i \in Instances : RegOK(i)',
           \A l \in Loops : loops[l].at # "unused" =>
               loops'[l].at # "unused" /\ loops'[l].inst = loops[l].inst,
           \A l \in Loops : loops'[l].open =>
               \/ loops'[l].active = 0
               \/ /\ loops[l].open
                  /\ loops'[l].mode = loops[l].mode /\ loops'[l].active = loops[l].active
                  /\ \/ loops'[l].slots <= loops[l].slots
                     \/ loops'[l].active + loops'[l].slots <= Pace(loops'[l].mode)
    PROVE  DialInv'
<1>1. DialerTypeOK'
    <2>1. freq \in [Cases -> Nat] /\ placed \in [Cases -> Nat]
        BY DialFacts
    <2> QED
        BY <2>1 DEF DialerTypeOK, DialWorker, DialLoop
<1>2. ASSUME NEW v \in DialWorkers PROVE WorkerOK(v)'
    <2>1. work[v] \in DialWorker /\ WorkerOK(v)
        BY DialFacts
    <2>2. CASE work'[v] = work[v]
        BY <2>1, <2>2 DEF WorkerOK, DialWorker
    <2>3. CASE work'[v] = Idle
        BY <2>3, IdleWorker DEF WorkerOK, OfCase
    <2> QED
        BY <2>2, <2>3
<1>3. ASSUME NEW l \in Loops PROVE LoopSlotsOK(l)'
    <2>1. SlotHolders(l)' = SlotHolders(l) /\ Previews(l)' = Previews(l)
        BY IdleWorker, HoldersKeep
    <2>2. PICK h \in Nat, p \in Nat : h = Cardinality(SlotHolders(l)) /\ p = Cardinality(Previews(l))
        BY DialSets
    <2>3. /\ loops[l].active \in Nat /\ loops[l].slots \in Nat
          /\ loops'[l].active \in Nat /\ loops'[l].slots \in Nat
        BY DialFacts DEF DialLoop
    <2>4. PICK q \in Nat : q = Pace(loops'[l].mode)
        BY DEF Pace
    <2>5. loops'[l].slots <= q
        BY <2>4 DEF LoopOK
    <2>6. loops'[l].open => loops'[l].active <= h /\ loops'[l].active + loops'[l].slots <= q + p
        <3> SUFFICES ASSUME loops'[l].open
                     PROVE  loops'[l].active <= h /\ loops'[l].active + loops'[l].slots <= q + p
            OBVIOUS
        <3>1. CASE loops'[l].active = 0
            BY <2>2, <2>3, <2>4, <2>5, <3>1
        <3>2. CASE loops'[l].active # 0
            <4>1. /\ loops[l].open
                  /\ loops'[l].mode = loops[l].mode /\ loops'[l].active = loops[l].active
                  /\ \/ loops'[l].slots <= loops[l].slots
                     \/ loops'[l].active + loops'[l].slots <= q
                BY <2>4, <3>2
            <4>2. loops[l].active <= h /\ loops[l].active + loops[l].slots <= q + p
                BY <2>2, <2>4, <4>1, DialFacts DEF LoopSlotsOK
            <4> QED
                BY <2>2, <2>3, <2>4, <4>1, <4>2
        <3> QED
            BY <3>1, <3>2
    <2> QED
        BY <2>1, <2>2, <2>4, <2>6 DEF LoopSlotsOK
<1>4. \A k \in Cases : NumberOK(k)'
    BY NumbersKeep, DialFacts, IdleWorker
<1> QED
    BY <1>1, <1>2, <1>3, <1>4 DEF DialInv

LEMMA WorkerFields ==
    /\ \A x \in DialWorker, v \in Places : [x EXCEPT !.at = v] \in DialWorker
    /\ \A x \in DialWorker, v \in Cases \cup {0} : [x EXCEPT !.k = v] \in DialWorker
    /\ \A x \in DialWorker, v \in Loops \cup {0} : [x EXCEPT !.loop = v] \in DialWorker
    /\ \A x \in DialWorker, v \in Contexts : [x EXCEPT !.ctx = v] \in DialWorker
    /\ \A x \in DialWorker, v \in BOOLEAN : [x EXCEPT !.ok = v] \in DialWorker
    /\ \A x \in DialWorker, v \in CaseRow : [x EXCEPT !.cs = v] \in DialWorker
    /\ \A x \in DialWorker, v \in CampaignRow : [x EXCEPT !.c = v] \in DialWorker
<1>1. ASSUME NEW x \in DialWorker, NEW v \in Places PROVE [x EXCEPT !.at = v] \in DialWorker
    BY DEF DialWorker
<1>2. ASSUME NEW x \in DialWorker, NEW v \in Cases \cup {0} PROVE [x EXCEPT !.k = v] \in DialWorker
    BY DEF DialWorker
<1>3. ASSUME NEW x \in DialWorker, NEW v \in Loops \cup {0} PROVE [x EXCEPT !.loop = v] \in DialWorker
    BY DEF DialWorker
<1>4. ASSUME NEW x \in DialWorker, NEW v \in Contexts PROVE [x EXCEPT !.ctx = v] \in DialWorker
    BY DEF DialWorker
<1>5. ASSUME NEW x \in DialWorker, NEW v \in BOOLEAN PROVE [x EXCEPT !.ok = v] \in DialWorker
    BY DEF DialWorker
<1>6. ASSUME NEW x \in DialWorker, NEW v \in CaseRow PROVE [x EXCEPT !.cs = v] \in DialWorker
    BY DEF DialWorker
<1>7. ASSUME NEW x \in DialWorker, NEW v \in CampaignRow PROVE [x EXCEPT !.c = v] \in DialWorker
    BY DEF DialWorker
<1> QED
    BY <1>1, <1>2, <1>3, <1>4, <1>5, <1>6, <1>7

(* A worker as it begins.                                                    *)
LEMMA WorkerBegins ==
    ASSUME NEW at \in Places, NEW new
    PROVE  /\ \A c \in CampaignRow : new = [Idle EXCEPT !.at = at, !.c = c] =>
                  new \in DialWorker /\ new.at = at /\ new.loop = 0
           /\ \A k \in Cases, ctx \in Contexts, cs \in CaseRow :
                  new = [Idle EXCEPT !.at = at, !.k = k, !.ctx = ctx, !.cs = cs] =>
                      /\ new \in DialWorker /\ new.at = at /\ new.loop = 0
                      /\ new.k = k /\ new.ctx = ctx
           /\ \A k \in Cases : new = [Idle EXCEPT !.at = at, !.k = k] =>
                  new \in DialWorker /\ new.at = at /\ new.loop = 0 /\ new.k = k
           /\ \A k \in Cases, l \in Loops : new = [Idle EXCEPT !.at = at, !.k = k, !.loop = l] =>
                  /\ new \in DialWorker /\ new.at = at /\ new.loop = l
                  /\ new.k = k /\ new.ctx = "own"
<1>0. PICK x : x = Idle
    OBVIOUS
<1>1. x \in DialWorker /\ x.k = 0 /\ x.loop = 0 /\ x.ctx = "own" /\ x.cs = NoCase /\ x.c = NoCampaign
    BY <1>0, IdleWorker
<1>2. PICK a : a = [x EXCEPT !.at = at]
    OBVIOUS
<1>3. a \in DialWorker /\ a.at = at /\ a.k = 0 /\ a.loop = 0 /\ a.ctx = "own"
    <2>1. a \in DialWorker
        BY <1>1, <1>2, WorkerFields
    <2> QED
        BY <1>1, <1>2, <2>1 DEF DialWorker
<1>4. ASSUME NEW c \in CampaignRow, new = [Idle EXCEPT !.at = at, !.c = c]
      PROVE  new \in DialWorker /\ new.at = at /\ new.loop = 0
    <2>1. new = [a EXCEPT !.c = c]
        BY <1>0, <1>2, <1>4
    <2>2. new \in DialWorker
        BY <1>3, <2>1, WorkerFields
    <2> QED
        BY <1>3, <2>1, <2>2 DEF DialWorker
<1>5. ASSUME NEW k \in Cases
      PROVE  /\ [a EXCEPT !.k = k] \in DialWorker
             /\ [a EXCEPT !.k = k].at = at /\ [a EXCEPT !.k = k].k = k
             /\ [a EXCEPT !.k = k].loop = 0 /\ [a EXCEPT !.k = k].ctx = "own"
    <2>1. [a EXCEPT !.k = k] \in DialWorker
        BY <1>3, WorkerFields
    <2> QED
        BY <1>3, <2>1 DEF DialWorker
<1>6. ASSUME NEW k \in Cases, new = [Idle EXCEPT !.at = at, !.k = k]
      PROVE  new \in DialWorker /\ new.at = at /\ new.loop = 0 /\ new.k = k
    BY <1>0, <1>2, <1>5, <1>6
<1>7. ASSUME NEW k \in Cases, NEW l \in Loops, new = [Idle EXCEPT !.at = at, !.k = k, !.loop = l]
      PROVE  /\ new \in DialWorker /\ new.at = at /\ new.loop = l
             /\ new.k = k /\ new.ctx = "own"
    <2>1. PICK b : b = [a EXCEPT !.k = k]
        OBVIOUS
    <2>2. b \in DialWorker /\ b.at = at /\ b.k = k /\ b.ctx = "own"
        BY <1>5, <2>1
    <2>3. new = [b EXCEPT !.loop = l]
        BY <1>0, <1>2, <1>7, <2>1
    <2>4. new \in DialWorker
        BY <2>2, <2>3, WorkerFields
    <2> QED
        BY <2>2, <2>3, <2>4 DEF DialWorker
<1>8. ASSUME NEW k \in Cases, NEW ctx \in Contexts, NEW cs \in CaseRow,
             new = [Idle EXCEPT !.at = at, !.k = k, !.ctx = ctx, !.cs = cs]
      PROVE  /\ new \in DialWorker /\ new.at = at /\ new.loop = 0
             /\ new.k = k /\ new.ctx = ctx
    <2>1. PICK b : b = [a EXCEPT !.k = k]
        OBVIOUS
    <2>2. b \in DialWorker /\ b.at = at /\ b.k = k /\ b.loop = 0
        BY <1>5, <2>1
    <2>3. PICK d : d = [b EXCEPT !.ctx = ctx]
        OBVIOUS
    <2>4. d \in DialWorker
        BY <2>2, <2>3, WorkerFields
    <2>5. new = [d EXCEPT !.cs = cs]
        BY <1>0, <1>2, <1>8, <2>1, <2>3
    <2>6. new \in DialWorker
        BY <2>4, <2>5, WorkerFields
    <2> QED
        BY <2>2, <2>3, <2>4, <2>5, <2>6 DEF DialWorker
<1> QED
    BY <1>4, <1>6, <1>7, <1>8

(* A method of the campaign service goes on, or a request begins.            *)
LEMMA CampaignMoves ==
    ASSUME DialInv, NEW w \in DialWorkers, NEW new \in DialWorker,
           work' = [work EXCEPT ![w] = new], UNCHANGED <<reg, loops, freq, placed>>,
           camp' \in CampaignRow, cases' \in [Cases -> CaseRow], calls' \in [Cases -> Nat],
           requests' \in 0..MaxEvents, errors' \in 0..MaxEvents, errors <= errors',
           new.at \in OfCase => new.k \in Cases,
           new.at \in {"dialCase", "accept"} => new.ctx # "own",
           new.loop = 0, work[w].at \notin {"freq", "place", "record"},
           new.at \notin {"freq", "place", "record"}
    PROVE  DialInv'
<1>1. work[w].loop = 0
    BY DialFacts DEF WorkerOK
<1>2. \A v \in DialWorkers : work'[v] = IF v = w THEN new ELSE work[v]
    BY DialFacts
<1>3. \A k \in Cases : NumberOK(k)'
    BY <1>2, NumbersKeep
<1>4. freq' \in [Cases -> Nat] /\ placed' \in [Cases -> Nat]
    BY DialFacts
<1> QED
    BY <1>1, <1>3, <1>4, WorkerMoves

LEMMA DialCounts ==
    ASSUME DialInv
    PROVE  /\ requests \in 0..MaxEvents /\ errors \in 0..MaxEvents /\ errors <= errors
           /\ Requested => requests' \in 0..MaxEvents
           /\ Failing => errors' \in 0..MaxEvents /\ errors <= errors'
BY DialFacts DEF Requested, Failing

LEMMA WorkerEnds ==
    ASSUME DialInv, NEW w \in DialWorkers, Done(w),
           work[w].at \notin {"freq", "place", "record"}, UNCHANGED <<reg, loops, freq, placed, calls>>,
           camp' \in CampaignRow, cases' \in [Cases -> CaseRow],
           requests' \in 0..MaxEvents, errors' \in 0..MaxEvents, errors <= errors'
    PROVE  DialInv'
<1>1. calls' \in [Cases -> Nat]
    BY DialFacts
<1>2. work' = [work EXCEPT ![w] = Idle] /\ Idle \in DialWorker /\ Idle.at = "idle" /\ Idle.loop = 0
    BY IdleWorker DEF Done
<1> QED
    BY <1>1, <1>2, CampaignMoves DEF OfCase

LEMMA CampaignRequests ==
    ASSUME DialInv, NEW w \in DialWorkers, Request(w), UNCHANGED dialerVars
    PROVE  DialInv'
<1>t. /\ camp \in CampaignRow /\ cases \in [Cases -> CaseRow] /\ calls' \in [Cases -> Nat]
      /\ UNCHANGED <<reg, loops, freq, placed>>
    BY DialFacts DEF dialerVars
<1>1. ASSUME NEW next \in {"start", "pause", "abort", "update"}, NEW statuses, Examine(w, next, statuses)
      PROVE  DialInv'
    <2>0. next \in Places
        BY DEF Places, Statements
    <2>1. PICK new : new = [Idle EXCEPT !.at = next, !.c = camp]
        OBVIOUS
    <2>2. new \in DialWorker /\ new.at = next /\ new.loop = 0
        <3>1. \A c \in CampaignRow : new = [Idle EXCEPT !.at = next, !.c = c] =>
                  new \in DialWorker /\ new.at = next /\ new.loop = 0
            BY <2>0, WorkerBegins, ZenonT(60)
        <3>2. camp \in CampaignRow
            BY <1>t
        <3> QED
            BY <2>1, <3>1, <3>2, Zenon
    <2>3. /\ work' = [work EXCEPT ![w] = new] /\ work[w].at = "idle"
          /\ requests' \in 0..MaxEvents /\ UNCHANGED <<camp, cases, errors>>
        BY <1>1, <2>1, DialCounts DEF Examine, Begin, At
    <2> QED
        BY <1>t, <2>2, <2>3, CampaignMoves, DialCounts DEF OfCase
<1>2. ASSUME NEW k \in Cases, NEW next \in {"dialCase", "skipCase"}, NEW cs \in CaseRow,
             NEW ctx \in {"request", "own"}, next = "dialCase" => ctx = "request",
             CaseRead(w, k, next, cs, ctx)
      PROVE  DialInv'
    <2>0. next \in Places /\ ctx \in Contexts
        BY DEF Places, Statements, Contexts
    <2>1. PICK new : new = [Idle EXCEPT !.at = next, !.k = k, !.ctx = ctx, !.cs = cs]
        OBVIOUS
    <2>2. new \in DialWorker /\ new.at = next /\ new.loop = 0 /\ new.k = k /\ new.ctx = ctx
        <3>1. \A y \in Cases, z \in Contexts, row \in CaseRow :
                  new = [Idle EXCEPT !.at = next, !.k = y, !.ctx = z, !.cs = row] =>
                      /\ new \in DialWorker /\ new.at = next /\ new.loop = 0
                      /\ new.k = y /\ new.ctx = z
            BY <2>0, WorkerBegins, ZenonT(60)
        <3> QED
            BY <2>0, <2>1, <3>1, Zenon
    <2>3. /\ work' = [work EXCEPT ![w] = new] /\ work[w].at = "idle"
          /\ requests' \in 0..MaxEvents /\ UNCHANGED <<camp, cases, errors>>
        BY <1>2, <2>1, DialCounts DEF CaseRead, Begin, At
    <2> QED
        BY <1>t, <1>2, <2>2, <2>3, CampaignMoves, DialCounts
<1>3. ASSUME NEW new \in SUBSET Cases, ImportCases(w, new) PROVE DialInv'
    <2>1. Cardinality(new) \in Nat
        BY CampaignAssumption, FS_Subset, FS_CardinalityType
    <2>2. PICK c : c = [camp EXCEPT !.total = @ + Cardinality(new)]
        OBVIOUS
    <2>3. c \in CampaignRow
        BY <1>t, <2>1, <2>2 DEF CampaignRow
    <2>4. PICK x : x = [Idle EXCEPT !.at = "update", !.c = c]
        OBVIOUS
    <2>5. "update" \in Places
        BY DEF Places, Statements
    <2>6. x \in DialWorker /\ x.at = "update" /\ x.loop = 0
        <3>1. \A row \in CampaignRow : x = [Idle EXCEPT !.at = "update", !.c = row] =>
                  x \in DialWorker /\ x.at = "update" /\ x.loop = 0
            BY <2>5, WorkerBegins, Zenon
        <3> QED
            BY <2>3, <2>4, <3>1, Zenon
    <2>7. work' = [work EXCEPT ![w] = x] /\ work[w].at = "idle" /\ UNCHANGED <<camp, requests, errors>>
        BY <1>3, <2>2, <2>4 DEF ImportCases, Begin, At
    <2>8. cases' \in [Cases -> CaseRow]
        <3>1. [NoCase EXCEPT !.status = "pending"] \in CaseRow
            BY IdleWorker, RowsMade DEF CaseStatus
        <3> QED
            BY <1>t, <1>3, <3>1 DEF ImportCases
    <2> QED
        BY <1>t, <2>6, <2>7, <2>8, CampaignMoves, DialCounts DEF OfCase
<1>4. CASE StartRead(w) \/ PauseRead(w) \/ AbortRead(w) \/ UpdateRead(w)
    BY <1>1, <1>4 DEF StartRead, PauseRead, AbortRead, UpdateRead
<1>5. ASSUME NEW k \in Cases, DialCase(w, k) \/ SkipCase(w, k) PROVE DialInv'
    <2>1. cases[k] \in CaseRow
        BY <1>t
    <2>2. /\ [Attempt(cases[k]) EXCEPT !.status = "dialing"] \in CaseRow
          /\ [cases[k] EXCEPT !.status = "skipped"] \in CaseRow
        BY <2>1, RowsMade DEF CaseStatus
    <2> QED
        BY <1>2, <1>5, <2>2 DEF DialCase, SkipCase
<1> QED
    BY <1>3, <1>4, <1>5 DEF Request

(* The UPDATE of the campaign at the end of a request.                       *)
LEMMA CampaignWritten ==
    ASSUME DialInv, NEW w \in DialWorkers, NEW at \in {"start", "pause", "abort", "update", "failUpdate"},
           NEW c \in CampaignRow, NEW next \in {"idle", "startDialing", "stopDialing", "failCase"},
           next = "failCase" => at = "failUpdate", Write(w, at, c, next), UNCHANGED dialerVars
    PROVE  DialInv'
<1>0. work[w].at = at /\ camp' = c /\ UNCHANGED <<cases, requests, errors, reg, loops, freq, placed, calls>>
    BY DEF Write, At, dialerVars
<1>t. /\ cases' \in [Cases -> CaseRow] /\ calls' \in [Cases -> Nat] /\ camp' \in CampaignRow
      /\ requests' \in 0..MaxEvents /\ errors' \in 0..MaxEvents /\ errors <= errors'
    BY <1>0, DialFacts, DialCounts
<1>1. CASE next = "idle"
    BY <1>0, <1>1, <1>t, WorkerEnds DEF Write
<1>2. CASE next # "idle"
    <2>1. PICK x : x = work[w]
        OBVIOUS
    <2>2. x \in DialWorker /\ x.at = at /\ x.loop = 0 /\ (at = "failUpdate" => x.k \in Cases)
        BY <1>0, <2>1, DialFacts DEF WorkerOK, OfCase
    <2>3. PICK a : a = [x EXCEPT !.at = next]
        OBVIOUS
    <2>4. PICK new : new = [a EXCEPT !.c = NoCampaign]
        OBVIOUS
    <2>5. next \in Places /\ NoCampaign \in CampaignRow
        BY IdleWorker DEF Places, Statements
    <2>6. a \in DialWorker /\ new \in DialWorker
        BY <2>2, <2>3, <2>4, <2>5, WorkerFields
    <2>7. new.at = next /\ new.loop = 0 /\ new.k = x.k
        BY <2>2, <2>3, <2>4 DEF DialWorker
    <2>8. work' = [work EXCEPT ![w] = new]
        BY <1>2, <2>1, <2>3, <2>4, DialFacts DEF Write
    <2> QED
        BY <1>0, <1>t, <1>2, <2>2, <2>6, <2>7, <2>8, CampaignMoves DEF OfCase
<1> QED
    BY <1>1, <1>2

(* The UPDATE of a case.                                                     *)
LEMMA CaseWritten ==
    ASSUME DialInv, NEW w \in DialWorkers, NEW at \in {"dialCase", "skipCase", "completeCase", "failCase"},
           NEW next \in {"idle", "accept", "count"},
           next = "accept" => at = "dialCase", WriteCase(w, at, next), UNCHANGED dialerVars
    PROVE  DialInv'
<1>1. PICK x : x = work[w]
    OBVIOUS
<1>0. /\ x.at = at /\ cases' = [cases EXCEPT ![x.k] = x.cs]
      /\ UNCHANGED <<camp, requests, errors, reg, loops, freq, placed, calls>>
    BY <1>1 DEF WriteCase, At, dialerVars
<1>2. /\ x \in DialWorker /\ x.loop = 0 /\ x.k \in Cases
      /\ at = "dialCase" => x.ctx # "own"
    BY <1>0, <1>1, DialFacts DEF WorkerOK, OfCase
<1>t. /\ cases' \in [Cases -> CaseRow] /\ calls' \in [Cases -> Nat] /\ camp' \in CampaignRow
      /\ requests' \in 0..MaxEvents /\ errors' \in 0..MaxEvents /\ errors <= errors'
    <2>1. x.cs \in CaseRow
        BY <1>2 DEF DialWorker
    <2>2. /\ cases \in [Cases -> CaseRow] /\ calls' \in [Cases -> Nat] /\ camp' \in CampaignRow
          /\ requests' \in 0..MaxEvents /\ errors' \in 0..MaxEvents /\ errors <= errors'
        BY <1>0, DialFacts, DialCounts
    <2> QED
        BY <1>0, <2>1, <2>2
<1>3. CASE next = "idle"
    BY <1>0, <1>1, <1>3, <1>t, WorkerEnds DEF WriteCase
<1>4. CASE next # "idle"
    <2>3. PICK a : a = [x EXCEPT !.at = next]
        OBVIOUS
    <2>4. PICK new : new = [a EXCEPT !.cs = NoCase]
        OBVIOUS
    <2>5. next \in Places /\ NoCase \in CaseRow
        BY IdleWorker DEF Places, Statements
    <2>6. a \in DialWorker /\ new \in DialWorker
        BY <1>2, <2>3, <2>4, <2>5, WorkerFields
    <2>7. new.at = next /\ new.loop = 0 /\ new.k = x.k /\ new.ctx = x.ctx
        BY <1>2, <2>3, <2>4 DEF DialWorker
    <2>8. work' = [work EXCEPT ![w] = new]
        BY <1>1, <1>4, <2>3, <2>4, DialFacts DEF WriteCase
    <2> QED
        BY <1>0, <1>1, <1>t, <1>2, <1>4, <2>6, <2>7, <2>8, CampaignMoves
<1> QED
    BY <1>3, <1>4

LEMMA CampaignStatements ==
    ASSUME DialInv, NEW w \in DialWorkers, Statement(w), UNCHANGED dialerVars
    PROVE  DialInv'
<1>0. PICK x : x = work[w]
    OBVIOUS
<1>x. x \in DialWorker /\ x.c \in CampaignRow /\ x.cs \in CaseRow
    BY <1>0, DialFacts DEF DialWorker
<1>t. /\ camp \in CampaignRow /\ cases \in [Cases -> CaseRow] /\ calls' \in [Cases -> Nat]
      /\ requests \in 0..MaxEvents /\ errors \in 0..MaxEvents /\ errors <= errors
      /\ UNCHANGED <<reg, loops, freq, placed, calls>>
    BY DialFacts, DialCounts DEF dialerVars
<1>1. CASE StartWrite(w) \/ PauseWrite(w) \/ AbortWrite(w)
    <2>1. PICK at \in {"start", "pause", "abort"}, st \in CampaignStatus, next \in {"startDialing", "stopDialing"} :
              Write(w, at, [x.c EXCEPT !.status = st], next)
        BY <1>0, <1>1 DEF StartWrite, PauseWrite, AbortWrite, CampaignStatus
    <2>2. PICK c \in CampaignRow : c = [x.c EXCEPT !.status = st]
        BY <1>x, RowsMade
    <2> QED
        BY <2>1, <2>2, CampaignWritten
<1>2. CASE UpdateWrite(w) \/ FailedUpdate(w)
    BY <1>0, <1>x, <1>2, CampaignWritten DEF UpdateWrite, FailedUpdate
<1>3. CASE DialWrite(w) \/ SkipWrite(w) \/ CompletedWrite(w) \/ FailedWrite(w)
    BY <1>3, CaseWritten DEF DialWrite, SkipWrite, CompletedWrite, FailedWrite
<1>4. CASE StartRefused(w)
    BY <1>t, <1>4, WorkerEnds DEF StartRefused, At
<1>5. CASE MarkCaseCompleted(w)
    <2>0. x.at = "complete" /\ x.loop = 0 /\ x.k \in Cases /\ UNCHANGED <<camp, cases, requests, errors>>
        BY <1>0, <1>5, DialFacts DEF MarkCaseCompleted, At, WorkerOK, OfCase
    <2>1. CASE cases[x.k].status = "completed"
        BY <1>0, <1>5, <1>t, <2>0, <2>1, WorkerEnds DEF MarkCaseCompleted
    <2>2. CASE cases[x.k].status # "completed"
        <3>1. PICK row : row = [Attempt(cases[x.k]) EXCEPT !.status = "completed"]
            OBVIOUS
        <3>2. row \in CaseRow /\ "completeCase" \in Places
            BY <1>t, <2>0, <3>1, RowsMade DEF CaseStatus, Places, Statements
        <3>3. PICK a : a = [x EXCEPT !.at = "completeCase"]
            OBVIOUS
        <3>4. PICK new : new = [a EXCEPT !.cs = row]
            OBVIOUS
        <3>5. a \in DialWorker /\ new \in DialWorker
            BY <1>x, <3>2, <3>3, <3>4, WorkerFields
        <3>6. new.at = "completeCase" /\ new.loop = 0 /\ new.k = x.k
            BY <1>x, <2>0, <3>3, <3>4 DEF DialWorker
        <3>7. work' = [work EXCEPT ![w] = new]
            BY <1>0, <1>5, <2>2, <3>1, <3>3, <3>4, DialFacts DEF MarkCaseCompleted
        <3> QED
            BY <1>0, <1>t, <2>0, <3>5, <3>6, <3>7, CampaignMoves
    <2> QED
        BY <2>1, <2>2
<1>6. CASE CountCase(w)
    <2>0. x.at = "count" /\ x.loop = 0 /\ UNCHANGED <<camp, cases, requests, errors>>
        BY <1>0, <1>6, DialFacts DEF CountCase, At, WorkerOK
    <2>1. PICK row \in CampaignRow : row = Counted(camp)
        BY <1>t, RowsMade
    <2>2. PICK a : a = [x EXCEPT !.at = "update"]
        OBVIOUS
    <2>3. PICK new : new = [a EXCEPT !.c = row]
        OBVIOUS
    <2>4. a \in DialWorker /\ new \in DialWorker
        BY <1>x, <2>2, <2>3, WorkerFields DEF Places, Statements
    <2>5. new.at = "update" /\ new.loop = 0
        BY <1>x, <2>0, <2>2, <2>3 DEF DialWorker
    <2>6. work' = [work EXCEPT ![w] = new]
        BY <1>0, <1>6, <2>1, <2>2, <2>3, DialFacts DEF CountCase
    <2> QED
        BY <1>0, <1>t, <2>0, <2>4, <2>5, <2>6, CampaignMoves DEF OfCase
<1>7. CASE MarkCaseFailed(w)
    <2>0. x.at = "fail" /\ x.loop = 0 /\ x.k \in Cases /\ UNCHANGED <<camp, cases, requests, errors>>
        BY <1>0, <1>7, DialFacts DEF MarkCaseFailed, At, WorkerOK, OfCase
    <2>1. PICK cs \in CaseRow : cs = Attempt(cases[x.k])
        BY <1>t, <2>0, RowsMade
    <2>2. PICK at \in {"failUpdate", "failCase"} : at = IF Exhausted(cs) THEN "failUpdate" ELSE "failCase"
        OBVIOUS
    <2>3. PICK row \in CampaignRow : row = IF Exhausted(cs) THEN Counted(camp) ELSE x.c
        BY <1>t, <1>x, RowsMade
    <2>4. PICK settled \in CaseRow : settled = Settle(cs)
        BY RowsMade
    <2>5. PICK a : a = [x EXCEPT !.at = at]
        OBVIOUS
    <2>6. PICK b : b = [a EXCEPT !.c = row]
        OBVIOUS
    <2>7. PICK new : new = [b EXCEPT !.cs = settled]
        OBVIOUS
    <2>8. at \in Places
        BY DEF Places, Statements
    <2>9. a \in DialWorker /\ b \in DialWorker /\ new \in DialWorker
        BY <1>x, <2>5, <2>6, <2>7, <2>8, WorkerFields
    <2>10. new.at = at /\ new.loop = 0 /\ new.k = x.k
        BY <1>x, <2>0, <2>5, <2>6, <2>7 DEF DialWorker
    <2>11. work' = [work EXCEPT ![w] = new]
        <3>1. work' = [work EXCEPT ![w].at = at, ![w].c = row, ![w].cs = settled]
            BY <1>0, <1>7, <2>1, <2>2, <2>3, <2>4 DEF MarkCaseFailed
        <3> QED
            BY <1>0, <2>5, <2>6, <2>7, <3>1, DialFacts
    <2> QED
        BY <1>0, <1>t, <2>0, <2>9, <2>10, <2>11, CampaignMoves
<1> QED
    BY <1>1, <1>2, <1>3, <1>4, <1>5, <1>6, <1>7 DEF Statement

LEMMA NextCampaign ==
    ASSUME DialInv, CampaignNext, UNCHANGED dialerVars
    PROVE  DialInv'
<1>t. /\ camp \in CampaignRow /\ cases \in [Cases -> CaseRow]
      /\ requests \in 0..MaxEvents /\ errors \in 0..MaxEvents /\ errors <= errors
      /\ UNCHANGED <<reg, loops, freq, placed, calls>>
    BY DialFacts, DialCounts DEF dialerVars
\* The rows change, and the workers rest.
<1>r. ASSUME UNCHANGED <<work, requests, errors>>, camp' \in CampaignRow, cases' \in [Cases -> CaseRow]
      PROVE  DialInv'
    <2>1. /\ work' \in [DialWorkers -> DialWorker] /\ calls' \in [Cases -> Nat]
          /\ reg' \in [Instances -> Loops \cup {0}] /\ loops' \in [Loops -> DialLoop]
          /\ \A v \in DialWorkers : work'[v] = work[v]
          /\ \A i \in Instances : RegOK(i)'
        BY <1>t, <1>r, DialFacts DEF RegOK
    <2>2. ASSUME NEW l \in Loops
          PROVE  /\ LoopOK(l)'
                 /\ loops'[l].at = loops[l].at /\ loops'[l].inst = loops[l].inst
                 /\ loops'[l].open <=> loops[l].open
                 /\ loops'[l].mode = loops[l].mode /\ loops'[l].active = loops[l].active
                 /\ loops'[l].slots <= loops[l].slots
        <3>1. loops'[l] = loops[l] /\ loops[l].slots \in Nat
            BY <1>t, DialFacts DEF DialLoop
        <3> QED
            BY <1>t, <3>1, DialFacts DEF LoopOK
    <2> QED
        BY <1>t, <1>r, <2>1, <2>2, LoopsMove
<1>1. ASSUME NEW mode \in CampaignModes, Create(mode) PROVE DialInv'
    <2>1. [NoCampaign EXCEPT !.mode = mode, !.status = "draft"] \in CampaignRow
        BY CampaignAssumption DEF NoCampaign, CampaignRow, CampaignStatus
    <2> QED
        BY <1>1, <1>r, <1>t, <2>1 DEF Create
<1>2. ASSUME NEW k \in Cases, RetryDue(k) PROVE DialInv'
    <2>1. [cases[k] EXCEPT !.due = TRUE] \in CaseRow
        BY <1>t DEF CaseRow
    <2>2. cases' \in [Cases -> CaseRow]
        BY <1>2, <1>t, <2>1 DEF RetryDue
    <2> QED
        BY <1>2, <1>r, <1>t, <2>2 DEF RetryDue
<1>3. ASSUME NEW w \in DialWorkers, StatementFails(w) PROVE DialInv'
    <2>1. /\ errors' \in 0..MaxEvents /\ errors <= errors' /\ UNCHANGED <<camp, cases, requests>>
          /\ work[w].at \in Statements
        BY <1>3, DialCounts DEF StatementFails
    <2>2. CASE ~At(w, "failUpdate")
        BY <1>3, <1>t, <2>1, <2>2, WorkerEnds DEF StatementFails, Statements
    <2>3. CASE At(w, "failUpdate")
        <3>1. PICK x : x = work[w]
            OBVIOUS
        <3>2. x \in DialWorker /\ x.at = "failUpdate" /\ x.loop = 0 /\ x.k \in Cases
            BY <2>3, <3>1, DialFacts DEF At, WorkerOK, OfCase
        <3>3. PICK new : new = [x EXCEPT !.at = "failCase"]
            OBVIOUS
        <3>4. "failCase" \in Places
            BY DEF Places, Statements
        <3>5. new \in DialWorker
            BY <3>2, <3>3, <3>4, WorkerFields
        <3>6. new.at = "failCase" /\ new.loop = 0 /\ new.k = x.k
            BY <3>2, <3>3 DEF DialWorker
        <3>7. work' = [work EXCEPT ![w] = new]
            BY <1>3, <2>3, <3>1, <3>3, DialFacts DEF StatementFails, Proceed
        <3>8. calls' \in [Cases -> Nat]
            BY <1>t, DialFacts
        <3> QED
            BY <1>t, <2>1, <3>1, <3>2, <3>5, <3>6, <3>7, <3>8, CampaignMoves
    <2> QED
        BY <2>2, <2>3
<1> QED
    BY <1>1, <1>2, <1>3, CampaignRequests, CampaignStatements DEF CampaignNext

(* The daily count: Redis counts before the dial, or fails to answer.        *)
LEMMA NumberCounted ==
    ASSUME DialInv, NEW w \in DialWorkers, NEW x \in DialWorker, x = work[w],
           NEW new \in DialWorker, work' = [work EXCEPT ![w] = new], new.k = x.k, x.k \in Cases,
           \/ IncrAndCheck(w) /\ new.at = (IF freq'[x.k] > FreqLimit THEN "record" ELSE "place")
           \/ IncrFails(w) /\ new.at = "place" /\ new.ctx = x.ctx
           \/ DialOk(w) /\ new.at = "record"
    PROVE  /\ \A k \in Cases : NumberOK(k)'
           /\ freq' \in [Cases -> Nat] /\ placed' \in [Cases -> Nat]
<1>w. \A v \in DialWorkers : work'[v] = IF v = w THEN new ELSE work[v]
    BY DialFacts
<1>1. CASE IncrAndCheck(w) /\ new.at = (IF freq'[x.k] > FreqLimit THEN "record" ELSE "place")
    <2>0. /\ placed' = placed /\ errors' = errors /\ errors \in Nat /\ FreqLimit \in Nat
          /\ freq' = [freq EXCEPT ![x.k] = UpTo(freq[x.k] + 1, FreqLimit + 1)]
        BY <1>1, DialFacts DEF IncrAndCheck
    <2>1. PICK n \in Nat : n = UpTo(freq[x.k] + 1, FreqLimit + 1)
        BY <2>0, DialFacts DEF UpTo
    <2>2. freq' \in [Cases -> Nat] /\ placed' \in [Cases -> Nat] /\ freq'[x.k] = n
        BY <2>0, <2>1, DialFacts
    <2>3. ASSUME NEW k \in Cases PROVE NumberOK(k)'
        <3>1. /\ freq[k] \in Nat /\ placed[k] \in Nat /\ NumberOK(k)
              /\ freq'[k] = (IF k = x.k THEN n ELSE freq[k])
            BY <2>0, <2>1, DialFacts
        <3>2. PICK m \in Nat : m = Cardinality(Dialling(k))
            BY DialSets
        <3>3. CASE k = x.k /\ n <= FreqLimit
            <4>1. Dialling(k)' \subseteq Dialling(k) \cup {w}
                BY <1>w DEF Dialling, Live
            <4>2. Cardinality(Dialling(k)') \in Nat /\ Cardinality(Dialling(k)') <= m + 1
                BY <3>2, <4>1, DialSets, OneMoreOrLess, FS_CardinalityType
            <4>3. n = freq[k] + 1
                BY <2>0, <2>1, <3>1, <3>3 DEF UpTo
            <4>4. freq[k] <= FreqLimit /\ placed[k] + m <= freq[k] + errors
                BY <2>0, <3>1, <3>2, <3>3, <4>3 DEF NumberOK, UpTo
            <4>5. placed[k] + Cardinality(Dialling(k)') <= n + errors
                BY <2>0, <3>1, <4>2, <4>3, <4>4
            <4> QED
                BY <2>0, <3>1, <3>3, <4>5 DEF NumberOK, UpTo
        <3>4. CASE ~(k = x.k /\ n <= FreqLimit)
            <4>1. Dialling(k)' \subseteq Dialling(k)
                <5>1. k = x.k => new.at = "record"
                    BY <1>1, <2>0, <2>2, <3>4
                <5>2. w \notin Dialling(k)'
                    BY <1>w, <5>1 DEF Dialling
                <5> QED
                    BY <1>w, <5>2 DEF Dialling, Live
            <4>2. Cardinality(Dialling(k)') \in Nat /\ Cardinality(Dialling(k)') <= m
                BY <3>2, <4>1, DialSets, OneMoreOrLess
            <4>3. PICK u \in Nat, v \in Nat : u = UpTo(freq[k], FreqLimit) /\ v = UpTo(freq[k], FreqLimit)'
                BY <2>0, <3>1 DEF UpTo
            <4>4. u <= v /\ freq'[k] <= FreqLimit + 1
                BY <2>0, <2>1, <3>1, <3>4, <4>3 DEF UpTo, NumberOK
            <4>5. placed[k] + m <= u + errors
                BY <3>1, <3>2, <4>3 DEF NumberOK
            <4>6. placed[k] + Cardinality(Dialling(k)') <= v + errors
                BY <2>0, <3>1, <4>2, <4>4, <4>5
            <4> QED
                BY <2>0, <4>3, <4>4, <4>6 DEF NumberOK
        <3> QED
            BY <3>3, <3>4
    <2> QED
        BY <2>2, <2>3
<1>2. CASE IncrFails(w) /\ new.at = "place" /\ new.ctx = x.ctx
    <2>0. freq' = freq /\ placed' = placed /\ errors \in Nat /\ errors' \in Nat
        BY <1>2, DialFacts, DialCounts DEF IncrFails, dialerVars
    <2>1. ASSUME NEW k \in Cases PROVE NumberOK(k)'
        <3>1. PICK m \in Nat : m = Cardinality(Dialling(k))
            BY DialSets
        <3>2. Cardinality(Dialling(k)') \in Nat /\ Cardinality(Dialling(k)') + errors <= m + errors'
            <4>1. CASE Live(w)
                <5>1. Dialling(k)' \subseteq Dialling(k) \cup {w}
                    BY <1>w DEF Dialling, Live
                <5>2. Cardinality(Dialling(k)') \in Nat /\ Cardinality(Dialling(k)') <= m + 1
                    BY <3>1, <5>1, DialSets, OneMoreOrLess, FS_CardinalityType
                <5>3. errors' = errors + 1
                    BY <1>2, <4>1 DEF IncrFails, Failing
                <5> QED
                    BY <2>0, <5>2, <5>3
            <4>2. CASE ~Live(w)
                <5>1. Dialling(k)' \subseteq Dialling(k)
                    BY <1>w, <1>2, <4>2 DEF Dialling, Live
                <5>2. Cardinality(Dialling(k)') \in Nat /\ Cardinality(Dialling(k)') <= m
                    BY <3>1, <5>1, DialSets, OneMoreOrLess
                <5>3. errors' = errors
                    BY <1>2, <4>2 DEF IncrFails
                <5> QED
                    BY <2>0, <5>2, <5>3
            <4> QED
                BY <4>1, <4>2
        <3>3. PICK u \in Nat : u = UpTo(freq[k], FreqLimit)
            BY DialFacts DEF UpTo
        <3>4. /\ placed[k] \in Nat /\ freq[k] <= FreqLimit + 1 /\ placed[k] + m <= u + errors
              /\ u = UpTo(freq[k], FreqLimit)'
            BY <2>0, <3>1, <3>3, DialFacts DEF NumberOK, UpTo
        <3>5. placed[k] + Cardinality(Dialling(k)') <= u + errors'
            BY <2>0, <3>2, <3>4
        <3> QED
            BY <2>0, <3>4, <3>5 DEF NumberOK
    <2> QED
        BY <2>0, <2>1, DialFacts
<1>3. CASE DialOk(w) /\ new.at = "record"
    <2>0. freq' = freq /\ errors' = errors /\ placed' = [placed EXCEPT ![x.k] = @ + 1] /\ errors \in Nat
        BY <1>3, DialFacts DEF DialOk
    <2>1. placed' \in [Cases -> Nat] /\ freq' \in [Cases -> Nat]
        BY <2>0, DialFacts
    <2>2. ASSUME NEW k \in Cases PROVE NumberOK(k)'
        <3>1. PICK m \in Nat : m = Cardinality(Dialling(k))
            BY DialSets
        <3>2. PICK p \in Nat, q \in Nat : p = placed[k] /\ q = placed'[k]
            BY <2>1, DialFacts
        <3>3. Dialling(k)' \subseteq Dialling(k) /\ w \notin Dialling(k)'
            BY <1>3, <1>w DEF Dialling, Live
        <3>4. Cardinality(Dialling(k)') \in Nat /\ q + Cardinality(Dialling(k)') <= p + m
            <4>1. CASE k = x.k
                <5>1. w \in Dialling(k)
                    BY <1>3, <4>1 DEF DialOk, Dialling, At
                <5>2. Cardinality(Dialling(k)') \in Nat /\ Cardinality(Dialling(k)') + 1 <= m
                    BY <3>1, <3>3, <5>1, DialSets, OneMoreOrLess
                <5>3. q = p + 1
                    BY <2>0, <3>2, <4>1, DialFacts
                <5> QED
                    BY <5>2, <5>3
            <4>2. CASE k # x.k
                <5>1. Cardinality(Dialling(k)') \in Nat /\ Cardinality(Dialling(k)') <= m
                    BY <3>1, <3>3, DialSets, OneMoreOrLess
                <5>2. q = p
                    BY <2>0, <3>2, <4>2, DialFacts
                <5> QED
                    BY <5>1, <5>2
            <4> QED
                BY <4>1, <4>2
        <3>5. PICK u \in Nat : u = UpTo(freq[k], FreqLimit)
            BY DialFacts DEF UpTo
        <3>6. freq[k] <= FreqLimit + 1 /\ p + m <= u + errors /\ u = UpTo(freq[k], FreqLimit)'
            BY <2>0, <3>1, <3>2, <3>5, DialFacts DEF NumberOK, UpTo
        <3>7. q + Cardinality(Dialling(k)') <= u + errors
            BY <2>0, <3>4, <3>6
        <3> QED
            BY <2>0, <3>2, <3>6, <3>7 DEF NumberOK
    <2> QED
        BY <2>1, <2>2
<1> QED
    BY <1>1, <1>2, <1>3

(* The goroutine of a case, apart from the slot it takes and gives back.     *)
LEMMA CaseDialled ==
    ASSUME DialInv, NEW w \in DialWorkers,
           IncrAndCheck(w) \/ IncrFails(w) \/ DialOk(w) \/ DialFails(w)
    PROVE  DialInv'
<1>0. PICK x : x = work[w]
    OBVIOUS
<1>x. x \in DialWorker /\ x.at \in {"freq", "place"} /\ x.k \in Cases
    BY <1>0, DialFacts DEF IncrAndCheck, IncrFails, DialOk, DialFails, At, WorkerOK, OfCase
<1>t. /\ camp \in CampaignRow /\ cases \in [Cases -> CaseRow] /\ calls \in [Cases -> Nat]
      /\ requests \in 0..MaxEvents /\ errors \in 0..MaxEvents /\ errors <= errors
      /\ freq \in [Cases -> Nat] /\ placed \in [Cases -> Nat]
    BY DialFacts, DialCounts
<1>u. /\ UNCHANGED <<camp, cases, requests, reg, loops>>
      /\ errors' \in 0..MaxEvents /\ errors <= errors' /\ calls' \in [Cases -> Nat]
    <2>1. calls' \in [Cases -> Nat] /\ UNCHANGED <<camp, cases, requests, reg, loops>>
        BY <1>t DEF IncrAndCheck, IncrFails, DialOk, DialFails, dialerVars
    <2>2. errors' \in 0..MaxEvents /\ errors <= errors'
        BY <1>t, DialCounts DEF IncrAndCheck, IncrFails, DialOk, DialFails
    <2> QED
        BY <2>1, <2>2
\* Only its place and the outcome of its dial change.
<1>m. ASSUME NEW new \in DialWorker, work' = [work EXCEPT ![w] = new], new.at \in {"place", "record"},
             new.k = x.k, new.loop = x.loop, new.ctx = x.ctx,
             \A k \in Cases : NumberOK(k)', freq' \in [Cases -> Nat], placed' \in [Cases -> Nat]
      PROVE  DialInv'
    BY <1>0, <1>x, <1>t, <1>u, <1>m, WorkerMoves
<1>1. ASSUME NEW at \in {"place", "record"}, Proceed(w, at),
             \/ IncrAndCheck(w) /\ at = (IF freq'[x.k] > FreqLimit THEN "record" ELSE "place")
             \/ IncrFails(w) /\ at = "place"
             \/ DialFails(w) /\ at = "record"
      PROVE  DialInv'
    <2>1. PICK new : new = [x EXCEPT !.at = at]
        OBVIOUS
    <2>2. at \in Places
        BY DEF Places
    <2>3. new \in DialWorker
        BY <1>x, <2>1, <2>2, WorkerFields
    <2>4. new.at = at /\ new.k = x.k /\ new.loop = x.loop /\ new.ctx = x.ctx
        BY <1>x, <2>1 DEF DialWorker
    <2>5. work' = [work EXCEPT ![w] = new]
        BY <1>0, <1>1, <2>1, DialFacts DEF Proceed
    <2>6. CASE DialFails(w) /\ at = "record"
        <3>1. UNCHANGED <<freq, placed>>
            BY <2>6 DEF DialFails, dialerVars
        <3>2. \A v \in DialWorkers : work'[v] = IF v = w THEN new ELSE work[v]
            BY <2>5, DialFacts
        <3>3. \A k \in Cases : NumberOK(k)'
            BY <1>u, <2>4, <2>6, <3>1, <3>2, NumbersKeep
        <3> QED
            BY <1>m, <1>t, <2>3, <2>4, <2>5, <3>1, <3>3
    <2>7. CASE ~(DialFails(w) /\ at = "record")
        <3>1. \/ IncrAndCheck(w) /\ new.at = (IF freq'[x.k] > FreqLimit THEN "record" ELSE "place")
              \/ IncrFails(w) /\ new.at = "place" /\ new.ctx = x.ctx
            BY <1>1, <2>4, <2>7
        <3>2. /\ \A k \in Cases : NumberOK(k)'
              /\ freq' \in [Cases -> Nat] /\ placed' \in [Cases -> Nat]
            BY <1>0, <1>x, <2>3, <2>4, <2>5, <3>1, NumberCounted
        <3> QED
            BY <1>m, <2>3, <2>4, <2>5, <3>2
    <2> QED
        BY <2>6, <2>7
<1>2. CASE DialOk(w)
    <2>1. PICK a : a = [x EXCEPT !.at = "record"]
        OBVIOUS
    <2>2. PICK new : new = [a EXCEPT !.ok = TRUE]
        OBVIOUS
    <2>3. a \in DialWorker /\ new \in DialWorker
        BY <1>x, <2>1, <2>2, WorkerFields DEF Places
    <2>4. new.at = "record" /\ new.k = x.k /\ new.loop = x.loop /\ new.ctx = x.ctx
        BY <1>x, <2>1, <2>2, <2>3 DEF DialWorker
    <2>5. work' = [work EXCEPT ![w] = new]
        BY <1>0, <1>2, <2>1, <2>2, DialFacts DEF DialOk
    <2>6. /\ \A k \in Cases : NumberOK(k)'
          /\ freq' \in [Cases -> Nat] /\ placed' \in [Cases -> Nat]
        BY <1>0, <1>2, <1>x, <2>3, <2>4, <2>5, NumberCounted
    <2> QED
        BY <1>m, <2>3, <2>4, <2>5, <2>6
<1>3. CASE IncrAndCheck(w)
    <2>1. freq'[x.k] = UpTo(freq[x.k] + 1, FreqLimit + 1)
        BY <1>0, <1>3, <1>x, <1>t DEF IncrAndCheck
    <2>2. PICK at \in {"place", "record"} : at = IF freq'[x.k] > FreqLimit THEN "record" ELSE "place"
        OBVIOUS
    <2>3. Proceed(w, at)
        BY <1>0, <1>3, <2>1, <2>2 DEF IncrAndCheck
    <2> QED
        BY <1>1, <1>3, <2>2, <2>3
<1>4. CASE IncrFails(w) \/ DialFails(w)
    BY <1>1, <1>4 DEF IncrFails, DialFails
<1> QED
    BY <1>2, <1>3, <1>4

LEMMA HandlerGone ==
    ASSUME DialInv, NEW w \in DialWorkers, HandlerReturns(w)
    PROVE  DialInv'
<1>0. PICK x : x = work[w]
    OBVIOUS
<1>x. /\ x \in DialWorker /\ x.at \notin {"dialCase", "accept"} /\ (x.at \in OfCase => x.k \in Cases)
      /\ x.loop # 0 => x.at \in {"freq", "place", "record"}
      /\ x.ctx = "request"
    <2>1. x.at \in {"freq", "place", "record"} \cup (Statements \ {"dialCase"}) /\ x.ctx = "request"
        BY <1>0 DEF HandlerReturns
    <2>2. x \in DialWorker /\ WorkerOK(w)
        BY <1>0, DialFacts
    <2> QED
        BY <1>0, <2>1, <2>2 DEF WorkerOK, Statements
<1>1. PICK new : new = [x EXCEPT !.ctx = "cancelled"]
    OBVIOUS
<1>2. new \in DialWorker
    BY <1>x, <1>1, WorkerFields DEF Contexts
<1>3. new.at = x.at /\ new.k = x.k /\ new.loop = x.loop /\ new.ctx = "cancelled"
    BY <1>x, <1>1 DEF DialWorker
<1>4. /\ work' = [work EXCEPT ![w] = new]
      /\ UNCHANGED <<camp, cases, requests, errors, reg, loops, freq, placed, calls>>
    BY <1>0, <1>1, DialFacts DEF HandlerReturns, dialerVars
<1>5. \A v \in DialWorkers : work'[v] = IF v = w THEN new ELSE work[v]
    BY <1>4, DialFacts
<1>6. errors' \in Nat /\ errors <= errors'
    BY <1>4, DialFacts
<1>7. \A k \in Cases : NumberOK(k)'
    BY <1>3, <1>4, <1>5, <1>6, NumbersKeep
<1>8. /\ camp' \in CampaignRow /\ cases' \in [Cases -> CaseRow] /\ calls' \in [Cases -> Nat]
      /\ requests' \in 0..MaxEvents /\ errors' \in 0..MaxEvents
      /\ freq' \in [Cases -> Nat] /\ placed' \in [Cases -> Nat]
    BY <1>4, DialFacts
<1> QED
    BY <1>0, <1>x, <1>2, <1>3, <1>4, <1>7, <1>8, WorkerMoves

LEMMA CallEnded ==
    ASSUME DialInv, NEW w \in DialWorkers, NEW k \in Cases, NEW wasAnswered \in BOOLEAN,
           CallEnds(w, k, wasAnswered)
    PROVE  DialInv'
<1>1. PICK at \in {"complete", "fail"} : at = IF wasAnswered THEN "complete" ELSE "fail"
    OBVIOUS
<1>2. at \in Places
    BY DEF Places, Statements
<1>3. PICK new : new = [Idle EXCEPT !.at = at, !.k = k]
    OBVIOUS
<1>4. new \in DialWorker /\ new.at = at /\ new.loop = 0 /\ new.k = k
    <2>1. \A y \in Cases : new = [Idle EXCEPT !.at = at, !.k = y] =>
              new \in DialWorker /\ new.at = at /\ new.loop = 0 /\ new.k = y
        BY <1>2, WorkerBegins, ZenonT(60)
    <2> QED
        BY <1>3, <2>1, Zenon
<1>5. /\ work' = [work EXCEPT ![w] = new] /\ work[w].at = "idle"
      /\ UNCHANGED <<camp, cases, requests, errors, reg, loops, freq, placed>>
    BY <1>1, <1>3 DEF CallEnds, Begin, At
<1>6. calls' \in [Cases -> Nat]
    <2>1. calls[k] \in Nat /\ calls[k] > 0 /\ calls' = [calls EXCEPT ![k] = @ - 1]
        BY DialFacts DEF CallEnds
    <2> QED
        BY <2>1, DialFacts
<1>7. /\ camp' \in CampaignRow /\ cases' \in [Cases -> CaseRow]
      /\ requests' \in 0..MaxEvents /\ errors' \in 0..MaxEvents /\ errors <= errors'
    BY <1>5, DialFacts, DialCounts
<1> QED
    BY <1>4, <1>5, <1>6, <1>7, CampaignMoves

(* The slots of a batch, with those in use, never exceed the pace of a mode: *)
(* a negative number of slots may be throttled to one, below ten calls.      *)
LEMMA Throttled ==
    ASSUME NEW s \in Int, s <= 1, NEW ab \in Nat, NEW dialed \in Nat
    PROVE  throttle(s, ab, dialed) \in Int /\ throttle(s, ab, dialed) <= 1
<1>1. PICK p \in Nat : p = MaxAbandonPct * dialed
    BY DialerAssumption
<1>2. PICK q \in Nat : q = ab * 100
    OBVIOUS
<1>3. PICK r \in Int : r = s * MaxAbandonPct * dialed
    BY DialerAssumption
<1>4. r <= p
    <2>1. CASE s = 1
        BY <1>1, <1>3, <2>1, DialerAssumption
    <2>2. CASE s <= 0
        <3>1. PICK m \in Int : m = s * MaxAbandonPct /\ m <= 0
            BY <2>2, DialerAssumption
        <3>2. r <= 0
            BY <1>3, <3>1
        <3> QED
            BY <1>1, <3>2
    <2> QED
        BY <2>1, <2>2
<1>5. CASE q <= p
    BY <1>1, <1>2, <1>5 DEF throttle
<1>6. CASE q > p
    <2>1. r \div q \in Int /\ r \div q <= 1
        BY <1>1, <1>4, <1>6
    <2> QED
        BY <1>1, <1>2, <1>3, <1>6, <2>1 DEF throttle
<1> QED
    BY <1>5, <1>6

LEMMA BatchKeepsPace ==
    ASSUME NEW x \in DialLoop, NEW slots, slots = Positive(BatchSlots(x))
    PROVE  /\ slots \in Nat
           /\ slots = 0 \/ x.active + slots <= Pace(x.mode)
<1>1. x.active \in Nat /\ x.abandoned \in Nat /\ x.dialed \in Nat
    BY DEF DialLoop
<1>2. PICK free \in Int : free = Ratio(x.mode) - x.active
    BY <1>1 DEF Ratio
<1>3. PICK cap \in Int : cap = ConcurrentLimit(x.mode) - x.active
    BY <1>1 DEF ConcurrentLimit
<1>4. PICK n \in Int : n = IF free > cap THEN cap ELSE free
    OBVIOUS
<1>5. CASE cap <= 0
    BY <1>2, <1>3, <1>4, <1>5 DEF BatchSlots, Positive
<1>6. CASE cap > 0 /\ x.mode = "predictive"
    <2>0. n <= 1
        BY <1>1, <1>2, <1>4, <1>6 DEF Ratio
    <2>1. PICK t \in Int : t = throttle(n, x.abandoned, x.dialed) /\ t <= 1
        BY <1>1, <2>0, Throttled
    <2>2. BatchSlots(x) = t
        BY <1>2, <1>3, <1>4, <1>6, <2>1 DEF BatchSlots
    <2> QED
        BY <1>1, <1>3, <1>6, <2>1, <2>2 DEF Positive, Pace, ConcurrentLimit
<1>7. CASE cap > 0 /\ x.mode # "predictive"
    <2>1. BatchSlots(x) = n
        BY <1>2, <1>3, <1>4, <1>7 DEF BatchSlots
    <2> QED
        BY <1>1, <1>2, <1>4, <1>7, <2>1 DEF Positive, Pace, Ratio
<1> QED
    BY <1>5, <1>6, <1>7

LEMMA LoopFields ==
    /\ \A x \in DialLoop, v \in {"idle", "stop", "batch", "dial", "exited"} : [x EXCEPT !.at = v] \in DialLoop
    /\ \A x \in DialLoop : [x EXCEPT !.open = FALSE] \in DialLoop
    /\ \A x \in DialLoop, v \in Nat : [x EXCEPT !.active = v] \in DialLoop
    /\ \A x \in DialLoop, v \in Nat : [x EXCEPT !.dialed = v] \in DialLoop
    /\ \A x \in DialLoop, v \in Nat : [x EXCEPT !.abandoned = v] \in DialLoop
    /\ \A x \in DialLoop, v \in Nat : [x EXCEPT !.slots = v] \in DialLoop
<1>1. ASSUME NEW x \in DialLoop, NEW v \in {"idle", "stop", "batch", "dial", "exited"}
      PROVE  [x EXCEPT !.at = v] \in DialLoop
    BY DEF DialLoop
<1>2. ASSUME NEW x \in DialLoop PROVE [x EXCEPT !.open = FALSE] \in DialLoop
    BY DEF DialLoop
<1>3. ASSUME NEW x \in DialLoop, NEW v \in Nat PROVE [x EXCEPT !.active = v] \in DialLoop
    BY DEF DialLoop
<1>4. ASSUME NEW x \in DialLoop, NEW v \in Nat PROVE [x EXCEPT !.dialed = v] \in DialLoop
    BY DEF DialLoop
<1>5. ASSUME NEW x \in DialLoop, NEW v \in Nat PROVE [x EXCEPT !.abandoned = v] \in DialLoop
    BY DEF DialLoop
<1>6. ASSUME NEW x \in DialLoop, NEW v \in Nat PROVE [x EXCEPT !.slots = v] \in DialLoop
    BY DEF DialLoop
<1> QED
    BY <1>1, <1>2, <1>3, <1>4, <1>5, <1>6

(* A loop ticks: it is neither started nor stopped, and counts no call.      *)
LEMMA OneLoopMoves ==
    ASSUME DialInv, UNCHANGED <<campaignVars, reg, freq, placed, calls>>,
           NEW l \in Loops, NEW x, x = loops[l], NEW new \in DialLoop,
           loops' = [loops EXCEPT ![l] = new], x.at # "unused", new.at # "unused",
           new.inst = x.inst, new.mode = x.mode, new.active = x.active,
           x.open <=> new.open, new.at = "dial" <=> new.slots # 0,
           new.slots <= Pace(new.mode),
           new.slots <= x.slots \/ new.active + new.slots <= Pace(new.mode)
    PROVE  DialInv'
<1>1. /\ camp' \in CampaignRow /\ cases' \in [Cases -> CaseRow] /\ calls' \in [Cases -> Nat]
      /\ requests' \in 0..MaxEvents /\ errors' \in 0..MaxEvents /\ errors <= errors'
      /\ work' = work /\ work' \in [DialWorkers -> DialWorker] /\ reg' = reg
      /\ reg' \in [Instances -> Loops \cup {0}] /\ UNCHANGED <<freq, placed>>
    BY DialFacts, DialCounts DEF campaignVars
<1>2. loops' \in [Loops -> DialLoop] /\ \A m \in Loops : loops'[m] = IF m = l THEN new ELSE loops[m]
    BY DialFacts
<1>3. ASSUME NEW m \in Loops PROVE LoopOK(m)'
    <2>1. LoopOK(m)
        BY DialFacts
    <2> QED
        BY <1>1, <1>2, <2>1 DEF LoopOK
<1>4. ASSUME NEW i \in Instances PROVE RegOK(i)'
    <2>1. RegOK(i) /\ reg[i] \in Loops \cup {0}
        BY DialFacts
    <2> QED
        BY <1>1, <1>2, <2>1 DEF RegOK
<1>5. \A m \in Loops : loops[m].slots \in Nat
    BY DialFacts DEF DialLoop
<1>6. ASSUME NEW m \in Loops
      PROVE  /\ loops'[m].at # "unused" <=> loops[m].at # "unused"
             /\ loops'[m].inst = loops[m].inst
             /\ loops'[m].open <=> loops[m].open
             /\ loops'[m].mode = loops[m].mode /\ loops'[m].active = loops[m].active
             /\ \/ loops'[m].slots <= loops[m].slots
                \/ loops'[m].active + loops'[m].slots <= Pace(loops'[m].mode)
    BY <1>2, <1>5
<1> QED
    BY <1>1, <1>2, <1>3, <1>4, <1>6, LoopsMove

LEMMA LoopTicks ==
    ASSUME DialInv, NEW l \in Loops,
           \/ \E now \in Clock : Tick(l, now)
           \/ Batch(l) \/ BatchEnds(l)
    PROVE  DialInv'
<1>0. PICK x : x = loops[l]
    OBVIOUS
<1>x. /\ x \in DialLoop /\ x.active \in Nat /\ x.slots \in Nat
      /\ x.at = "dial" <=> x.slots # 0
      /\ x.slots <= Pace(x.mode)
    BY <1>0, DialFacts DEF LoopOK, DialLoop
<1>p. Pace(x.mode) \in Nat
    BY DEF Pace
<1>1. ASSUME NEW now \in Clock, Tick(l, now) PROVE DialInv'
    <2>1. PICK at \in {"stop", "batch"} : loops' = [loops EXCEPT ![l].at = at]
        BY <1>1 DEF Tick
    <2>2. PICK new : new = [x EXCEPT !.at = at]
        OBVIOUS
    <2>3. new \in DialLoop
        BY <1>x, <2>2, LoopFields
    <2>4. /\ new.at = at /\ new.inst = x.inst /\ new.mode = x.mode /\ new.active = x.active
          /\ (x.open <=> new.open) /\ new.slots = x.slots
        BY <1>x, <2>2 DEF DialLoop
    <2>5. /\ loops' = [loops EXCEPT ![l] = new] /\ x.at = "idle"
          /\ UNCHANGED <<campaignVars, reg, freq, placed, calls>>
        BY <1>0, <1>1, <2>1, <2>2, DialFacts DEF Tick
    <2>6. /\ x.at # "unused" /\ new.at # "unused" /\ (new.at = "dial" <=> new.slots # 0)
          /\ new.slots <= Pace(new.mode) /\ new.slots <= x.slots
        BY <1>x, <1>p, <2>4, <2>5
    <2> QED
        BY <1>0, <2>3, <2>4, <2>5, <2>6, OneLoopMoves
<1>2. CASE Batch(l)
    <2>1. PICK slots : slots = Positive(BatchSlots(x))
        OBVIOUS
    <2>2. slots \in Nat /\ (slots = 0 \/ x.active + slots <= Pace(x.mode))
        BY <1>x, <2>1, BatchKeepsPace
    <2>3. PICK at \in {"dial", "idle"} : at = IF slots > 0 THEN "dial" ELSE "idle"
        OBVIOUS
    <2>4. PICK a : a = [x EXCEPT !.at = at]
        OBVIOUS
    <2>5. PICK new : new = [a EXCEPT !.slots = slots]
        OBVIOUS
    <2>6. a \in DialLoop /\ new \in DialLoop
        BY <1>x, <2>2, <2>4, <2>5, LoopFields
    <2>7. /\ new.at = at /\ new.inst = x.inst /\ new.mode = x.mode /\ new.active = x.active
          /\ (x.open <=> new.open) /\ new.slots = slots
        BY <1>x, <2>4, <2>5 DEF DialLoop
    <2>8. /\ loops' = [loops EXCEPT ![l] = new] /\ x.at = "batch"
          /\ UNCHANGED <<campaignVars, reg, freq, placed, calls>>
        BY <1>0, <1>2, <2>1, <2>3, <2>4, <2>5, DialFacts DEF Batch
    <2>9. /\ slots <= Pace(x.mode) /\ (slots <= x.slots \/ x.active + slots <= Pace(x.mode))
          /\ at = "dial" <=> slots # 0
        BY <1>x, <1>p, <2>2, <2>3
    <2> QED
        BY <1>0, <2>6, <2>7, <2>8, <2>9, OneLoopMoves
<1>3. CASE BatchEnds(l)
    <2>1. PICK a : a = [x EXCEPT !.at = "idle"]
        OBVIOUS
    <2>2. PICK new : new = [a EXCEPT !.slots = 0]
        OBVIOUS
    <2>3. a \in DialLoop /\ new \in DialLoop
        BY <1>x, <2>1, <2>2, LoopFields
    <2>4. /\ new.at = "idle" /\ new.inst = x.inst /\ new.mode = x.mode /\ new.active = x.active
          /\ (x.open <=> new.open) /\ new.slots = 0
        BY <1>x, <2>1, <2>2 DEF DialLoop
    <2>5. /\ loops' = [loops EXCEPT ![l] = new] /\ x.at = "dial"
          /\ UNCHANGED <<campaignVars, reg, freq, placed, calls>>
        BY <1>0, <1>3, <2>1, <2>2, DialFacts DEF BatchEnds
    <2>6. /\ x.at # "unused" /\ new.at # "unused" /\ (new.at = "dial" <=> new.slots # 0)
          /\ new.slots <= Pace(new.mode) /\ new.slots <= x.slots
        BY <1>x, <1>p, <2>4, <2>5
    <2> QED
        BY <1>0, <2>3, <2>4, <2>5, <2>6, OneLoopMoves
<1> QED
    BY <1>1, <1>2, <1>3

(* A loop starts, stops or ends.                                             *)
LEMMA LoopStarts ==
    ASSUME DialInv, NEW w \in DialWorkers, StartDialing(w)
    PROVE  DialInv'
<1>1. /\ work[w].loop = 0 /\ work' = [work EXCEPT ![w] = Idle] /\ Idle \in DialWorker
      /\ UNCHANGED <<camp, cases, requests, errors, freq, placed, calls>>
    BY IdleWorker, DialFacts DEF StartDialing, At, Done, WorkerOK
<1>2. /\ camp' \in CampaignRow /\ cases' \in [Cases -> CaseRow] /\ calls' \in [Cases -> Nat]
      /\ requests' \in 0..MaxEvents /\ errors' \in 0..MaxEvents /\ errors <= errors'
      /\ work' \in [DialWorkers -> DialWorker]
      /\ \A v \in DialWorkers : work'[v] = work[v] \/ (work'[v] = Idle /\ work[v].loop = 0)
    BY <1>1, DialFacts, DialCounts
<1>3. PICK i \in Instances : i = InstOf[w]
    BY DialFacts
<1>4. CASE reg[i] # 0
    <2>1. UNCHANGED <<reg, loops, freq, placed>>
        BY <1>1, <1>3, <1>4 DEF StartDialing
    <2>2. work[w].at = "startDialing"
        BY DEF StartDialing, At
    <2>3. Done(w)
        BY DEF StartDialing
    <2> QED
        BY <1>1, <1>2, <2>1, <2>2, <2>3, WorkerEnds
<1>5. CASE reg[i] = 0
    <2>1. PICK l \in Loops : /\ loops[l].at = "unused"
                             /\ reg' = [reg EXCEPT ![i] = l]
                             /\ loops' = [loops EXCEPT ![l] = NewLoop(i, camp.mode)]
        BY <1>3, <1>5 DEF StartDialing
    <2>2. PICK new : new = NewLoop(i, camp.mode)
        OBVIOUS
    <2>3. /\ new \in DialLoop /\ new.at = "idle" /\ new.inst = i /\ new.open
          /\ new.active = 0 /\ new.slots = 0
        <3>1. camp.mode \in Modes \cup {"none"}
            BY DialFacts DEF CampaignRow
        <3> QED
            BY <2>2, <3>1 DEF NewLoop, DialLoop
    <2>4. /\ reg' \in [Instances -> Loops \cup {0}] /\ loops' \in [Loops -> DialLoop]
          /\ \A m \in Loops : loops'[m] = IF m = l THEN new ELSE loops[m]
          /\ \A j \in Instances : reg'[j] = IF j = i THEN l ELSE reg[j]
        BY <2>1, <2>2, <2>3, DialFacts
    <2>5. ~loops[l].open /\ l # 0
        BY <2>1, DialFacts DEF LoopOK
    <2>6. ASSUME NEW m \in Loops PROVE LoopOK(m)'
        <3>1. CASE m = l
            <4>1. Pace(new.mode) \in Nat
                BY DEF Pace
            <4> QED
                BY <2>3, <2>4, <3>1, <4>1 DEF LoopOK
        <3>2. CASE m # l
            <4>1. LoopOK(m) /\ loops'[m] = loops[m] /\ loops[m].inst \in Instances
                BY <2>4, <3>2, DialFacts DEF DialLoop
            <4>2. loops[m].open => reg'[loops[m].inst] = m
                BY <1>5, <2>4, <3>2, <4>1, DialFacts DEF LoopOK
            <4> QED
                BY <4>1, <4>2 DEF LoopOK
        <3> QED
            BY <3>1, <3>2
    <2>7. ASSUME NEW j \in Instances PROVE RegOK(j)'
        <3>1. CASE j = i
            BY <2>3, <2>4, <2>5, <3>1 DEF RegOK
        <3>2. CASE j # i
            <4>1. reg'[j] = reg[j] /\ reg[j] \in Loops \cup {0} /\ RegOK(j)
                BY <2>4, <3>2, DialFacts
            <4>2. reg[j] # 0 => loops'[reg[j]] = loops[reg[j]]
                BY <2>4, <2>5, <4>1 DEF RegOK
            <4> QED
                BY <4>1, <4>2 DEF RegOK
        <3> QED
            BY <3>1, <3>2
    <2>8. ASSUME NEW m \in Loops
          PROVE  /\ loops[m].at # "unused" => loops'[m].at # "unused" /\ loops'[m].inst = loops[m].inst
                 /\ loops'[m].open =>
                        \/ loops'[m].active = 0
                        \/ /\ loops[m].open
                           /\ loops'[m].mode = loops[m].mode /\ loops'[m].active = loops[m].active
                           /\ loops'[m].slots <= loops[m].slots
        <3>1. loops[m].slots \in Nat
            BY DialFacts DEF DialLoop
        <3> QED
            BY <2>1, <2>3, <2>4, <3>1
    <2>9. UNCHANGED <<freq, placed>>
        BY <1>1
    <2> QED
        BY <1>2, <2>4, <2>6, <2>7, <2>8, <2>9, LoopsMove
<1> QED
    BY <1>4, <1>5

\* The registered loop of a process is closed, and one loop takes a place.
LEMMA LoopStops ==
    ASSUME DialInv, NEW i \in Instances, reg' = [reg EXCEPT ![i] = 0],
           UNCHANGED <<camp, cases, requests, errors, freq, placed, calls>>,
           work' \in [DialWorkers -> DialWorker],
           \A v \in DialWorkers : work'[v] = work[v] \/ (work'[v] = Idle /\ work[v].loop = 0),
           loops' \in [Loops -> DialLoop],
           \A l \in Loops :
               /\ loops'[l].open <=> loops[l].open /\ reg[i] # l
               /\ loops'[l].at = loops[l].at \/ (loops[l].at = "stop" /\ loops'[l].at = "idle")
               /\ loops'[l].inst = loops[l].inst /\ loops'[l].mode = loops[l].mode
               /\ loops'[l].active = loops[l].active /\ loops'[l].slots = loops[l].slots
    PROVE  DialInv'
<1>1. reg' \in [Instances -> Loops \cup {0}] /\ \A j \in Instances : reg'[j] = IF j = i THEN 0 ELSE reg[j]
    BY DialFacts
<1>2. ASSUME NEW l \in Loops PROVE LoopOK(l)'
    <2>1. LoopOK(l) /\ loops[l].inst \in Instances
        BY DialFacts DEF DialLoop
    <2>2. loops'[l].open => loops[l].inst # i
        BY <2>1 DEF LoopOK
    <2> QED
        BY <1>1, <2>1, <2>2 DEF LoopOK
<1>3. ASSUME NEW j \in Instances PROVE RegOK(j)'
    <2>1. CASE j = i
        BY <1>1, <2>1 DEF RegOK
    <2>2. CASE j # i
        <3>1. RegOK(j) /\ reg[j] \in Loops \cup {0} /\ RegOK(i) /\ reg[i] \in Loops \cup {0}
            BY DialFacts
        <3>2. reg[j] # 0 => reg[j] # reg[i]
            BY <2>2, <3>1 DEF RegOK
        <3> QED
            BY <1>1, <2>2, <3>1, <3>2 DEF RegOK
    <2> QED
        BY <2>1, <2>2
<1>4. ASSUME NEW l \in Loops
      PROVE  /\ loops[l].at # "unused" => loops'[l].at # "unused" /\ loops'[l].inst = loops[l].inst
             /\ loops'[l].open =>
                    /\ loops[l].open
                    /\ loops'[l].mode = loops[l].mode /\ loops'[l].active = loops[l].active
                    /\ loops'[l].slots <= loops[l].slots
    <2>1. loops[l].slots \in Nat
        BY DialFacts DEF DialLoop
    <2> QED
        BY <2>1
<1>5. /\ camp' \in CampaignRow /\ cases' \in [Cases -> CaseRow] /\ calls' \in [Cases -> Nat]
      /\ requests' \in 0..MaxEvents /\ errors' \in 0..MaxEvents /\ errors <= errors'
    BY DialFacts, DialCounts
<1> QED
    BY <1>1, <1>2, <1>3, <1>4, <1>5, LoopsMove

(* StopDialing and the tick of a campaign that is not running.               *)
LEMMA LoopsClosed ==
    ASSUME DialInv, NEW i \in Instances, reg' = [reg EXCEPT ![i] = 0],
           UNCHANGED <<camp, cases, requests, errors, freq, placed, calls>>,
           work' \in [DialWorkers -> DialWorker],
           \A v \in DialWorkers : work'[v] = work[v] \/ (work'[v] = Idle /\ work[v].loop = 0),
           \/ loops' = Closed(i)
           \/ \E l \in Loops : loops[l].at = "stop" /\ loops' = [Closed(i) EXCEPT ![l].at = "idle"]
    PROVE  DialInv'
<1>1. PICK shut : shut = Closed(i)
    OBVIOUS
<1>2. /\ shut \in [Loops -> DialLoop]
      /\ \A l \in Loops :
            /\ shut[l].open <=> loops[l].open /\ reg[i] # l
            /\ shut[l].at = loops[l].at /\ shut[l].inst = loops[l].inst
            /\ shut[l].mode = loops[l].mode /\ shut[l].active = loops[l].active
            /\ shut[l].slots = loops[l].slots
    <2>1. CASE reg[i] = 0
        <3>1. shut = loops /\ 0 \notin Loops
            BY <1>1, <2>1, DialFacts DEF Closed
        <3> QED
            BY <2>1, <3>1, DialFacts
    <2>2. CASE reg[i] # 0
        <3>1. PICK m \in Loops : m = reg[i]
            BY <2>2, DialFacts
        <3>2. PICK x : x = loops[m]
            OBVIOUS
        <3>3. PICK new : new = [x EXCEPT !.open = FALSE]
            OBVIOUS
        <3>4. x \in DialLoop /\ new \in DialLoop
            BY <3>2, <3>3, LoopFields, DialFacts
        <3>5. /\ ~new.open /\ new.at = x.at /\ new.inst = x.inst
              /\ new.mode = x.mode /\ new.active = x.active /\ new.slots = x.slots
            BY <3>3, <3>4 DEF DialLoop
        <3>6. shut = [loops EXCEPT ![m] = new]
            BY <1>1, <2>2, <3>1, <3>2, <3>3, DialFacts DEF Closed
        <3>7. shut \in [Loops -> DialLoop] /\ \A l \in Loops : shut[l] = IF l = m THEN new ELSE loops[l]
            BY <3>4, <3>6, DialFacts
        <3> QED
            BY <3>1, <3>2, <3>5, <3>7
    <2> QED
        BY <2>1, <2>2
<1>3. CASE loops' = shut
    <2>1. loops' \in [Loops -> DialLoop]
        BY <1>2, <1>3
    <2>2. ASSUME NEW m \in Loops
          PROVE  /\ loops'[m].open <=> loops[m].open /\ reg[i] # m
                 /\ loops'[m].at = loops[m].at \/ (loops[m].at = "stop" /\ loops'[m].at = "idle")
                 /\ loops'[m].inst = loops[m].inst /\ loops'[m].mode = loops[m].mode
                 /\ loops'[m].active = loops[m].active /\ loops'[m].slots = loops[m].slots
        BY <1>2, <1>3
    <2> QED
        BY <2>1, <2>2, LoopStops, ZenonT(60)
<1>4. ASSUME NEW l \in Loops, loops[l].at = "stop", loops' = [shut EXCEPT ![l].at = "idle"]
      PROVE  DialInv'
    <2>1. PICK x : x = shut[l]
        OBVIOUS
    <2>2. PICK new : new = [x EXCEPT !.at = "idle"]
        OBVIOUS
    <2>3. x \in DialLoop /\ new \in DialLoop
        BY <1>2, <2>1, <2>2, LoopFields
    <2>4. /\ (new.open <=> x.open) /\ new.at = "idle" /\ new.inst = x.inst
          /\ new.mode = x.mode /\ new.active = x.active /\ new.slots = x.slots
        BY <2>2, <2>3 DEF DialLoop
    <2>5. loops' = [shut EXCEPT ![l] = new]
        BY <1>2, <1>4, <2>1, <2>2
    <2>6. loops' \in [Loops -> DialLoop] /\ \A m \in Loops : loops'[m] = IF m = l THEN new ELSE shut[m]
        BY <1>2, <2>3, <2>5
    <2>7. ASSUME NEW m \in Loops
          PROVE  /\ loops'[m].open <=> loops[m].open /\ reg[i] # m
                 /\ loops'[m].at = loops[m].at \/ (loops[m].at = "stop" /\ loops'[m].at = "idle")
                 /\ loops'[m].inst = loops[m].inst /\ loops'[m].mode = loops[m].mode
                 /\ loops'[m].active = loops[m].active /\ loops'[m].slots = loops[m].slots
        BY <1>2, <1>4, <2>1, <2>4, <2>6
    <2> QED
        BY <2>6, <2>7, LoopStops, ZenonT(60)
<1> QED
    BY <1>1, <1>3, <1>4

LEMMA LoopsEnd ==
    ASSUME DialInv,
           \/ \E w \in DialWorkers : StopDialing(w)
           \/ \E l \in Loops : TickStops(l)
    PROVE  DialInv'
<1>1. ASSUME NEW w \in DialWorkers, StopDialing(w) PROVE DialInv'
    <2>1. /\ work[w].loop = 0 /\ work' = [work EXCEPT ![w] = Idle] /\ Idle \in DialWorker
          /\ UNCHANGED <<camp, cases, requests, errors, freq, placed, calls>>
        BY <1>1, IdleWorker, DialFacts DEF StopDialing, At, Done, WorkerOK
    <2>2. /\ work' \in [DialWorkers -> DialWorker]
          /\ \A v \in DialWorkers : work'[v] = work[v] \/ (work'[v] = Idle /\ work[v].loop = 0)
        BY <2>1, DialFacts
    <2>3. PICK i \in Instances : i = InstOf[w]
        BY DialFacts
    <2>4. reg' = [reg EXCEPT ![i] = 0] /\ loops' = Closed(i)
        BY <1>1, <2>3 DEF StopDialing
    <2> QED
        BY <2>1, <2>2, <2>4, LoopsClosed
<1>2. ASSUME NEW l \in Loops, TickStops(l) PROVE DialInv'
    <2>1. PICK i \in Instances : i = loops[l].inst
        BY DialFacts DEF DialLoop
    <2>2. /\ UNCHANGED <<camp, cases, work, requests, errors, freq, placed, calls>>
          /\ reg' = [reg EXCEPT ![i] = 0] /\ loops[l].at = "stop"
          /\ loops' = [Closed(i) EXCEPT ![l].at = "idle"]
        BY <1>2, <2>1 DEF TickStops, campaignVars
    <2>3. work' \in [DialWorkers -> DialWorker] /\ \A v \in DialWorkers : work'[v] = work[v]
        BY <2>2, DialFacts
    <2> QED
        BY <2>2, <2>3, LoopsClosed
<1> QED
    BY <1>1, <1>2

LEMMA LoopExits ==
    ASSUME DialInv, NEW l \in Loops, LoopExit(l)
    PROVE  DialInv'
<1>0. PICK x : x = loops[l]
    OBVIOUS
<1>1. x \in DialLoop /\ x.at = "idle" /\ ~x.open /\ x.slots = 0 /\ x.slots <= Pace(x.mode)
    BY <1>0, DialFacts DEF LoopExit, LoopOK
<1>2. PICK new : new = [x EXCEPT !.at = "exited"]
    OBVIOUS
<1>3. new \in DialLoop
    BY <1>1, <1>2, LoopFields
<1>4. /\ new.at = "exited" /\ new.inst = x.inst /\ new.mode = x.mode /\ new.active = x.active
      /\ (x.open <=> new.open) /\ new.slots = x.slots
    BY <1>1, <1>2 DEF DialLoop
<1>5. /\ loops' = [loops EXCEPT ![l] = new]
      /\ UNCHANGED <<campaignVars, reg, freq, placed, calls>>
    BY <1>0, <1>2, DialFacts DEF LoopExit
<1>6. /\ x.at # "unused" /\ new.at # "unused" /\ (new.at = "dial" <=> new.slots # 0)
      /\ new.slots <= Pace(new.mode) /\ new.slots <= x.slots
    BY <1>1, <1>4
<1> QED
    BY <1>0, <1>3, <1>4, <1>5, <1>6, OneLoopMoves

(* A worker takes or gives back a slot.                                      *)
LEMMA CountersMove ==
    ASSUME DialInv, NEW w \in DialWorkers, NEW new \in DialWorker, work' = [work EXCEPT ![w] = new],
           UNCHANGED <<camp, cases, requests, errors, reg, freq, placed, calls>>,
           loops' \in [Loops -> DialLoop],
           \A m \in Loops :
               /\ loops'[m].inst = loops[m].inst /\ loops'[m].mode = loops[m].mode
               /\ loops'[m].open <=> loops[m].open
               /\ loops'[m].at = "unused" <=> loops[m].at = "unused"
               /\ loops'[m].at = "dial" <=> loops'[m].slots # 0
               /\ loops'[m].slots <= loops[m].slots,
           new.at \notin {"place", "dialCase", "accept"}, new.at \in OfCase => new.k \in Cases,
           new.loop # 0 => /\ new.at \in {"freq", "place", "record"}
                           /\ loops[new.loop].at # "unused" /\ loops[new.loop].inst = InstOf[w],
           \A m \in Loops : LoopSlotsOK(m)'
    PROVE  DialInv'
<1>1. /\ work' \in [DialWorkers -> DialWorker]
      /\ \A v \in DialWorkers : work'[v] = IF v = w THEN new ELSE work[v]
    BY DialFacts
<1>2. DialerTypeOK'
    <2>1. /\ camp' \in CampaignRow /\ cases' \in [Cases -> CaseRow]
          /\ requests' \in 0..MaxEvents /\ errors' \in 0..MaxEvents
          /\ reg' \in [Instances -> Loops \cup {0}]
          /\ freq' \in [Cases -> Nat] /\ placed' \in [Cases -> Nat] /\ calls' \in [Cases -> Nat]
        BY DialFacts
    <2> QED
        BY <1>1, <2>1 DEF DialerTypeOK, DialWorker, DialLoop
<1>3. ASSUME NEW v \in DialWorkers PROVE WorkerOK(v)'
    <2>1. work'[v] \in DialWorker /\ work'[v].loop \in Loops \cup {0}
        BY <1>1 DEF DialWorker
    <2>2. CASE v = w
        BY <1>1, <2>1, <2>2 DEF WorkerOK
    <2>3. CASE v # w
        <3>1. work'[v] = work[v] /\ WorkerOK(v)
            BY <1>1, <2>3, DialFacts
        <3> QED
            BY <2>1, <3>1 DEF WorkerOK
    <2> QED
        BY <2>2, <2>3
<1>4. ASSUME NEW m \in Loops PROVE LoopOK(m)'
    <2>1. LoopOK(m) /\ loops[m].slots \in Nat /\ loops'[m].slots \in Nat /\ reg' = reg
        BY DialFacts DEF DialLoop
    <2>2. PICK p \in Nat : p = Pace(loops[m].mode)
        BY DEF Pace
    <2>3. loops'[m].slots <= p
        BY <2>1, <2>2 DEF LoopOK
    <2> QED
        BY <2>1, <2>2, <2>3 DEF LoopOK
<1>5. ASSUME NEW i \in Instances PROVE RegOK(i)'
    <2>1. RegOK(i) /\ reg[i] \in Loops \cup {0} /\ reg' = reg
        BY DialFacts
    <2> QED
        BY <2>1 DEF RegOK
<1>6. \A k \in Cases : NumberOK(k)'
    BY <1>1, NumbersKeep, DialFacts
<1> QED
    BY <1>2, <1>3, <1>4, <1>5, <1>6 DEF DialInv

(* The slots of a loop that the worker has nothing to do with.               *)
LEMMA SlotsElsewhere ==
    ASSUME DialInv, NEW w \in DialWorkers, NEW new \in DialWorker, work' = [work EXCEPT ![w] = new],
           NEW m \in Loops, loops'[m] = loops[m], new.loop # m,
           work[w].loop = m => ~loops[m].open
    PROVE  LoopSlotsOK(m)'
<1>1. CASE ~loops[m].open
    BY <1>1 DEF LoopSlotsOK
<1>2. CASE loops[m].open
    <2>1. \A v \in DialWorkers : work'[v] = IF v = w THEN new ELSE work[v]
        BY DialFacts
    <2>2. SlotHolders(m)' = SlotHolders(m)
        BY <1>2, <2>1 DEF SlotHolders
    <2>3. Previews(m)' = Previews(m)
        <3>1. \A v \in SlotHolders(m) : work'[v] = work[v]
            BY <1>2, <2>1 DEF SlotHolders
        <3> QED
            BY <2>2, <3>1 DEF Previews
    <2>4. LoopSlotsOK(m)
        BY DialFacts
    <2> QED
        BY <2>2, <2>3, <2>4 DEF LoopSlotsOK
<1> QED
    BY <1>1, <1>2

LEMMA SlotTaken ==
    ASSUME DialInv, NEW w \in DialWorkers, NEW new \in DialWorker, work' = [work EXCEPT ![w] = new],
           UNCHANGED <<camp, cases, requests, errors, reg, freq, placed, calls>>,
           NEW l \in Loops, NEW x, x = loops[l], NEW y \in DialLoop, loops' = [loops EXCEPT ![l] = y],
           y.inst = x.inst, y.mode = x.mode, y.open <=> x.open,
           x.at # "unused", y.at # "unused", y.at = "dial" <=> y.slots # 0,
           y.active = x.active + 1, x.inst = InstOf[w],
           work[w].loop = 0, new.loop = l, new.at = "freq", new.k \in Cases,
           \/ y.slots = x.slots - 1
           \/ y.slots = x.slots /\ new.ctx # "own"
    PROVE  DialInv'
<1>1. \A v \in DialWorkers : work'[v] = IF v = w THEN new ELSE work[v]
    BY DialFacts
<1>2. loops' \in [Loops -> DialLoop] /\ \A m \in Loops : loops'[m] = IF m = l THEN y ELSE loops[m]
    BY DialFacts
<1>3. /\ x \in DialLoop /\ x.active \in Nat /\ x.slots \in Nat /\ y.slots \in Nat
      /\ l # 0 /\ LoopSlotsOK(l)
    BY DialFacts DEF DialLoop
<1>4. SlotHolders(l) \subseteq SlotHolders(l)' /\ w \in SlotHolders(l)' /\ w \notin SlotHolders(l)
    BY <1>1, <1>3 DEF SlotHolders
<1>5. PICK h \in Nat, p \in Nat : h = Cardinality(SlotHolders(l)) /\ p = Cardinality(Previews(l))
    BY DialSets
<1>6. IsFiniteSet(SlotHolders(l)') /\ IsFiniteSet(Previews(l)')
    <2>1. SlotHolders(l)' \subseteq DialWorkers /\ Previews(l)' \subseteq DialWorkers
        BY DEF SlotHolders, Previews
    <2> QED
        BY <2>1, CampaignAssumption, FS_Subset
<1>7. PICK g \in Nat, q \in Nat : g = Cardinality(SlotHolders(l)') /\ q = Cardinality(Previews(l)')
    BY <1>6, FS_CardinalityType
<1>8. h + 1 <= g
    BY <1>4, <1>5, <1>6, <1>7, OneMoreOrLess
<1>9. Previews(l) \subseteq Previews(l)'
    <2>1. \A v \in SlotHolders(l) : work'[v] = work[v]
        BY <1>1, <1>4
    <2> QED
        BY <1>4, <2>1 DEF Previews
<1>10. p <= q /\ (new.ctx # "own" => p + 1 <= q)
    <2>1. p <= q
        BY <1>5, <1>6, <1>7, <1>9, OneMoreOrLess
    <2>2. ASSUME new.ctx # "own" PROVE p + 1 <= q
        <3>1. w \in Previews(l)' /\ w \notin Previews(l)
            BY <1>1, <1>4, <2>2 DEF Previews
        <3> QED
            BY <1>5, <1>6, <1>7, <1>9, <3>1, OneMoreOrLess
    <2> QED
        BY <2>1, <2>2
<1>11. LoopSlotsOK(l)'
    <2> SUFFICES ASSUME x.open
                 PROVE  /\ loops'[l].active <= g
                        /\ loops'[l].active + loops'[l].slots <= Pace(loops'[l].mode) + q
        BY <1>2, <1>7 DEF LoopSlotsOK
    <2>1. PICK c \in Nat : c = Pace(x.mode)
        BY DEF Pace
    <2>2. x.active <= h /\ x.active + x.slots <= c + p
        BY <1>3, <1>5, <2>1 DEF LoopSlotsOK
    <2>3. y.active <= g /\ y.active + y.slots <= c + q
        BY <1>3, <1>8, <1>10, <2>2
    <2> QED
        BY <1>2, <2>1, <2>3
<1>12. ASSUME NEW m \in Loops PROVE LoopSlotsOK(m)'
    <2>1. CASE m # l
        <3>1. loops'[m] = loops[m] /\ new.loop # m /\ work[w].loop # m
            BY <1>2, <2>1, DialFacts
        <3> QED
            BY <3>1, SlotsElsewhere
    <2> QED
        BY <1>11, <2>1
<1>13. ASSUME NEW m \in Loops
       PROVE  /\ loops'[m].inst = loops[m].inst /\ loops'[m].mode = loops[m].mode
              /\ loops'[m].open <=> loops[m].open
              /\ loops'[m].at = "unused" <=> loops[m].at = "unused"
              /\ loops'[m].at = "dial" <=> loops'[m].slots # 0
              /\ loops'[m].slots <= loops[m].slots
    <2>1. LoopOK(m) /\ loops[m].slots \in Nat
        BY DialFacts DEF DialLoop
    <2>2. y.slots <= x.slots
        BY <1>3
    <2> QED
        BY <1>2, <2>1, <2>2 DEF LoopOK
<1> QED
    BY <1>2, <1>12, <1>13, CountersMove

LEMMA Counted1 ==
    ASSUME NEW x \in DialLoop, NEW y, y = CountDial(x)
    PROVE  /\ y \in DialLoop /\ y.active = x.active + 1 /\ y.slots = x.slots /\ y.at = x.at
           /\ y.inst = x.inst /\ y.mode = x.mode /\ (y.open <=> x.open)
<1>1. PICK n \in Nat : n = x.active + 1
    BY DEF DialLoop
<1>2. PICK d \in Nat : d = x.dialed + IF x.mode = "predictive" THEN 1 ELSE 0
    BY DEF DialLoop
<1>3. PICK a : a = [x EXCEPT !.active = n]
    OBVIOUS
<1>4. a \in DialLoop
    BY <1>3, LoopFields
<1>5. PICK b : b = [a EXCEPT !.dialed = d]
    OBVIOUS
<1>6. b \in DialLoop
    BY <1>4, <1>5, LoopFields
<1>7. y = b
    BY <1>1, <1>2, <1>3, <1>5 DEF CountDial
<1>8. /\ b.active = n /\ b.slots = x.slots /\ b.at = x.at
      /\ b.inst = x.inst /\ b.mode = x.mode /\ (b.open <=> x.open)
    BY <1>3, <1>4, <1>5 DEF DialLoop
<1> QED
    BY <1>1, <1>6, <1>7, <1>8

LEMMA BatchDials ==
    ASSUME DialInv, NEW l \in Loops, NEW w \in DialWorkers, BatchDial(l, w)
    PROVE  DialInv'
<1>1. PICK k \in Cases : Begin(w, [Idle EXCEPT !.at = "freq", !.k = k, !.loop = l])
    BY DEF BatchDial, GetNextPending
<1>2. PICK new : new = [Idle EXCEPT !.at = "freq", !.k = k, !.loop = l]
    OBVIOUS
<1>3. new \in DialWorker /\ new.at = "freq" /\ new.loop = l /\ new.k = k
    <2>1. "freq" \in Places
        BY DEF Places
    <2>2. \A z \in Cases, m \in Loops : new = [Idle EXCEPT !.at = "freq", !.k = z, !.loop = m] =>
              /\ new \in DialWorker /\ new.at = "freq" /\ new.loop = m
              /\ new.k = z /\ new.ctx = "own"
        BY <2>1, WorkerBegins, ZenonT(60)
    <2> QED
        BY <1>2, <2>2, Zenon
<1>4. work' = [work EXCEPT ![w] = new] /\ work[w].loop = 0
    BY <1>1, <1>2, DialFacts DEF Begin, At, WorkerOK
<1>5. PICK x : x = loops[l]
    OBVIOUS
<1>6. /\ x \in DialLoop /\ x.at = "dial" /\ x.slots \in Nat /\ x.slots # 0 /\ x.inst = InstOf[w]
      /\ UNCHANGED <<camp, cases, requests, errors, reg, freq, placed, calls>>
    BY <1>5, DialFacts DEF BatchDial, LoopOK, DialLoop
<1>7. PICK a : a = CountDial(x)
    OBVIOUS
<1>8. /\ a \in DialLoop /\ a.active = x.active + 1 /\ a.slots = x.slots
      /\ a.inst = x.inst /\ a.mode = x.mode /\ (a.open <=> x.open)
    BY <1>6, <1>7, Counted1
<1>9. PICK n \in Nat : n = x.slots - 1
    BY <1>6
<1>10. PICK at \in {"idle", "dial"} : at = IF x.slots = 1 THEN "idle" ELSE "dial"
    OBVIOUS
<1>11. PICK b : b = [a EXCEPT !.slots = n]
    OBVIOUS
<1>12. PICK y : y = [b EXCEPT !.at = at]
    OBVIOUS
<1>13. b \in DialLoop /\ y \in DialLoop
    BY <1>8, <1>11, <1>12, LoopFields
<1>14. /\ y.at = at /\ y.active = a.active /\ y.slots = n
       /\ y.inst = a.inst /\ y.mode = a.mode /\ (y.open <=> a.open)
    BY <1>8, <1>11, <1>12, <1>13 DEF DialLoop
<1>15. loops' = [loops EXCEPT ![l] = y]
    <2>1. loops' = [loops EXCEPT ![l] = UseSlot(x)]
        BY <1>5, DialFacts DEF BatchDial
    <2>2. UseSlot(x) = y
        BY <1>7, <1>8, <1>9, <1>10, <1>11, <1>12 DEF UseSlot
    <2> QED
        BY <2>1, <2>2
<1>16. y.at # "unused" /\ x.at # "unused" /\ (y.at = "dial" <=> y.slots # 0)
    BY <1>6, <1>9, <1>10, <1>14
<1>17. /\ y.inst = x.inst /\ y.mode = x.mode /\ (y.open <=> x.open)
       /\ y.active = x.active + 1 /\ y.slots = x.slots - 1
    BY <1>8, <1>9, <1>14
<1> QED
    BY <1>3, <1>4, <1>5, <1>6, <1>13, <1>15, <1>16, <1>17, SlotTaken

LEMMA PreviewDials ==
    ASSUME DialInv, NEW w \in DialWorkers, PreviewAccept(w)
    PROVE  DialInv'
<1>0. PICK x : x = work[w]
    OBVIOUS
<1>x. x \in DialWorker /\ x.at = "accept" /\ x.k \in Cases /\ x.ctx # "own" /\ x.loop = 0
    BY <1>0, DialFacts DEF PreviewAccept, At, WorkerOK, OfCase
<1>1. PICK l \in Loops \cup {0} : l = reg[InstOf[w]]
    BY DialFacts
<1>2. PICK a : a = [x EXCEPT !.at = "freq"]
    OBVIOUS
<1>3. PICK new : new = [a EXCEPT !.loop = l]
    OBVIOUS
<1>4. a \in DialWorker /\ new \in DialWorker
    BY <1>x, <1>2, <1>3, WorkerFields DEF Places
<1>5. new.at = "freq" /\ new.k = x.k /\ new.ctx = x.ctx /\ new.loop = l
    BY <1>x, <1>2, <1>3, <1>4 DEF DialWorker
<1>6. /\ work' = [work EXCEPT ![w] = new]
      /\ UNCHANGED <<camp, cases, requests, errors, reg, freq, placed, calls>>
    BY <1>0, <1>1, <1>2, <1>3, DialFacts DEF PreviewAccept
<1>7. CASE l = 0
    <2>1. loops' = loops
        BY <1>1, <1>7 DEF PreviewAccept
    <2>2. /\ camp' \in CampaignRow /\ cases' \in [Cases -> CaseRow] /\ calls' \in [Cases -> Nat]
          /\ requests' \in 0..MaxEvents /\ errors' \in 0..MaxEvents
          /\ freq' \in [Cases -> Nat] /\ placed' \in [Cases -> Nat]
          /\ errors' \in Nat /\ errors <= errors'
          /\ \A v \in DialWorkers : work'[v] = IF v = w THEN new ELSE work[v]
        BY <1>6, DialFacts
    <2>3. \A k \in Cases : NumberOK(k)'
        BY <1>5, <1>6, <2>2, NumbersKeep
    <2> QED
        BY <1>0, <1>x, <1>4, <1>5, <1>6, <1>7, <2>1, <2>2, <2>3, WorkerMoves
<1>8. CASE l # 0
    <2>1. PICK z : z = loops[l]
        OBVIOUS
    <2>2. l \in Loops /\ z \in DialLoop /\ z.inst = InstOf[w] /\ z.open
        <3>1. InstOf[w] \in Instances /\ RegOK(InstOf[w])
            BY DialFacts
        <3> QED
            BY <1>1, <1>8, <2>1, <3>1, DialFacts DEF RegOK
    <2>3. z.at # "unused" /\ (z.at = "dial" <=> z.slots # 0)
        BY <2>1, <2>2, DialFacts DEF LoopOK
    <2>4. PICK y : y = CountDial(z)
        OBVIOUS
    <2>5. /\ y \in DialLoop /\ y.active = z.active + 1 /\ y.slots = z.slots /\ y.at = z.at
          /\ y.inst = z.inst /\ y.mode = z.mode /\ (y.open <=> z.open)
        BY <2>2, <2>4, Counted1
    <2>6. loops' = [loops EXCEPT ![l] = y]
        <3>1. loops' = [loops EXCEPT ![l] = CountDial(loops[l])]
            BY <1>1, <1>8, DialFacts DEF PreviewAccept
        <3> QED
            BY <2>1, <2>4, <3>1
    <2>7. /\ l \in Loops /\ y \in DialLoop /\ y.inst = z.inst /\ y.mode = z.mode /\ (y.open <=> z.open)
          /\ z.at # "unused" /\ y.at # "unused" /\ (y.at = "dial" <=> y.slots # 0)
          /\ y.active = z.active + 1 /\ z.inst = InstOf[w]
        BY <2>2, <2>3, <2>5
    <2>8. /\ work[w].loop = 0 /\ new.loop = l /\ new.at = "freq" /\ new.k \in Cases
          /\ y.slots = z.slots /\ new.ctx # "own"
        BY <1>0, <1>x, <1>5, <2>5
    <2> QED
        BY <1>4, <1>6, <2>1, <2>6, <2>7, <2>8, SlotTaken
<1> QED
    BY <1>7, <1>8

(* RecordCallResult gives back a slot of the registered loop, whichever loop *)
(* the worker took it from; from a loop that is still open it is the same.   *)
LEMMA SlotGivenBack ==
    ASSUME DialInv, NEW w \in DialWorkers, NEW new \in DialWorker, work' = [work EXCEPT ![w] = new],
           new.loop = 0, work[w].loop # 0,
           NEW m \in Loops, loops[m].open, work[w].loop = m
    PROVE  reg[InstOf[w]] = m
<1>1. WorkerOK(w) /\ LoopOK(m) /\ m # 0
    BY DialFacts
<1> QED
    BY <1>1 DEF WorkerOK, LoopOK

LEMMA ResultRecorded ==
    ASSUME DialInv, NEW w \in DialWorkers, RecordCallResult(w)
    PROVE  DialInv'
<1>0. PICK x : x = work[w]
    OBVIOUS
<1>x. x \in DialWorker /\ x.at = "record" /\ x.k \in Cases
    BY <1>0, DialFacts DEF RecordCallResult, At, WorkerOK, OfCase
<1>1. PICK at \in {"complete", "fail"} : at = IF x.ok THEN "complete" ELSE "fail"
    OBVIOUS
<1>2. PICK a : a = [x EXCEPT !.at = at]
    OBVIOUS
<1>3. PICK b : b = [a EXCEPT !.ok = FALSE]
    OBVIOUS
<1>4. PICK new : new = [b EXCEPT !.loop = 0]
    OBVIOUS
<1>5. a \in DialWorker /\ b \in DialWorker /\ new \in DialWorker
    <2>1. at \in Places
        BY DEF Places, Statements
    <2> QED
        BY <1>x, <1>2, <1>3, <1>4, <2>1, WorkerFields
<1>6. new.at = at /\ new.k = x.k /\ new.loop = 0
    BY <1>x, <1>2, <1>3, <1>4, <1>5 DEF DialWorker
<1>7. /\ work' = [work EXCEPT ![w] = new]
      /\ UNCHANGED <<camp, cases, requests, errors, reg, freq, placed, calls>>
    <2>1. work' = [work EXCEPT ![w].at = at, ![w].ok = FALSE, ![w].loop = 0]
        BY <1>0, <1>1 DEF RecordCallResult
    <2>2. UNCHANGED <<camp, cases, requests, errors, reg, freq, placed, calls>>
        BY DEF RecordCallResult
    <2> QED
        BY <1>0, <1>2, <1>3, <1>4, <2>1, <2>2, DialFacts
<1>8. PICK l \in Loops \cup {0} : l = reg[InstOf[w]]
    BY DialFacts
\* Another loop was closed, or the worker held no slot of it.
<1>9. ASSUME NEW m \in Loops, loops'[m] = loops[m], m # l PROVE LoopSlotsOK(m)'
    <2>1. new.loop # m
        BY <1>6, DialFacts
    <2>2. work[w].loop = m => ~loops[m].open
        <3>1. ASSUME work[w].loop = m, loops[m].open PROVE FALSE
            <4>1. work[w].loop # 0
                BY <3>1, DialFacts
            <4> QED
                BY <1>5, <1>6, <1>7, <1>8, <1>9, <3>1, <4>1, SlotGivenBack
        <3> QED
            BY <3>1
    <2> QED
        BY <1>5, <1>7, <1>9, <2>1, <2>2, SlotsElsewhere
<1>10. /\ new.at \notin {"place", "dialCase", "accept"} /\ (new.at \in OfCase => new.k \in Cases)
    BY <1>x, <1>6
<1>11. CASE l = 0
    <2>1. loops' = loops
        BY <1>8, <1>11 DEF RecordCallResult
    <2>2. \A m \in Loops : LoopSlotsOK(m)'
        BY <1>9, <1>11, <2>1, DialFacts
    <2>3. ASSUME NEW m \in Loops
          PROVE  /\ loops'[m].inst = loops[m].inst /\ loops'[m].mode = loops[m].mode
                 /\ loops'[m].open <=> loops[m].open
                 /\ loops'[m].at = "unused" <=> loops[m].at = "unused"
                 /\ loops'[m].at = "dial" <=> loops'[m].slots # 0
                 /\ loops'[m].slots <= loops[m].slots
        <3>1. LoopOK(m) /\ loops[m].slots \in Nat
            BY DialFacts DEF DialLoop
        <3> QED
            BY <2>1, <3>1 DEF LoopOK
    <2>4. loops' \in [Loops -> DialLoop]
        BY <2>1, DialFacts
    <2> QED
        BY <1>5, <1>6, <1>7, <1>10, <2>2, <2>3, <2>4, CountersMove
<1>12. CASE l # 0
    <2>0. PICK z : z = loops[l]
        OBVIOUS
    <2>1. l \in Loops /\ z \in DialLoop /\ LoopOK(l) /\ LoopSlotsOK(l)
        BY <1>12, <2>0, DialFacts
    <2>2. z.active \in Nat /\ z.slots \in Nat /\ z.abandoned \in Nat
        BY <2>1 DEF DialLoop
    <2>3. PICK n \in Nat : n = IF z.active = 0 THEN 0 ELSE z.active - 1
        BY <2>2
    <2>4. PICK d \in Nat : d = z.abandoned + IF z.mode = "predictive" /\ ~x.ok THEN 1 ELSE 0
        BY <2>2
    <2>5. PICK c : c = [z EXCEPT !.active = n]
        OBVIOUS
    <2>6. PICK y : y = [c EXCEPT !.abandoned = d]
        OBVIOUS
    <2>7. c \in DialLoop /\ y \in DialLoop
        BY <2>1, <2>5, <2>6, LoopFields
    <2>8. /\ y.active = n /\ y.slots = z.slots /\ y.at = z.at
          /\ y.inst = z.inst /\ y.mode = z.mode /\ (y.open <=> z.open)
        BY <2>1, <2>5, <2>6, <2>7 DEF DialLoop
    <2>9. loops' = [loops EXCEPT ![l] = y]
        <3>1. loops' = [loops EXCEPT ![l].active = n, ![l].abandoned = d]
            BY <1>0, <1>8, <1>12, <2>0, <2>3, <2>4, DialFacts DEF RecordCallResult
        <3> QED
            BY <2>0, <2>1, <2>5, <2>6, <3>1, DialFacts
    <2>10. loops' \in [Loops -> DialLoop] /\ \A m \in Loops : loops'[m] = IF m = l THEN y ELSE loops[m]
        BY <2>7, <2>9, DialFacts
    <2>11. \A v \in DialWorkers : work'[v] = IF v = w THEN new ELSE work[v]
        BY <1>7, DialFacts
    <2>12. SlotHolders(l) \subseteq SlotHolders(l)' \cup {w}
        BY <2>11 DEF SlotHolders
    <2>13. Previews(l) \subseteq Previews(l)' \cup {w}
        <3>1. ASSUME NEW v \in Previews(l), v # w PROVE v \in Previews(l)'
            <4>1. v \in SlotHolders(l)' /\ work'[v] = work[v] /\ work[v].ctx # "own"
                BY <2>11, <2>12, <3>1 DEF Previews, SlotHolders
            <4> QED
                BY <4>1 DEF Previews
        <3> QED
            BY <3>1
    <2>14. PICK h \in Nat, p \in Nat : h = Cardinality(SlotHolders(l)) /\ p = Cardinality(Previews(l))
        BY DialSets
    <2>15. IsFiniteSet(SlotHolders(l)') /\ IsFiniteSet(Previews(l)')
        <3>1. SlotHolders(l)' \subseteq DialWorkers /\ Previews(l)' \subseteq DialWorkers
            BY DEF SlotHolders, Previews
        <3> QED
            BY <3>1, CampaignAssumption, FS_Subset
    <2>16. PICK g \in Nat, q \in Nat : g = Cardinality(SlotHolders(l)') /\ q = Cardinality(Previews(l)')
        BY <2>15, FS_CardinalityType
    <2>17. h <= g + 1 /\ p <= q + 1
        BY <2>12, <2>13, <2>14, <2>15, <2>16, OneMoreOrLess
    <2>18. LoopSlotsOK(l)'
        <3> SUFFICES ASSUME z.open
                     PROVE  /\ loops'[l].active <= g
                            /\ loops'[l].active + loops'[l].slots <= Pace(loops'[l].mode) + q
            BY <2>1, <2>8, <2>10, <2>16 DEF LoopSlotsOK
        <3>1. PICK e \in Nat : e = Pace(z.mode)
            BY DEF Pace
        <3>2. z.active <= h /\ z.active + z.slots <= e + p /\ z.slots <= e
            BY <2>0, <2>1, <2>14, <3>1 DEF LoopSlotsOK, LoopOK
        <3>3. n <= g /\ n + z.slots <= e + q
            BY <2>2, <2>3, <2>17, <3>2
        <3> QED
            BY <2>1, <2>8, <2>10, <3>1, <3>3
    <2>19. \A m \in Loops : LoopSlotsOK(m)'
        BY <1>9, <2>10, <2>18
    <2>20. ASSUME NEW m \in Loops
           PROVE  /\ loops'[m].inst = loops[m].inst /\ loops'[m].mode = loops[m].mode
                  /\ loops'[m].open <=> loops[m].open
                  /\ loops'[m].at = "unused" <=> loops[m].at = "unused"
                  /\ loops'[m].at = "dial" <=> loops'[m].slots # 0
                  /\ loops'[m].slots <= loops[m].slots
        <3>1. LoopOK(m) /\ loops[m].slots \in Nat
            BY DialFacts DEF DialLoop
        <3> QED
            BY <2>0, <2>8, <2>10, <3>1 DEF LoopOK
    <2> QED
        BY <1>5, <1>6, <1>7, <1>10, <2>10, <2>19, <2>20, CountersMove
<1> QED
    BY <1>11, <1>12

(* A process restarts. A worker of another process keeps its slot of a loop  *)
(* of that process.                                                          *)
LEMMA ProcessRestarts ==
    ASSUME DialInv, NEW i \in Instances, Restart(i)
    PROVE  DialInv'
<1>1. /\ UNCHANGED <<camp, cases, requests, freq, placed, calls>>
      /\ errors' \in 0..MaxEvents /\ errors <= errors'
      /\ reg' \in [Instances -> Loops \cup {0}]
      /\ \A j \in Instances : reg'[j] = IF j = i THEN 0 ELSE reg[j]
    BY DialFacts, DialCounts DEF Restart
<1>2. /\ work' \in [DialWorkers -> DialWorker]
      /\ \A v \in DialWorkers : work'[v] = IF InstOf[v] = i THEN Idle ELSE work[v]
    BY IdleWorker, DialFacts DEF Restart
<1>3. ASSUME NEW l \in Loops, loops[l].inst = i, loops[l].at # "unused"
      PROVE  /\ loops'[l] \in DialLoop /\ ~loops'[l].open /\ loops'[l].at = "exited"
             /\ loops'[l].slots = 0 /\ loops'[l].inst = i
    <2>1. PICK x : x = loops[l]
        OBVIOUS
    <2>2. PICK a : a = [x EXCEPT !.at = "exited"]
        OBVIOUS
    <2>3. PICK b : b = [a EXCEPT !.open = FALSE]
        OBVIOUS
    <2>4. PICK c : c = [b EXCEPT !.active = 0]
        OBVIOUS
    <2>5. PICK y : y = [c EXCEPT !.slots = 0]
        OBVIOUS
    <2>6. x \in DialLoop
        BY <2>1, DialFacts
    <2>7. a \in DialLoop /\ b \in DialLoop /\ c \in DialLoop /\ y \in DialLoop
        BY <2>2, <2>3, <2>4, <2>5, <2>6, LoopFields
    <2>8. ~y.open /\ y.at = "exited" /\ y.slots = 0 /\ y.inst = x.inst
        BY <2>2, <2>3, <2>4, <2>5, <2>6, <2>7 DEF DialLoop
    <2>9. loops'[l] = y
        BY <1>3, <2>1, <2>2, <2>3, <2>4, <2>5 DEF Restart
    <2> QED
        BY <1>3, <2>1, <2>7, <2>8, <2>9
<1>4. ASSUME NEW l \in Loops, ~(loops[l].inst = i /\ loops[l].at # "unused")
      PROVE  loops'[l] = loops[l]
    BY <1>4 DEF Restart
<1>5. loops' \in [Loops -> DialLoop]
    <2>1. \A l \in Loops : loops'[l] \in DialLoop
        BY <1>3, <1>4, DialFacts
    <2>2. loops' = [l \in Loops |-> loops'[l]]
        BY DEF Restart
    <2> QED
        BY <2>1, <2>2
<1>6. DialerTypeOK'
    <2>1. /\ camp' \in CampaignRow /\ cases' \in [Cases -> CaseRow] /\ requests' \in 0..MaxEvents
          /\ freq' \in [Cases -> Nat] /\ placed' \in [Cases -> Nat] /\ calls' \in [Cases -> Nat]
        BY <1>1, DialFacts
    <2> QED
        BY <1>1, <1>2, <1>5, <2>1 DEF DialerTypeOK, DialWorker, DialLoop
<1>7. ASSUME NEW v \in DialWorkers PROVE WorkerOK(v)'
    <2>1. CASE InstOf[v] = i
        BY <1>2, <2>1, IdleWorker DEF WorkerOK, OfCase
    <2>2. CASE InstOf[v] # i
        <3>1. WorkerOK(v) /\ work'[v] = work[v] /\ work[v].loop \in Loops \cup {0}
            BY <1>2, <2>2, DialFacts DEF DialWorker
        <3>2. work[v].loop # 0 => loops'[work[v].loop] = loops[work[v].loop]
            BY <1>4, <2>2, <3>1 DEF WorkerOK
        <3> QED
            BY <3>1, <3>2 DEF WorkerOK
    <2> QED
        BY <2>1, <2>2
<1>8. ASSUME NEW l \in Loops PROVE LoopOK(l)' /\ LoopSlotsOK(l)'
    <2>1. CASE loops[l].inst = i /\ loops[l].at # "unused"
        <3>1. 0 <= Pace(loops'[l].mode)
            BY DEF Pace
        <3> QED
            BY <1>3, <2>1, <3>1 DEF LoopOK, LoopSlotsOK
    <2>2. CASE ~(loops[l].inst = i /\ loops[l].at # "unused")
        <3>1. loops'[l] = loops[l] /\ LoopOK(l) /\ LoopSlotsOK(l) /\ loops[l] \in DialLoop
            BY <1>4, <2>2, DialFacts
        <3>2. loops[l].inst \in Instances /\ loops[l].active \in Nat /\ loops[l].slots \in Nat
            BY <3>1 DEF DialLoop
        <3>3. loops[l].open => loops[l].inst # i
            BY <2>2, <3>1 DEF LoopOK
        <3>4. LoopOK(l)'
            BY <1>1, <3>1, <3>2, <3>3 DEF LoopOK
        <3>5. ASSUME loops[l].open PROVE LoopSlotsOK(l)'
            <4>1. \A v \in SlotHolders(l) : work'[v] = work[v]
                <5>1. ASSUME NEW v \in SlotHolders(l) PROVE work'[v] = work[v]
                    <6>1. v \in DialWorkers /\ work[v].loop = l /\ l # 0 /\ WorkerOK(v)
                        BY DialFacts DEF SlotHolders
                    <6>2. InstOf[v] # i
                        BY <3>3, <3>5, <6>1 DEF WorkerOK
                    <6> QED
                        BY <1>2, <6>1, <6>2
                <5> QED
                    BY <5>1
            <4>2. SlotHolders(l) \subseteq SlotHolders(l)'
                BY <4>1 DEF SlotHolders
            <4>3. Previews(l) \subseteq Previews(l)'
                BY <4>1, <4>2 DEF Previews
            <4>4. IsFiniteSet(SlotHolders(l)') /\ IsFiniteSet(Previews(l)')
                <5>1. SlotHolders(l)' \subseteq DialWorkers /\ Previews(l)' \subseteq DialWorkers
                    BY DEF SlotHolders, Previews
                <5> QED
                    BY <5>1, CampaignAssumption, FS_Subset
            <4>5. PICK h \in Nat, p \in Nat : h = Cardinality(SlotHolders(l)) /\ p = Cardinality(Previews(l))
                BY DialSets
            <4>6. PICK g \in Nat, q \in Nat : g = Cardinality(SlotHolders(l)') /\ q = Cardinality(Previews(l)')
                BY <4>4, FS_CardinalityType
            <4>7. h <= g /\ p <= q
                BY <4>2, <4>3, <4>4, <4>5, <4>6, FS_Subset
            <4>8. PICK e \in Nat : e = Pace(loops[l].mode)
                BY DEF Pace
            <4>9. loops[l].active <= g /\ loops[l].active + loops[l].slots <= e + q
                BY <3>1, <3>2, <3>5, <4>5, <4>7, <4>8 DEF LoopSlotsOK
            <4> QED
                BY <3>1, <4>6, <4>8, <4>9 DEF LoopSlotsOK
        <3>6. ~loops[l].open => LoopSlotsOK(l)'
            BY <3>1 DEF LoopSlotsOK
        <3> QED
            BY <3>4, <3>5, <3>6
    <2> QED
        BY <2>1, <2>2
<1>9. ASSUME NEW j \in Instances PROVE RegOK(j)'
    <2>1. CASE j = i
        BY <1>1, <2>1 DEF RegOK
    <2>2. CASE j # i
        <3>1. RegOK(j) /\ reg'[j] = reg[j] /\ reg[j] \in Loops \cup {0}
            BY <1>1, <2>2, DialFacts
        <3>2. reg[j] # 0 => loops'[reg[j]] = loops[reg[j]]
            BY <1>4, <2>2, <3>1 DEF RegOK
        <3> QED
            BY <3>1, <3>2 DEF RegOK
    <2> QED
        BY <2>1, <2>2
<1>10. \A k \in Cases : NumberOK(k)'
    <2>1. errors' \in Nat
        BY <1>1
    <2> QED
        BY <1>1, <1>2, <2>1, IdleWorker, NumbersKeep
<1> QED
    BY <1>6, <1>7, <1>8, <1>9, <1>10 DEF DialInv

LEMMA NextDialer == DialInv /\ [DialerNext]_diallingVars => DialInv'
<1> SUFFICES ASSUME DialInv, [DialerNext]_diallingVars PROVE DialInv'
    OBVIOUS
<1>1. CASE CampaignNext /\ UNCHANGED dialerVars
    BY <1>1, NextCampaign
<1>2. ASSUME NEW l \in Loops, LoopStep(l) PROVE DialInv'
    BY <1>2, LoopTicks, LoopsEnd, LoopExits, BatchDials DEF LoopStep
<1>3. ASSUME NEW w \in DialWorkers, Goroutine(w) PROVE DialInv'
    <2>1. CASE MarkCancelled(w)
        <3>1. /\ camp' \in CampaignRow /\ cases' \in [Cases -> CaseRow]
              /\ requests' \in 0..MaxEvents /\ errors' \in 0..MaxEvents /\ errors <= errors'
              /\ UNCHANGED <<reg, loops, freq, placed, calls>>
            BY <2>1, DialFacts, DialCounts DEF MarkCancelled, dialerVars
        <3>2. Done(w) /\ work[w].at \notin {"freq", "place", "record"}
            BY <2>1 DEF MarkCancelled, Statements
        <3> QED
            BY <3>1, <3>2, WorkerEnds
    <2> QED
        BY <1>3, <2>1, LoopStarts, LoopsEnd, PreviewDials, HandlerGone, CaseDialled,
           ResultRecorded DEF Goroutine
<1>4. ASSUME NEW w \in DialWorkers, NEW k \in Cases, NEW wasAnswered \in BOOLEAN,
             CallEnds(w, k, wasAnswered)
      PROVE  DialInv'
    BY <1>4, CallEnded
<1>5. ASSUME NEW i \in Instances, Restart(i) PROVE DialInv'
    BY <1>5, ProcessRestarts
<1>6. CASE UNCHANGED diallingVars
    <2>1. /\ camp' = camp /\ cases' = cases /\ work' = work /\ requests' = requests /\ errors' = errors
          /\ reg' = reg /\ loops' = loops /\ freq' = freq /\ placed' = placed /\ calls' = calls
        BY <1>6 DEF diallingVars
    <2>2. DialerTypeOK'
        BY <2>1 DEF DialInv, DialerTypeOK
    <2>3. \A w \in DialWorkers : WorkerOK(w)'
        BY <2>1, DialFacts DEF WorkerOK
    <2>4. \A l \in Loops : LoopOK(l)' /\ LoopSlotsOK(l)'
        BY <2>1, DialFacts DEF LoopOK, LoopSlotsOK, SlotHolders, Previews
    <2>5. \A i \in Instances : RegOK(i)'
        BY <2>1, DialFacts DEF RegOK
    <2>6. \A k \in Cases : NumberOK(k)'
        BY <2>1, DialFacts DEF NumberOK, Dialling, Live
    <2> QED
        BY <2>2, <2>3, <2>4, <2>5, <2>6 DEF DialInv
<1> QED
    BY <1>1, <1>2, <1>3, <1>4, <1>5, <1>6 DEF DialerNext

LEMMA InitDialer == DialerInit => DialInv
<1> SUFFICES ASSUME DialerInit PROVE DialInv
    OBVIOUS
<1>1. PICK i \in Instances : i = CHOOSE j \in Instances : TRUE
    BY DialerAssumption
<1>2. PICK x : x = Unused
    OBVIOUS
<1>3. /\ x \in DialLoop /\ x.at = "unused" /\ x.inst = i /\ ~x.open
      /\ x.active = 0 /\ x.slots = 0 /\ x.mode = "none"
    <2>1. PICK y : y = NewLoop(i, "none")
        OBVIOUS
    <2>2. /\ y = [at |-> "idle", inst |-> i, mode |-> "none", open |-> TRUE,
                  active |-> 0, dialed |-> 0, abandoned |-> 0, slots |-> 0]
          /\ x = [y EXCEPT !.at = "unused", !.open = FALSE]
        BY <1>1, <1>2, <2>1 DEF Unused, NewLoop
    <2>3. x = [at |-> "unused", inst |-> i, mode |-> "none", open |-> FALSE,
               active |-> 0, dialed |-> 0, abandoned |-> 0, slots |-> 0]
        BY <2>2
    <2> QED
        BY <2>3 DEF DialLoop
<1>4. /\ camp = NoCampaign /\ cases = [k \in Cases |-> NoCase]
      /\ work = [w \in DialWorkers |-> Idle] /\ requests = 0 /\ errors = 0
      /\ reg = [j \in Instances |-> 0] /\ loops = [l \in Loops |-> x]
      /\ freq = [k \in Cases |-> 0] /\ placed = [k \in Cases |-> 0] /\ calls = [k \in Cases |-> 0]
    BY <1>2 DEF DialerInit, CampaignInit
<1>5. MaxEvents \in Nat /\ FreqLimit \in Nat
    BY CampaignAssumption, DialerAssumption
<1>6. DialerTypeOK
    <2>1. /\ camp \in CampaignRow /\ cases \in [Cases -> CaseRow]
          /\ work \in [DialWorkers -> DialWorker]
        BY <1>4, IdleWorker
    <2>2. /\ requests \in 0..MaxEvents /\ errors \in 0..MaxEvents
          /\ reg \in [Instances -> Loops \cup {0}] /\ loops \in [Loops -> DialLoop]
          /\ freq \in [Cases -> Nat] /\ placed \in [Cases -> Nat] /\ calls \in [Cases -> Nat]
        BY <1>3, <1>4, <1>5
    <2> QED
        BY <2>1, <2>2 DEF DialerTypeOK, DialWorker, DialLoop
<1>7. \A w \in DialWorkers : WorkerOK(w)
    BY <1>4, IdleWorker DEF WorkerOK, OfCase
<1>8. ASSUME NEW l \in Loops PROVE LoopOK(l) /\ LoopSlotsOK(l)
    BY <1>3, <1>4 DEF LoopOK, LoopSlotsOK, Pace
<1>9. \A j \in Instances : RegOK(j)
    BY <1>4 DEF RegOK
<1>10. ASSUME NEW k \in Cases PROVE NumberOK(k)
    <2>1. Dialling(k) = {}
        BY <1>4, IdleWorker DEF Dialling
    <2>2. Cardinality(Dialling(k)) = 0
        BY <2>1, FS_EmptySet
    <2> QED
        BY <1>4, <1>5, <2>2 DEF NumberOK, UpTo
<1> QED
    BY <1>6, <1>7, <1>8, <1>9, <1>10 DEF DialInv

(* DialInv holds in every reachable state.                                   *)
THEOREM DialInvariant == ServicesSpec => []DialInv
<1>1. ServicesInit => DialInv
    BY InitDialer DEF ServicesInit
<1>2. [ServicesNext]_servicesVars => [DialerNext]_diallingVars
    BY DEF ServicesNext, servicesVars
<1>3. DialInv /\ [ServicesNext]_servicesVars => DialInv'
    BY <1>2, NextDialer
<1> QED
    BY <1>1, <1>3, PTL DEF ServicesSpec

(* For any number of processes, loops, goroutines, cases and restarts, and   *)
(* any limits: a process has one loop at most that was not told to stop, no  *)
(* slot of it is lost, it keeps the pace of its mode, and no number is       *)
(* called more often than its daily limit and the failures of Redis allow.   *)
THEOREM DiallingIsSafe == ServicesSpec => []DiallingSafe
<1>1. DialInv => DialerTypeOK /\ OneLoop /\ SlotsReturn /\ PaceKept /\ FrequencyKept
    <2> SUFFICES ASSUME DialInv
                 PROVE  DialerTypeOK /\ OneLoop /\ SlotsReturn /\ PaceKept /\ FrequencyKept
        OBVIOUS
    <2>1. OneLoop
        BY DialFacts DEF OneLoop, LoopOK
    <2>2. \A l \in Registered : l \in Loops /\ loops[l].open
        <3>1. ASSUME NEW l \in Registered PROVE l \in Loops /\ loops[l].open
            <4>1. l \in Loops /\ reg[loops[l].inst] = l /\ loops[l].inst \in Instances /\ l # 0
                BY DialFacts DEF Registered, DialLoop
            <4> QED
                BY <4>1, DialFacts DEF RegOK
        <3> QED
            BY <3>1
    <2>3. SlotsReturn /\ PaceKept
        BY <2>2, DialFacts DEF SlotsReturn, PaceKept, LoopSlotsOK
    <2>4. ASSUME NEW k \in Cases PROVE placed[k] <= FreqLimit + errors
        <3>1. PICK u \in Nat : u = UpTo(freq[k], FreqLimit)
            BY DialFacts DEF UpTo
        <3>2. PICK n \in Nat : n = Cardinality(Dialling(k))
            BY DialSets
        <3>3. /\ placed[k] \in Nat /\ errors \in Nat /\ freq[k] \in Nat /\ FreqLimit \in Nat
              /\ placed[k] + n <= u + errors
            BY <3>1, <3>2, DialFacts DEF NumberOK
        <3>4. u <= FreqLimit
            BY <3>1, <3>3 DEF UpTo
        <3> QED
            BY <3>3, <3>4
    <2> QED
        BY <2>1, <2>3, <2>4 DEF DialInv, FrequencyKept
<1>2. DialInv => DiallingSafe
    BY <1>1 DEF DiallingSafe
<1> QED
    BY <1>2, DialInvariant, PTL

===============================================================================
