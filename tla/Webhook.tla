------------------------------ MODULE Webhook ------------------------------
(***************************************************************************)
(* Webhooks: the configurations a tenant keeps                             *)
(* (handler/webhook_config.go), the goroutines that post an event to its   *)
(* receivers and the delivery log, whose failed rows are the dead letters  *)
(* (application/webhook/service.go). One server process.                   *)
(*                                                                         *)
(* A delivery <<n, h>> is the goroutine that the n-th event, or the n-th   *)
(* retry of a dead letter, starts for the configuration h. The answer of a *)
(* receiver is any of "ok" (2xx), "rejected" (another final status),       *)
(* "error" (5xx, 408, 429, or none and the event not handled) and "late"   *)
(* (handled, but the answer came after the client's timeout).              *)
(***************************************************************************)
EXTENDS Tenancy

CONSTANTS
    HookTenants,
    Hooks,        \* ids of configurations
    HookEvents,   \* event types
    HookForms,    \* the columns a request may give: url, events, isActive
    SemSize,      \* cap(Service.sem), 50
    MaxRetry,     \* Service.maxRetry, 3
    MaxRaised,    \* bound: events and retries of dead letters
    MaxHookEdits, \* bound: requests that change a configuration
    MaxHookFaults \* bound: restarts, queries and log rows that fail

HookRow == [tenant : HookTenants, url : {"good", "bad"}, events : SUBSET HookEvents,
            isActive : BOOLEAN]
DeliveryRow == [tenant : HookTenants, type : HookEvents, attempts : 0..MaxRetry,
                success : BOOLEAN]

ASSUME WebhookAssumption ==
    /\ NoRow \notin HookRow \cup DeliveryRow
    /\ SemSize \in Nat \ {0}
    /\ MaxRetry \in Nat \ {0}
    /\ MaxRaised \in Nat
    /\ MaxHookEdits \in Nat /\ MaxHookFaults \in Nat
    /\ HookForms \subseteq [url : {"good", "bad"}, events : SUBSET HookEvents,
                            isActive : BOOLEAN]

VARIABLES
    hooks,      \* webhook_configs
    raised,     \* events and retries so far
    jobs,       \* the goroutines deliverToConfig
    sem,        \* tokens taken from Service.sem
    hookLog,    \* webhook_delivery_log
    owed,       \* deliveries that an event, or a retry, was raised for (history)
    handled,    \* deliveries that their receiver handled (history)
    posts,      \* requests sent for a delivery (history)
    excused,    \* those whose configurations could not be listed, whose row was
                \* purged or could not be written, or which a restart cut short
                \* (history)
    hookEdits, hookFaults

webhookVars == <<hooks, raised, jobs, sem, hookLog, owed, handled, posts, excused,
                 hookEdits, hookFaults>>

Deliveries == (1..MaxRaised) \X Hooks
Answers == {"ok", "rejected", "error", "late"}
\* cfg: the goroutine's copy of the configuration; tenant: the event's.
NoJob == [at |-> "none", tenant |-> NoRow, type |-> NoRow, cfg |-> NoRow,
          attempt |-> 0, answer |-> "none"]
Ended == [NoJob EXCEPT !.at = "ended"]
NewJob(t, e, cfg) == [NoJob EXCEPT !.at = "waiting", !.tenant = t, !.type = e,
                                   !.cfg = cfg]

WebhookInit ==
    /\ hooks = [h \in Hooks |-> NoRow]
    /\ raised = 0
    /\ jobs = [d \in Deliveries |-> NoJob]
    /\ sem = 0
    /\ hookLog = [d \in Deliveries |-> NoRow]
    /\ owed = {}
    /\ handled = {}
    /\ posts = [d \in Deliveries |-> 0]
    /\ excused = {}
    /\ hookEdits = 0 /\ hookFaults = 0

deliveryVars == <<raised, jobs, sem, hookLog, owed, handled, posts, excused, hookFaults>>

HookEdit == hookEdits < MaxHookEdits /\ hookEdits' = hookEdits + 1
HookOf(t, form) == [tenant |-> t, url |-> form.url, events |-> form.events,
                    isActive |-> form.isActive]

HookCreate(t, h, form) ==
    /\ HookEdit
    /\ hooks[h] = NoRow
    /\ \A d \in owed : d[2] # h   \* ids are not used twice
    /\ hooks' = Inserted(hooks, h, HookOf(t, form))
    /\ UNCHANGED deliveryVars

\* Update reads the row for its tenant and writes every other column, Delete
\* reads it for its tenant. The tenant of a row never changes and an UPDATE of
\* a deleted row does nothing, so each is one step.
HookUpdate(t, h, form) ==
    /\ HookEdit
    /\ Owns(hooks, t, h)
    /\ hooks' = Updated(hooks, h, HookOf(hooks[h].tenant, form))
    /\ UNCHANGED deliveryVars
HookDelete(t, h) ==
    /\ HookEdit
    /\ Owns(hooks, t, h)
    /\ hooks' = Deleted(hooks, h)
    /\ UNCHANGED deliveryVars

matchesEvent(cfg, e) == e \in cfg.events

\* Mutant: the tenant of the event is not part of the query.
MutantListActiveByEvent(t, e) ==
    {h \in Ids(hooks) : hooks[h].isActive /\ matchesEvent(hooks[h], e)}

ListActiveByEvent(t, e) ==
    {h \in Ids(hooks) : /\ hooks[h].tenant = t
                        /\ hooks[h].isActive
                        /\ matchesEvent(hooks[h], e)}

HookFault == hookFaults < MaxHookFaults /\ hookFaults' = hookFaults + 1

\* The deliveries of the event that is raised next.
DueNow(t, e) == {d \in Deliveries : d[1] = raised + 1 /\ d[2] \in ListActiveByEvent(t, e)}

\* One goroutine for every matching configuration.
Deliver(t, e) ==
    /\ raised < MaxRaised
    /\ raised' = raised + 1
    /\ owed' = owed \cup DueNow(t, e)
    /\ jobs' = [d \in Deliveries |-> IF d \in DueNow(t, e) THEN NewJob(t, e, hooks[d[2]])
                                                       ELSE jobs[d]]
    /\ UNCHANGED <<hooks, sem, hookLog, handled, posts, excused, hookEdits, hookFaults>>

\* The configurations cannot be listed: that is logged, and the event is gone.
DeliverFails(t, e) ==
    /\ raised < MaxRaised
    /\ HookFault
    /\ raised' = raised + 1
    /\ owed' = owed \cup DueNow(t, e)
    /\ excused' = excused \cup DueNow(t, e)
    /\ UNCHANGED <<hooks, jobs, sem, hookLog, handled, posts, hookEdits>>

\* RetryDLQ: any row of the log, failed or not, is delivered again to the
\* configuration as it is now; the row itself is left as it is.
RetryDLQ(d) ==
    LET h == d[2] IN
    /\ raised < MaxRaised
    /\ d \in Ids(hookLog) /\ h \in Ids(hooks)
    /\ raised' = raised + 1
    /\ owed' = owed \cup {<<raised + 1, h>>}
    /\ jobs' = [jobs EXCEPT ![<<raised + 1, h>>] =
                    NewJob(hookLog[d].tenant, hookLog[d].type, hooks[h])]
    /\ UNCHANGED <<hooks, sem, hookLog, handled, posts, excused, hookEdits, hookFaults>>

\* Mutant: a full semaphore drops the delivery instead of making it wait.
MutantAcquire(d) ==
    /\ jobs[d].at = "waiting"
    /\ IF sem < SemSize
       THEN jobs' = [jobs EXCEPT ![d].at = "posting"] /\ sem' = sem + 1
       ELSE jobs' = [jobs EXCEPT ![d] = Ended] /\ sem' = sem
    /\ UNCHANGED <<hooks, raised, hookLog, handled, owed, posts, excused, hookEdits, hookFaults>>

Acquire(d) ==
    /\ jobs[d].at = "waiting"
    /\ sem < SemSize
    /\ sem' = sem + 1
    /\ jobs' = [jobs EXCEPT ![d].at = "posting"]
    /\ UNCHANGED <<hooks, raised, hookLog, handled, owed, posts, excused, hookEdits, hookFaults>>

isRetryable(answer) == answer \in {"error", "late"}

\* Mutant: one attempt too many.
MutantPost(d, answer) ==
    LET n == jobs[d].attempt + 1 IN
    /\ jobs[d].at = "posting" /\ jobs[d].cfg.url = "good"
    /\ posts' = [posts EXCEPT ![d] = @ + 1]
    /\ jobs' = [jobs EXCEPT ![d].attempt = n, ![d].answer = answer,
                   ![d].at = IF isRetryable(answer) /\ n <= MaxRetry
                             THEN "posting" ELSE "logging"]
    /\ UNCHANGED <<hooks, raised, sem, hookLog, handled, owed, excused, hookEdits, hookFaults>>

\* One attempt of deliverToConfig and the sleep after it, through which the
\* token of the semaphore is kept.
Post(d, answer) ==
    LET n == jobs[d].attempt + 1 IN
    /\ jobs[d].at = "posting" /\ jobs[d].cfg.url = "good"
    /\ posts' = [posts EXCEPT ![d] = @ + 1]
    /\ handled' = IF answer \in {"ok", "late"} THEN handled \cup {d} ELSE handled
    /\ jobs' = [jobs EXCEPT ![d].attempt = n, ![d].answer = IF answer = "late" THEN "error" ELSE answer,
                   ![d].at = IF isRetryable(answer) /\ n < MaxRetry
                             THEN "posting" ELSE "logging"]
    /\ UNCHANGED <<hooks, raised, sem, hookLog, owed, excused, hookEdits, hookFaults>>

\* A URL no request can be built from: every attempt fails at once.
NoRequest(d) ==
    /\ jobs[d].at = "posting" /\ jobs[d].cfg.url = "bad"
    /\ jobs' = [jobs EXCEPT ![d].attempt = MaxRetry, ![d].at = "logging"]
    /\ UNCHANGED <<hooks, raised, sem, hookLog, handled, owed, posts, excused, hookEdits, hookFaults>>

LogRow(d) == [tenant |-> jobs[d].cfg.tenant, type |-> jobs[d].type,
              attempts |-> jobs[d].attempt, success |-> jobs[d].answer = "ok"]

\* Mutant: success is what the status of the last answer does not deny.
MutantLogDelivery(d) ==
    /\ jobs[d].at = "logging"
    /\ hookLog' = [hookLog EXCEPT ![d] = [LogRow(d) EXCEPT
                       !.success = jobs[d].answer # "rejected"]]
    /\ jobs' = [jobs EXCEPT ![d] = Ended]
    /\ sem' = sem - 1
    /\ UNCHANGED <<hooks, raised, handled, owed, posts, excused, hookEdits, hookFaults>>

LogDelivery(d) ==
    /\ jobs[d].at = "logging"
    /\ hookLog' = Inserted(hookLog, d, LogRow(d))
    /\ jobs' = [jobs EXCEPT ![d] = Ended]
    /\ sem' = sem - 1
    /\ UNCHANGED <<hooks, raised, handled, owed, posts, excused, hookEdits, hookFaults>>

\* Mutant: the return of the token is skipped with the failed INSERT.
MutantLogFails(d) ==
    /\ jobs[d].at = "logging"
    /\ HookFault
    /\ excused' = excused \cup {d}
    /\ jobs' = [jobs EXCEPT ![d] = Ended]
    /\ UNCHANGED <<hooks, raised, sem, hookLog, handled, owed, posts, hookEdits>>

\* The error of the INSERT is only logged.
LogFails(d) ==
    /\ jobs[d].at = "logging"
    /\ HookFault
    /\ excused' = excused \cup {d}
    /\ jobs' = [jobs EXCEPT ![d] = Ended]
    /\ sem' = sem - 1
    /\ UNCHANGED <<hooks, raised, hookLog, handled, owed, posts, hookEdits>>

\* The failed rows of a tenant up to a moment; rows of one moment go together.
PurgeDLQ(t, n) ==
    LET old == {d \in Ids(hookLog) : /\ hookLog[d].tenant = t
                                     /\ ~hookLog[d].success
                                     /\ d[1] <= n}
    IN  /\ old # {}
        /\ hookLog' = [d \in Deliveries |-> IF d \in old THEN NoRow ELSE hookLog[d]]
        /\ excused' = excused \cup old
        /\ UNCHANGED <<hooks, raised, jobs, sem, handled, owed, posts, hookEdits, hookFaults>>

InProgress == {d \in Deliveries : jobs[d].at \in {"waiting", "posting", "logging"}}

HookRestart ==
    /\ HookFault
    /\ InProgress # {}
    /\ jobs' = [d \in Deliveries |-> IF d \in InProgress
                                     THEN Ended ELSE jobs[d]]
    /\ excused' = excused \cup InProgress
    /\ sem' = 0
    /\ UNCHANGED <<hooks, raised, hookLog, handled, owed, posts, hookEdits>>

Delivering(d) ==
    \/ Acquire(d) \/ NoRequest(d) \/ LogDelivery(d)
    \/ \E answer \in Answers : Post(d, answer)

WebhookNext ==
    \/ \E t \in HookTenants, h \in Hooks :
          \/ \E form \in HookForms : HookCreate(t, h, form) \/ HookUpdate(t, h, form)
          \/ HookDelete(t, h)
    \/ \E t \in HookTenants, e \in HookEvents : Deliver(t, e) \/ DeliverFails(t, e)
    \/ \E d \in Deliveries : Delivering(d) \/ LogFails(d) \/ RetryDLQ(d)
    \/ \E t \in HookTenants, n \in 1..MaxRaised : PurgeDLQ(t, n)
    \/ HookRestart

WebhookSpec == WebhookInit /\ [][WebhookNext]_webhookVars

-----------------------------------------------------------------------------
HookTypeOK ==
    /\ hooks \in [Hooks -> HookRow \cup {NoRow}]
    /\ raised \in 0..MaxRaised
    /\ \A d \in Deliveries :
          /\ jobs[d].at \in {"none", "waiting", "posting", "logging", "ended"}
          /\ jobs[d].attempt \in 0..MaxRetry
          /\ jobs[d].answer \in Answers \cup {"none"}
    /\ sem \in 0..SemSize
    /\ owed \cup handled \cup excused \subseteq Deliveries
    /\ hookEdits \in 0..MaxHookEdits /\ hookFaults \in 0..MaxHookFaults

\* The semaphore counts exactly the goroutines that hold a token, through
\* failed log rows, sleeps and restarts: a token that is not given back would
\* in the end stop every webhook of every tenant.
TokensReturn ==
    sem = Cardinality({d \in Deliveries : jobs[d].at \in {"posting", "logging"}})

\* A row of the delivery log tells the truth: the receiver of a successful
\* delivery handled it, and the attempts it states are the requests that were
\* sent (none to a URL that is not one). A handled delivery may well be logged
\* as failed, when every answer came late.
LogTellsTruth ==
    \A d \in Ids(hookLog) :
        /\ hookLog[d].success => d \in handled
        /\ hookLog[d].attempts \in {posts[d], posts[d] + MaxRetry}
        /\ posts[d] > 0 => hookLog[d].attempts = posts[d]

\* What a subscriber is owed is not lost in silence: its receiver handled it, a
\* goroutine is at work, or the log has it as a dead letter. Exceptions are the
\* events whose configurations could not be listed (they leave no trace but a
\* line of the server's log), rows that were purged or could not be written, and
\* restarts.
NoSilentLoss ==
    \A d \in owed :
        \/ d \in handled \cup InProgress \cup excused
        \/ d \in Ids(hookLog) /\ ~hookLog[d].success

\* Events stay with their tenant: what a receiver is sent was raised by the
\* tenant that configured it, retries of dead letters included.
EventsStayHome ==
    \A d \in InProgress : posts[d] > 0 => jobs[d].cfg.tenant = jobs[d].tenant

\* Every delivery ends: it gets a token, its attempts are over and it is
\* logged, or a fault ends it.
WebhookFairness ==
    \A d \in Deliveries :
        /\ SF_webhookVars(Acquire(d))
        /\ WF_webhookVars(NoRequest(d) \/ LogDelivery(d) \/ \E answer \in Answers : Post(d, answer))
DeliveryEnds ==
    \A d \in Deliveries : jobs[d].at = "waiting" ~> jobs[d].at = "ended"
=============================================================================
