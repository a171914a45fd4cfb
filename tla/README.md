# A TLA+ model of the ccc cloud contact center

This directory specifies the ccc backend (Go, `internal/` and `cmd/server`): the services
that own calls, agents, queues, campaigns, chats, flows, tickets, customers and the
connections to FreeSWITCH, the shared state they keep in MySQL, Redis and process
memory, and the ways their requests, timers, event handlers and background workers
interleave. Each module says which file it models; `PROJECT.json` maps every
definition to the lines it stands for.

## 1. Inventory

### 1.1 The parts of the system

The backend is one Go process (or several behind a load balancer) built in layers:
`internal/interfaces/http` decodes requests, `internal/application` orchestrates,
`internal/domain` holds the rules, `internal/infrastructure` talks to MySQL, Redis,
NATS, Kafka, FreeSWITCH and cloud providers, and `cmd/server/main.go` starts the
background loops.

| Component | State | Operations | Hard behaviour | What makes it correct |
|---|---|---|---|---|
| ESL client (`infrastructure/esl/client.go`) | channel of connections, `poolSize`, `closed`, breaker | Acquire, SendCommand, Release, Grow, Shrink, AutoScale, Close | lock-free counter shared by workers and scalers; failure on every path | a connection has one user; none is lost; limits hold; whoever waits is served |
| ESL event listener (`infrastructure/esl/event_listener.go`) | one socket per process, back-off | reconnect loop, sequential handler | every process has a listener (`main.go:834-842`), and each gets every event; events lost while disconnected | a listener handles each event once, in order; handled by several, it does no more than once |
| Call domain (`domain/call`) | one MySQL row per call | create, queue, ring, answer, hold, transfer, consult, conference, end | every operation is read, check, write of the whole row without a lock | an ended call stays ended; it ends once |
| Call lifecycle (`application/lifecycle`) | none of its own | HandleInboundCall, AnswerCall, EndCall, ESL events, post-call hooks | the same call is ended by an agent, by two FreeSWITCH events in each process's listener and by the queue timeout at once | side effects of the end happen once; concurrency slots balance |
| Concurrency guard (`infrastructure/redis/concurrency.go`) | Redis counter per tenant | Acquire, Release | acquired on one path, released on all | the counter equals the calls in progress |
| ACD (`application/acd`) | Redis ZSET per skill group, agent claims, cursors | Enqueue, expireQueued, dispatchOne, pickAgent | several instances drain the same queues; claims expire; calls end while queued | one agent per call, one call per agent, nobody waits for ever |
| Agent presence (`domain/identity`) | MySQL row per agent, ACW timers in memory | CheckIn, CheckOut, TransitionTo, SetBreak, SetACW, ResetGhostAgents | unlocked read-modify-write from HTTP, lifecycle, timers and the ghost sweep | only legal transitions; ACW ends |
| Dialer and campaigns (`application/dialer`, `domain/campaign`) | running loops, MySQL cases and counters | Start, Pause, Abort, dialBatch, RecordCallResult, MarkCase* | a case is not reserved when it is dialled; counters are read-modify-write | a case is dialled once at a time; counters equal the cases |
| Post-call accounting (`application/postcall`) | NATS stream, `cdr_processed_calls`, daily summary | worker, reconciler | at-least-once delivery, crash between steps, lost messages | each ended call is counted once |
| Webhooks (`application/webhook`) | delivery log and dead letters, semaphore of 50 | Dispatch, deliver with retries, RetryDLQ | a goroutine per receiver; late answers are retried | a delivery ends delivered or as a dead letter |
| Callbacks (`application/callback`) | one row per request | processList, attempt, give up | schedulers of several instances list the same rows | one attempt at a time, at most `max_attempts` |
| IM sessions (`domain/im`, `imrouter`, `imassist`) | MySQL sessions, chat slots | create, assign, transfer, close | unlocked read, check, write | slots hold; a closed session stays closed |
| Hubs (`agenthub`, `imhub`, `transcripthub`) | registered clients with buffers | Register, Unregister, Broadcast | send against close of a channel | no send on a closed channel; slow clients do not block |
| Trunk health and routing rules (`domain/telephony`, `application/trunk`) | counters, cache of rules | probes, choose a trunk | one cache entry for all tenants | a caller gets its own tenant's rules |
| IVR engine and flow editor (`application/ivr`, `domain/routing`) | flow graph, edit lock, versions | run a flow; lock, save, publish, roll back | cycles in a flow; lock without a condition | a flow ends; one editor at a time |
| Tickets (`domain/ticket`) | tickets, templates, comments | create, update, transition, publish | whole rows written back | a resolved ticket has its time; a status jumps only where requests overlap |
| Quality inspection (`domain/ai/service_phase9.go`) | rules, schemes, results | evaluate, inspect, appeal, review | rules vanish between reads; appeal against review | the score is the mean of the verdicts; a review stands |
| Labelling, communication agents, AI jobs (`domain/ai`) | tasks with counters, conversations, analyses, voices, courses | submit, turn, run, train, grade | counters and transcripts are read, changed and written; providers fail half way | what is counted is stored; what ended stays ended; a running job is worked on |
| CRM (`domain/crm`) | customers, phones, contacts | create, update, import, erase | several statements without a transaction | one primary phone; nothing half made unless a request failed |
| Identity (`domain/identity`) | tenants, settings, users, agents, groups | create, update, limits | look first, insert later; lookups drop errors | keys hold; the agent limit is exceeded by a known amount at most |
| Tables kept by REST (`interfaces/http/handler`) | some thirty tables | insert, read-change-write, delete | tenant checks, columns missing from an UPDATE | the caller's own rows; nothing deleted comes back |
| CSAT, SMS, mail, retention, exports, dashboards, language models, adapters | rows | queries, calls to providers | little | see the notes in `PROJECT.json` |

### 1.2 How the parts interact

* HTTP handlers and the ESL event listener call the lifecycle service, each on its own
  goroutine. Every process starts a listener (`main.go:834-842`) and several processes are the
  documented deployment (`docs/deployment.md:156-164` scales the api to 3): a listener handles one
  event at a time, but the same event is handled by all of them, in parallel with each other and the handlers.
* The lifecycle service calls `domain/call` (the row), the ESL client (commands), the
  concurrency guard (Redis), presence (dialing, talking, ACW), and at the end of a call
  spawns the hooks and publishes `ccc.call.ended` for the post-call workers.
* The IVR engine enqueues a call in the ACD; a ticker in every instance dispatches it:
  presence is read, the agent claimed in Redis, the call removed from the queue, and the
  lifecycle service asked to ring.
* An ACW timer is a goroutine of the instance that handled the end of the call.
* Dialer, callbacks and outbound create calls through the lifecycle service and get the
  result through its hooks.

There is no lock that two instances share, and no UPDATE with a condition on the
status. What keeps racing actors apart is the atomicity of single Redis commands (ZREM,
SETNX, INCR), of a primary key (`cdr_processed_calls`) and of Go channels and mutexes
inside one process. Those are the steps of the models.

## 2. Plan

In this order, the most important behaviour first. All of it is written:

1. `EslPool` - everything the program says to FreeSWITCH goes through it;
2. `CallLifecycle` - the life of a call under requests, hooks and events;
3. `CdrLedger`, `PostCallCdr` - an abstract ledger and the pipeline that implements it;
4. `AgentPresence` - presence and ACW timers;
5. `AcdDispatch` - the queues, between calls and agents;
6. `Campaign`, `Dialer` - the rows of a campaign, and the loops that dial them;
7. `Webhook`, `Callback`, `WsHub`, `ImSessions` - deliveries, retries, sockets, chats;
8. `OutboundRouting`, `TrunkHealth` - who is called, by which rule, over which trunk;
9. `IvrFlow`, `IvrEngine` - the editor and the interpreter, the second on top of the first;
10. `Ticket`, `QualityRules`, `QualityInspection`, `Annotation`, `CommAgents`, `AiJobs`, `Crm`,
    `Identity`, `Administration` - the rows that requests of people race for.

What is left:

* a composition of `AcdDispatch` with the detailed presence and call rows, in which the
  one-step transitions of today's module become the read and write steps of the other two;
* dashboards' refresher, retention and exports, if they come to keep state of their own.

## 3. Modules

Every module states its parameters as CONSTANTS with a named ASSUME, keeps one
action per step of the code, and marks its bounds. Definitions whose name starts with
`Mutant` are faulty variants of the definition that follows them; the model does not use
them, they show that the properties notice such a mistake.

### 3.1 `EslPool` (`infrastructure/esl/client.go`)

State: the channel (`pool`, a set: its order does not matter), `poolSize`, `closed`, the
open sockets (`tcp`), the breaker, and where each worker, each Grow goroutine and the
autoscaler are. Every channel operation, atomic operation and locked section of
Acquire, SendCommand, Release, Grow, Shrink, AutoScale and Close is an action; dials,
writes and reads can fail at each of them. The commands (`Originate` ... `FlashSMS`) are
all Acquire, SendCommand, Release, hence one action. Replies are left out.

### 3.2 `CallLifecycle` (`domain/call`, `application/lifecycle`, `infrastructure/redis/concurrency.go`)

State: the rows (`row`, the columns that guards look at), the goroutines with the
row each has read (`sess[s].snap`), FreeSWITCH's channels and the events on their way,
the Redis counter (`slots`), and two history variables: `ends` (successful EndCalls per call)
and `hooks` (post-call goroutines spawned). An operation is a set-valued operator from the row
read to the row to write (empty when refused), so that the read (`Request`,
`ListenerRead`, `PostCallHooks`) and the UPDATE of all columns (`Save`) are two steps with
anything in between. `lifecycle.EndCall` is five more: hang up, save the recording,
save the durations, release the slot and spawn the hooks. `HandleESLEvent` looks
at the row before the operation reads it again. `Listeners` are the processes: FreeSWITCH sends an event to each of
them, and each has its own queue of events and reads and writes the rows for itself. `OriginateReply` stands for the two
forms of FreeSWITCH's answer that the code stores unparsed as `channel_uuid`.

### 3.3 `CdrLedger` and `PostCallCdr` (`application/postcall`, migration 000009)

`CdrLedger` is the promise: a call is folded into the day on which it started, at most once.
`PostCallCdr` is the code: publish at the end of a call, a JetStream consumer that
delivers at least once, workers, the daily reconciler with its query for yesterday's
calls, and the transaction (INSERT into `cdr_processed_calls`, fold, commit) whose
uncommitted primary key makes others wait. Statements, commits (with either outcome), publishes and queries can
fail, servers can restart. The mapping is `counted <- processed, total <- summary`.

### 3.4 `AgentPresence` (`domain/identity/service.go`)

State of one agent: the row (status, and whether it is old enough for the sweep), the
goroutines with the row they will write, the map entry of the ACW timers (`reg`), how
often each stop channel was closed, and `noTimer`, which records that the agent is in ACW
by a way that starts no timer (a plain transition, a restart, a failed write, a
write-back of an ACW that was over). Agents share only the mutex of the timer map, so
one agent is the general case.

### 3.5 `AcdDispatch` (`application/acd`)

State: per group the sorted set (`queue`; its order is `Before`, which is
`scoreFor`), the set of active groups, the claims, idle agents, the rows of the calls
(status and agent), where the Enqueue of each call and each instance's dispatcher is, and
four history variables: `rings` (calls given to an agent since it became idle), `rung` (calls that a dispatcher put
through), `unseen` (agents whose presence could not be written), `lost` (calls that a failure took out of the
queue). Each Redis command and each read and write of a call's row is a step. What other
parts do to a call (`Hangup`; `AnswerQueued`: a request or CHANNEL_BRIDGE that answers or rings a call still in
the queue, which stays a member of the sorted set) and to an agent (`LeaveIdle`, `BecomeIdle`) is an action of the
surroundings. Which idle member a policy picks is left open. One assumption about time:
a claim lives (30 s) longer than an instance takes from picking an agent to writing its
presence (`ClaimExpires` waits until nobody is at it).

### 3.6 `Campaign` and `Dialer` (`domain/campaign`, `application/dialer`)

`Campaign` has one campaign row, its case rows and the workers that run the service's methods;
a worker keeps its copy of a row from the SELECT to the UPDATE of the whole row. `Dialer`
extends it: the registry of loops per process (`reg`, `loops`), a tick with the slots of every
dialling mode, a goroutine per case with the daily limit in Redis, the preview requests, and the hook
of an ended call, which marks the case a second time. A context that a returning handler cancels is
part of the state.

### 3.7 `Webhook`, `Callback`, `WsHub`, `ImSessions`

* `Webhook` (`application/webhook`, its configuration handler): one goroutine per delivery and
  receiver (none when the configurations cannot be listed, `DeliverFails`), the semaphore, attempts with any of four answers (`late` is handled, but too late to
  be seen), the log and its dead letters, their retry and purge, and a restart. `owed` records which deliveries
  were due by the configurations at the time of the event.
* `Callback` (`application/callback`, `domain/call`): the rows, and one scheduler per process
  with the list it read and the copy it is going to write.
* `WsHub` (`agenthub`, `imhub`, `transcripthub`, which are one program): the map of clients, the
  buffered channel of each, reader and writer goroutines, and broadcasts under the read lock.
* `ImSessions` (`domain/im`, `application/imrouter`): sessions opened by widget, e-mail or social
  platform, routing in its separate statements (count the agent's chats, read, write), transfer, close
  and messages. `closes` and `late` count closes and messages that came after one.

### 3.8 `OutboundRouting`, `TrunkHealth`

`OutboundRouting` (`application/outbound`, `domain/telephony`) is `Dial` step by step: do-not-call query, cache
look-up and refill under the two locks, choice of a rule, caller's number, INSERT; with requests that change
rules and list in between. `TrunkHealth` (`application/trunk`, `domain/telephony`) is the monitor's round, the failure
counters, and a selection that reads members, health and trunk one after the other.

### 3.9 `IvrFlow`, `IvrEngine`

`IvrFlow` (`domain/routing`) has the validator of graphs as a recursive function and the editor's
requests (create, clone, lock, unlock, publish, roll back), each a read and a whole-row write.
`IvrEngine` (`application/ivr`) interprets such a graph: a stack of sessions, the limit of steps of each, and for
every type of node the exits and variables its handler can leave.

### 3.10 Rows that requests race for

`Ticket`, `QualityInspection` (with `QualityRules`, the verdict of every kind of rule),
`Annotation`, `CommAgents`, `AiJobs`, `Crm`, `Identity` and `Administration` share one form, taken from the code:
a request reads rows, decides, and writes its copy of a row back with all columns,
or inserts under the unique keys of the schema. Each has history variables
which record where two requests overlapped (`overlapped`, `doubled`, `coedited`, `crossed`,
`entwined`, `mixed`). The properties then say that the damage a stale copy can do
happens only there, and what remains true even there.
`Administration` is parameterised by a description of a table (which columns its UPDATE
writes, what its handler takes from the body and checks, whether it can delete); the descriptions of thirty tables are
read from their repositories and handlers. `Tenancy` has what these modules share.

### 3.11 Configurations

`MCEslPool`, `MCCallLifecycle`, `MCPostCallCdr`, `MCAcdDispatch` extend the modules with the values and
symmetries of the runs. Three modules join components that share no state:
`MCServices` (safety of the modules of 3.6 to 3.10), `MCLiveness` (liveness of those that move by themselves, and of
the connection pool) and `MCAgents` (presence and dispatcher). In them a variable `focus`, chosen
initially and never changed, says which component a behaviour is of; the others
stay in one initial state. The behaviours are therefore those of the components alone, and
their number is the sum, not the product. Symmetry is used for safety only.

## 4. Runs

| Run | Instance | Shows |
|---|---|---|
| `esl_pool` | 2 workers, 1 Grow goroutine, autoscaler, Close; pool 1..2 of 3 connections | a connection has one user (`ConnOwnedOnce`), SendCommand has an open socket (`UsableSocket`), none leaks (`SocketsAccounted`), the counter is right (`TokensMatchPoolSize`), the limits hold up to one (`OvershootAtMostOne`), late results do not confuse the breaker (`BreakerCoherent`) |
| `call_requests` | 1 call, a session with all operations, the listeners of 2 processes | whatever overwrites whatever, a stored row makes sense (`RowConsistent`), and an end is final once nobody holds a copy read before it (`EndedIsFinal`) |
| `call_events` | 2 calls, driven by FreeSWITCH alone, one failing statement, 1 listener | a call that is hung up is completed (`HangupCompletes`) |
| `call_limit` | 3 calls inbound or outbound, the listeners of 2 processes, a limit of 1, one failure, lost events | the guard's counter (`SlotsBounded`), and each inbound call too many is owed to a fault or a Release without an Acquire (`OverLimitAccounted`) |
| `call_end_twice` | 1 inbound call, the listeners of 2 processes, no request | **violated**: `EndedOnce` |
| `call_limit_outbound` | inbound and outbound calls, the listeners of 2 processes, limit 1 | **violated**: `LimitRespected` |
| `cdr` | 2 calls, 2 workers, 2 days, 2 deliveries, one failure | at most once (`CountedOnce`, `OneTransaction`, `ImplementsLedger`), and for calls within a day at least once (`SameDayCounted`) |
| `cdr_late` | 1 call, 3 days, one failure | **violated**: `EveryEndedCounted` |
| `agents` | presence: 1 session with all requests, 2 timers, the sweep, one failure; dispatcher: 1 instance, 2 groups (one overflows), 2 calls, 1 agent, one failure | no double close (`StopClosedOnce`), ACW is timed (`ACWTimed`) and ends (`ACWEnds`); waiting in a queue ends (`WaitEnds`) |
| `acd` | 2 instances, 1 group, 2 calls, 1 agent, one failure | one place per call (`HeldOnce`), what a dispatcher put through stays out of the queues (`ServedNotQueued`), one call per idle agent (`OneCallPerIdle`), none forgotten (`NoCallForgotten`) |
| `services` | each component of 3.6 to 3.10 with two requests, loops or goroutines that can meet (one selection of a trunk beside the monitor, one broadcast beside the clients' goroutines, one call in the engine) and one failure | see 4.1 |
| `liveness` | the pool, dialler, callbacks, webhooks, hub and engine, one failure | whoever waits in Acquire is served (`NoStarvation`), a due case is taken (`DueCaseTaken`, campaigns of all modes), and what was begun ends (`WorkEnds`): a callback is completed or given up for good (`CallbackSettles`), a delivery ends (`DeliveryEnds`), a dead client leaves its hub (`GoneClientsLeave`), a flow of a call ends (`ExecutionEnds`) |

### 4.1 What `services` shows

The invariants of these components are grouped by subject in `MCServices`; a group is the
conjunction of the named parts, each of which its module states and explains. For every part
there is a faulty variant of a definition (named `Mutant...`) under which TLC finds the group violated.

| Group | Component | Parts |
|---|---|---|
| `DiallingSafe` | dialler | a process has one open loop, the registered one (`OneLoop`); its slots come back (`SlotsReturn`) and it keeps its pace (`PaceKept`); a number is called at most so often a day (`FrequencyKept`) |
| `OutreachSafe` | webhooks | tokens of the semaphore come back (`TokensReturn`), the log says what was sent and handled (`LogTellsTruth`), what a subscriber is owed is handled, under way or a dead letter, except where the configurations could not be listed, a row of the log was purged or not written, or the process restarted (`NoSilentLoss`), and only its tenant's receivers see it (`EventsStayHome`) |
| | callbacks | although schedulers overwrite each other's counts, none is given up early (`GivenUpAfterAttempts`) and completed means called (`CompletedWasCalled`); attempts are bounded (`CallsBounded`) |
| | outbound | a tenant's own rule from a shared cache that the other dialler refills between the two locks (`RoutedByOwnRule`), a listed number is not called (`ListedNotCalled`) |
| | trunks | down after exactly three misses in a row (`DownAfterThreeMisses`), no gap in the failover (`FailoverFindsTrunk`) |
| `ChatsSafe` | chats | columns agree (`SessionShape`); by how much the slots of an agent, the closes and the messages to a closed session exceed what is meant (`SlotsOvershoot`, `ClosesBounded`, `LateMessagesBounded`) |
| | hub | no send on a closed channel (`NoSendOnClosed`), every open client gets every event or had a full channel (`EveryClientReached`) |
| `FlowsSafe` | flows | nothing invalid is stored (`StoredGraphsWellFormed`), what is published is recorded (`PublishedIsRecorded`), the validator accepts the graphs that can be run and no others (`ValidatorExact`) |
| | engine | a call is never lost in a graph (`NeverLost`) and visits boundedly many nodes (`VisitsBounded`) |
| `CaseworkSafe` | tickets | `ResolvedHasTime`, `TemplateWasPublished`; illegal jumps of a status only by overlapping requests (`JumpsOnlyWhereOverlapped`) |
| | inspection | `ScoreIsMean` (with weights of either sign: a negative one is the exception it names), `ReviewAnswersAppeal`, `ReviewStands`; failing a rule never raises a score (`FailingScoresLess`, over rules of every kind) |
| `RecordsSafe` | tables kept by REST | `DeletedStaysDeleted`, `UndoneOnlyWhereContested`, `AnswersAreStored` (but for the tenant settings that Upsert leaves out), `CheckedRowsAreOwn` |
| | CRM | `OnePrimary`, `CreatedAsTold`, `RefusedOnlyWhereMixed` |
| | identity | `SeatsBounded`, `TenantsComplete` |
| `AiWorkSafe` | labelling | `CountedAreStored`, `TwiceOnlyWhereUnseen`, `RevivedOnlyWhereCrossed`, `LabelledIsCompleted` |
| | communication agents | `ActiveWithinLimit`, `ReopenedOnlyWhereEntwined`, `ToldEndIsStored`, `RepliesAreKept` |
| | AI jobs | `RunningIsWorkedOn`, `ResultsStay`, `TrainedAtProvider`, `GradesAreExact` |

### 4.2 Bounds

* `MaxFaults = 1` in most runs (and its like, `MaxEvents`, `MaxHookFaults`, `MaxCbFaults`): the code
  handles each failure where it happens and keeps no count of failures, so two failures are two
  independent single ones for the safety properties (the proofs of section 6 cover any
  number). For liveness the statement itself is about one failure
  (`HangupCompletes`, `SameDayCounted`): with two, both attempts the code makes may fail.
* `EslPool`: a pool from 1 to 2 is the smallest in which Grow and Shrink both happen; a third
  connection is there for the overshoot. The liveness run has the worst case, one
  connection for two.
* `CallLifecycle`: races are pairwise (a read and a write around another's
  write), so one session and two listeners, all at the same row, are enough: with two processes every event meets its twin.
  `MaxEnds` stops requests, not the listeners, from ending a call over and over after a resurrected row. `Lossy` and the
  kinds of calls are varied between the runs. `HangupCompletes` is checked with one listener: each process's listener
  reads and writes for itself, and another one can only end the call earlier.
* `PostCallCdr`: two days are enough for calls that end on their first; three are needed for
  the late one. `MaxDeliver` is 2 where the code has 5: redelivery, and its end, happen.
* `AgentPresence`: two timers are one more than the map holds, enough for a goroutine
  that removes its successor's entry. Two sessions are covered by the proof.
* `AcdDispatch`: a queue of one place makes overflow and refusal happen; one agent for two
  instances is the case in which claims matter.
* `Dialer`: one case, for which two goroutines compete, two loops (a stale one and its successor), at most
  `MaxDialed` calls per loop. `services` has progressive, predictive and preview campaigns, `liveness` all modes.
* The components of 3.7 to 3.10: two requests, since every race of theirs is a read and a
  write around another's write; rows as few as the property relates (two where a unique key or the
  order of two rows matters). Limits are 1 or 2 so that they are met: a semaphore of 1, a
  channel of 1, a chat slot of 1, two attempts, four steps of a flow. The bounds that appear in a property
  (`VisitsBounded`, `CallsBounded`, `SlotsOvershoot`, `SeatsBounded`) are stated in the
  parameters and not for these numbers.
* `IvrEngine`: the graphs examined have a node of each type with its error exits leading back, a branch on its
  outcome, a flow that runs another, and a graph that was not validated. `MaxDepth` bounds sub-flows,
  which the code does not: `VisitsBounded` and `ExecutionEnds` are about flows that do not call themselves.

CHECK_DEADLOCK is FALSE where all work may be over and the bounded resources used up; the
ACD's surroundings never stop.

### 4.3 Fairness

* `EslPool`: each step of a command that has begun happens (goroutines are scheduled, commands
  have deadlines); strong fairness for receiving from the channel, since Go queues receivers in
  the order of arrival. Nobody must start, cancel or close anything.
* `CallLifecycle`: an operation that has begun goes on; each process's listener takes its next event.
* `PostCallCdr`: published messages, redeliveries (AckWait), transactions, the daily run and the
  days themselves go on.
* `AgentPresence`: goroutines go on, timers expire (`time.After`). The sweep need not help.
* `AcdDispatch`: each instance's ticker goes on, and time passes (`WaitTooLong`). Agents need
  not become idle, callers need not hang up, claims need not expire.
* `Dialer`: goroutines of calls go on, loops tick and retry times pass; strong fairness for
  starting the goroutine of a case, since Go bounds their number by nothing (the model's
  set of workers does). Nobody must start, pause or resume a campaign.
* `Webhook`: a delivery goes on; strong fairness for the semaphore, whose waiting senders Go serves
  in order. `Callback`: the schedulers' tickers go on. `IvrEngine`: the interpreter goes on.
* `WsHub`: a broadcast goes on, pings of a dead client fail, and strong fairness for taking the
  write lock, because Go's RWMutex lets no new reader in before a waiting writer.

`MCLiveness` and `MCAgents` merge these conditions: as `focus` never changes, WF of a disjunction of
one action per component is WF of the action of the component in focus and says nothing
about the others. It keeps the formula small enough for TLC.

## 5. Findings

1. `call_end_twice`: the listeners of two processes handle the same hangup event, and both
   read the row before either writes (an agent's request can take the place of one of them). Both EndCalls
   succeed: hooks twice, slot released twice. A test says that the second one gets `ErrCallAlreadyEnded`.
2. `call_limit_outbound`: `EndCall` releases a slot for every call, only inbound calls acquire
   one; after an outbound call, or one that two processes ended, the tenant may exceed its limit.
3. `cdr_late`: the reconciler asks for the calls that started yesterday. One that runs past
   the next nightly run and whose message is lost is never counted.

Observations, which the models show and no statement of the code contradicts:

* ESL pool: Shrink gives a place up before it knows whether a connection is idle, so that with a Grow
  in between `poolSize` reaches `maxPool + 1`, one more than the channel holds
  (`OvershootAtMostOne` is exact), and a Release into the full channel waits.
* A Release that looked at `closed` before Close puts its connection into the channel after Close has drained it:
  the socket is on record (`SocketsAccounted` counts the channel), but nobody closes it.
* Concurrency guard: a refused Acquire counts until its DECR, and can refuse another caller.
* A hangup before the INSERT of the row finds no call; the row then stays open.
* A call that has ended comes back, or ends again, by the hand of a request or a listener that read its row
  before the end, and only so (`EndedIsFinal`).
* A call that a request or CHANNEL_BRIDGE answers while it waits keeps its place in the sorted set: the dispatcher
  may ring an agent for it, and `expireQueued` ends it after `max_wait_sec` while the parties talk. `ServedNotQueued` is about
  the calls that a dispatcher put through.
* CheckOut and CheckIn leave the ACW timer running; an orphaned timer may make an agent
  idle who is talking.
* ACD: `TransitionToRinging` may overwrite a hangup. A call that ended in the queue is put back at the head until it expires (for ever in a
  group without `max_wait_sec`). A failing SADD reports an error for a call that is in the
  queue. A failing EndCall or ZADD, or a restart at the wrong moment, takes a call out of the
  queue for good: these are the only ways (`NoCallForgotten`).
* Dialler: a predictive campaign whose calls so far put it at twice the abandon rate or more gets no slot
  at all (`throttle`); when no call is left that could lower the rate, it takes no case again, where
  `docs/full-implementation-plan.md:889` speaks of slowing down. A pending case is not reserved: it may be dialled by two
  goroutines, and only the daily limit keeps them apart.
* Webhooks: a receiver that handled an event and answered late gets it again; a retried dead
  letter leaves its old row. Callbacks: no code sets `scheduled_at`, and `ExecuteCallback` has no caller.
* Do-not-call list: `dnc_repo` turns every error of the query into "not listed" (hence the exception in `ListedNotCalled`).
* Chats: closing by REST records the interaction and raises its event twice; sessions of social
  platforms are not routed; a session that found no idle agent is not offered again.
* Flow editor: the comment in `domain/routing/service.go` says "Allow re-lock if the current lock
  has expired", but `IVRFlowRepo.Update` does not write `lock_expires_at`: the expiry that is read is
  always NULL, and a lock stays until its owner gives it back. `IVRFlowHandler.Update` changes nothing, and
  `RefreshLock` has no handler.
* Engine: sub-flows may call themselves without a limit, since the limit of steps is one per
  session; drafts are run too; of its providers `main.go` wires two, the
  context sink (`main.go:365`) and speech recognition (`main.go:409`).
* Tickets: `Transition` has no route. A template may go offline between check and INSERT.
* Inspection: `is_active` of rules and schemes is not consulted; the inspection after a call
  always stops, since its transcript is ""; a scheme whose rules are all gone scores 0; `Review` stores any new
  score, where `entity_phase9.go:68` says 0-100. Weights are stored as they are sent, where `entity_phase9.go:59` says 0-100:
  with a negative one a score may be above 100 or below 0.
* Tenant settings: the answer to an update is the whole body, but `Upsert` (`tenant_settings_repo.go:18-39`) leaves out
  eight of its fields, and so does the query (`recording_announce`, `max_daily_dial_per_phone`, `csat_low_score_threshold`,
  `repeat_call_threshold`, `storage_quota_mb`, `ai_call_quota_per_day`, `cdr_retention_days`, `transcript_retention_days`):
  they are confirmed and lost.
* Webhooks: an event whose configurations cannot be listed is dropped with a line of the server's log.
* AI jobs: an analysis whose provider fails stays "running"; `MarkReady` has no caller, so a voice
  stays in training. `HandleConversationTurn` has no caller in the server.
* CRM: `EraseCustomer` and `GetJourney` have no caller; a deletion that stops half way leaves a
  customer without phones.
* Identity: a tenant whose creation stops before its settings cannot be created again, and gets no agents
  until settings are stored; the settings' handler stores 0 for fields that the body leaves out; the routing
  policies that the service accepts are not those of the column's ENUM.

## 6. Proofs

All proofs hold for any number of calls, agents, goroutines, instances, connections, days
and faults, under the ASSUME of each module (mainly that special values differ from
members of the sets, and that sets which are counted are finite).

* `EslPoolProofs`. `IInv` is built in layers, each using the ones before: `BaseInv` (types,
  who holds a connection at which place, and what a pending compare-and-swap remembers of the
  limits), `ConnOwnedOnce`, `SocketInv` (a set flag means an open socket), `OvershootAtMostOne`,
  `TokenInv` (by cardinalities of finite sets; only a closed client is drained), `BreakerCoherent`.
  The properties are not inductive by themselves: `OvershootAtMostOne` needs
  that the value a swap compares with was within the limits, `UsableSocket` that Acquire
  leaves the flag and the socket in agreement on every error path.
* `CallLifecycleProofs`. `RowInv` = `TypeOK`, `RowConsistent`, `SessionsOK` (a row that somebody
  is about to write is consistent too and is not the absent one, and a listener answers
  only on behalf of an agent), `HooksOK` (hooks exist only for rows that exist). The
  snapshots are the point: the stored row is consistent because every row in somebody's
  hands is (`WritesConsistent`, one step per operation).
  `EndInv` adds to `RowInv` where each goroutine's copy stands in its operation, that no two are about to insert
  one row, and that a row not yet there has not ended. `EndedIsFinal` follows with `WritesKeep`: an operation on
  a completed row writes a completed one and is not another end. `SlotInv` counts the guard, for calls of every kind and any
  number of processes: inbound calls that have not ended, refusals not taken back and ends not yet
  released fit into `slots`, the faults and the surplus ends (the second and later ends of an inbound call, every end of
  another). `OverLimitAccounted` is its last conjunct seen from outside. What two processes do to one call is thus in
  the theorems, not in their hypotheses; `EndedOnce` and `LimitRespected`, which they falsify, are findings.
* `PostCallCdrProofs`. `CdrInv` adds to the types that every call named by an EndCall in
  progress, the stream, a worker, the reconciler's list or the processed table has started, and
  that who is about to commit holds the key of a call not yet processed. `TableSteps` shows that every step folds one call that was not
  counted, or starts one, or leaves the tables alone; the refinement of `CdrLedger` (`Refinement`) and `Exact` follow.
* `AgentPresenceProofs`. `PresenceInv`: types, what a goroutine is going to write at each place
  (`ActorsOK`), the registered timer runs and its channel is open (`StopsOK`: whoever closes a
  channel closes one that nobody has closed), and `ACWTimed` itself.
* `AcdDispatchProofs`. `AcdInv` has two halves which no action mixes. `QueueInv`: a call
  is queued in its own group or held by one dispatcher, before ZADD and after a dispatcher rang it neither,
  otherwise one of them, whoever else answers it meanwhile. `AgentInv`: whoever owns a claim is alone, the claim is there, and an agent that
  has its call is not idle, or is being made so by the owner of its claim, or is claimed; that
  disjunction is what carries `OneCallPerIdle` over the moment between the
  write of the call and the write of presence.
* `OutreachProofs` (`OutreachSafe`, `DiallingSafe`, over behaviours of `MCServices`). `HookInv`: what a delivery's goroutine, its
  row of the log and the number of its posts have to do with each other at each place, what becomes of each delivery owed, and `sem` is the number of those
  who hold a token. `CbInv`: each row, each listed row and each copy of a scheduler is truthful
  (it has no more attempts than were dialled, and completed means reached). `TrunkInv`: counter and status agree, and what a
  selection has read so far justifies where it is. `OutInv`: a cache entry is of the tenant
  whose list it is in, and who dials a number that was listed at its query had that query fail.
  `CallsInv` carries `CallsBounded`. Schedulers write counts back that others have passed, so no single counter
  bounds the attempts; the invariant claims two ghost counts per count k: how many attempts were made below
  k, and how often a row came to have count k (its epochs). An epoch of k lets each scheduler that still has
  a copy attempt once, a fault lets one attempt again, and an attempt from k starts at most one epoch of k + 1
  (`Tally`). `BoundGrows` adds that up to the bound that the model states.
  `DialInv` is about the dialler: the loops that are open are the registered ones; a goroutine owes a slot only to a
  loop of its own process, and only until its result is recorded (`WorkerOK`); what an open loop counts as active is
  at most the goroutines that owe it a slot, and with the slots it has yet to use keeps the pace but for calls that agents
  asked for (`LoopSlotsOK`); the calls made to a number and those about to be made are covered by the day's count in Redis,
  capped at the limit, and the failures of Redis (`NumberOK`). The last two are what make the invariant inductive: `SlotsReturn`
  must hold while a goroutine passes from the loop to its result, `FrequencyKept` while several goroutines stand between INCR and the call.
  The module assumes that there is a server process at all (`Instances # {}`): a loop that is not in use yet names one.
* `RecordsProofs` (`RecordsSafe`, `FlowsSafe`). `AdminInv` is about any table that is described soundly (`TablesAreSound` shows that
  all thirty are; the settings of a tenant are the one whose UPDATE has fewer columns than its body): two who edit one row make it `coedited`, and only there may an edit be
  undone. `IdentityInv` counts agents and those about to be inserted against the most seats a tenant had,
  plus one per other request.
  `CrmInv` says at which statement of a request a customer may lack what the request was told, and who
  then is at it.
  Flows: `ValidatedIsWellFormed` and `WellFormedIsValidated` say what the breadth-first search of the validator
  computes for every graph: each round stays in every closed set with the start, and as long as a round adds something it adds
  a node, so that after as many rounds as there are nodes the set is closed. `FlowInv`: rows, versions
  and each copy and graph in an editor's hands were validated, and whatever is published, stored or in hand, is on record,
  was refused by the database, or is about to be recorded. `EngineInv`: each frame of the stack is at a node of a validated graph.
  `VisitInv` bounds `visits` by induction over the depth: `at`, claimed to exist, is the count of visits that each
  frame accounts for, and a frame accounts for one visit and one whole sub-flow per step.
* `WorkProofs` (`CaseworkSafe`, `AiWorkSafe`, `ChatsSafe`). `TicketInv`, `QaInv`, `AnnInv`, `CommInv` and `JobsInv` have one form: the stored
  rows are sound; so is each copy in hand, for the place its holder is at; and two
  holders of copies of one row are known to overlap, so that a row differs from a copy only where the
  history says so. The sums of scores, marks and labels are recursive functions; that they are
  defined, and what they are bounded by, is shown by the least counterexample (`Least`, from the well-foundedness of
  the naturals), which replaces the induction theorems that the provers cannot instantiate.
  `FailuresScoreLess` goes through the kinds of rules and shows that a verdict that fails scores less than one that passes
  (for thresholds of language-model rules up to 100, `SampleAssumption`: a higher one would fail an answer of 100,
  the score at which a rule passes when no provider is set).
  `HubInv`: an open connection is on the map under its key and under no other, and whom a broadcast has still to
  reach is on the map, since the map does not change while a broadcast holds the lock; hence the channel is open.
  `EveryClientReached` is part of it, with the connections that are not there yet.
  `ChatInv`: a copy that will be written back has the shape of a stored session and was open when it was read; what
  will be written too late is counted in advance. The bound on the closes is tightened while a session is open (nobody's close
  is behind it then), and loosened by the requests that are at it when it is closed; the one on late messages the other way round.

The theorems about `MCServices` are about its specification with any parameters that satisfy the ASSUMEs, of
which the run `services` is one instance.

Only model-checked:

* liveness (`NoStarvation`, `HangupCompletes`, `SameDayCounted`, `ACWEnds`, `WaitEnds`,
  `DueCaseTaken` and the parts of `WorkEnds`), which needs fairness and is out of the prover's reach.

Every invariant and every action property of a passing run has a theorem, and so has the refinement of `CdrLedger`.

## 7. Not modelled

The components with status `not_modelled` in `PROJECT.json`, each with its reason: formatting, queries,
prompts and clients of external services that keep no state of a protocol; the HTTP layer, whose handlers
appear as the requests of the modules; start-up, whose loops appear as their actions. Inside the
modelled components: texts, durations, logs, metrics,
notifications; the policies' choice of an agent and the familiar-agent cache; replies of
FreeSWITCH other than success and failure (and the form of `originate`'s answer); the import of cases and the
monitor's figures; signatures of webhooks; departments and visitors of chats; what is said, played or
recognised in a flow; custom fields, tags and groups of customers; passwords and roles. The components of 3.6 to 3.10 are checked one
at a time: the code lets them meet only through a call that ended, a customer or an agent, which are inputs
of their actions.
