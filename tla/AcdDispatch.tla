---------------------------- MODULE AcdDispatch ----------------------------
(***************************************************************************)
(* The ACD dispatcher (application/acd): queues of calls in Redis, one     *)
(* sorted set per skill group, drained by a ticker on every instance. The  *)
(* instances share the queues, the claims on agents (SETNX with a TTL) and *)
(* the tables of calls and presence, and no lock: a call belongs to the    *)
(* instance whose ZREM removed it, an agent to the one whose SETNX set the *)
(* claim.                                                                  *)
(*                                                                         *)
(* What requests and FreeSWITCH events do to a call and to an agent's      *)
(* presence (CallLifecycle, AgentPresence) is one atomic step here. A      *)
(* statement or command that fails has not been executed.                  *)
(***************************************************************************)
EXTENDS Naturals, FiniteSets

CONSTANTS
    Calls, Agents, Groups,
    Dispatchers,    \* the instances that run the ticker
    None,
    Target,         \* per call, the skill group that its IVR flow names
    Priority,       \* per call, queue_priority of that IVR node
    Members,        \* per group, its agents
    MaxQueueSize,   \* per group, 0 for no limit
    OverflowGroup,  \* per group, another group or None
    Expiring,       \* the groups with max_wait_sec > 0
    MaxFaults       \* bound: failing statements and commands, restarts

ASSUME AcdAssumption ==
    /\ IsFiniteSet(Calls)
    /\ None \notin Calls \cup Agents \cup Groups
    /\ Target \in [Calls -> Groups]
    /\ Priority \in [Calls -> Nat]
    /\ Members \in [Groups -> SUBSET Agents]
    /\ MaxQueueSize \in [Groups -> Nat]
    /\ OverflowGroup \in [Groups -> Groups \cup {None}]
    /\ Expiring \subseteq Groups
    /\ MaxFaults \in Nat

VARIABLES
    call,      \* table calls: the status
    ivr,       \* the goroutine that executes Enqueue for a call
    queue,     \* acd:queue:<group>
    stamp,     \* per call, its rank in the order of enqueuing, 0 before
    active,    \* acd:active_sg
    overdue,   \* the calls that have waited longer than max_wait_sec
    idle,      \* the agents whose row in agent_presence says idle
    claim,     \* the agents with a key acd:agent_claim:<agent>
    disp,      \* what each dispatcher is doing
    rings,     \* per agent, the calls put through since it last became idle
    rung,      \* calls that a dispatcher has put through
    unseen,    \* agents put through whose presence could not be written
    lost,      \* calls of which a failure took away the place in the queue
    faults

vars == <<call, ivr, queue, stamp, active, overdue, idle, claim, disp,
          rings, rung, unseen, lost, faults>>
queueVars == <<ivr, queue, stamp, active, overdue>>
agentVars == <<idle, rings, rung, unseen>>

\* Status "ivr" stands for IVR and Queue, "served" for Ringing and whatever
\* follows it up to the end, between which the dispatcher makes no difference.
Status == {"ivr", "served", "completed"}
Places == {"idle", "expire", "end", "head", "pick", "claim", "remove", "ring",
           "write", "presence", "release", "requeue"}
Idle(left) == [at |-> "idle", left |-> left, group |-> None, todo |-> {},
               call |-> None, agent |-> None]

TypeOK ==
    /\ call \in [Calls -> Status]
    /\ ivr \in [Calls -> [at : {"check", "add", "register", "queued", "refused"},
                          group : Groups]]
    /\ queue \in [Groups -> SUBSET Calls]
    /\ stamp \in [Calls -> Nat]
    /\ active \subseteq Groups
    /\ overdue \subseteq Calls
    /\ idle \subseteq Agents
    /\ claim \subseteq Agents
    /\ disp \in [Dispatchers -> [at : Places, left : SUBSET Groups,
                                 group : Groups \cup {None}, todo : SUBSET Calls,
                                 call : Calls \cup {None}, agent : Agents \cup {None}]]
    /\ rings \in [Agents -> Nat]
    /\ rung \subseteq Calls
    /\ unseen \subseteq Agents
    /\ lost \subseteq Calls
    /\ faults \in 0..MaxFaults

Init ==
    /\ call = [c \in Calls |-> "ivr"]
    /\ ivr = [c \in Calls |-> [at |-> "check", group |-> Target[c]]]
    /\ queue = [g \in Groups |-> {}]
    /\ stamp = [c \in Calls |-> 0]
    /\ active = {}
    /\ overdue = {}
    /\ idle = Agents
    /\ claim = {}
    /\ disp = [d \in Dispatchers |-> Idle({})]
    /\ rings = [a \in Agents |-> 0]
    /\ rung = {}
    /\ unseen = {}
    /\ lost = {}
    /\ faults = 0

Fault == faults < MaxFaults /\ faults' = faults + 1

-----------------------------------------------------------------------------
(***************************************************************************)
(* Enqueue, called by the IVR node that transfers to an agent. It runs on  *)
(* when the caller has hung up.                                            *)
(***************************************************************************)
Full(g) == MaxQueueSize[g] > 0 /\ Cardinality(queue[g]) >= MaxQueueSize[g]

\* Mutant: an overflow group that is not configured is not noticed.
MutantEnqueueCheck(c) ==
    LET g == ivr[c].group IN
    /\ ivr[c].at = "check"
    /\ ivr' = [ivr EXCEPT ![c] = IF Full(g) THEN [at |-> "check", group |-> OverflowGroup[g]]
                                            ELSE [at |-> "add", group |-> g]]
    /\ UNCHANGED <<call, queue, stamp, active, overdue, claim, disp, agentVars, lost, faults>>

\* ZCARD, and the same again for the overflow group.
EnqueueCheck(c) ==
    LET g == ivr[c].group IN
    /\ ivr[c].at = "check"
    /\ ivr' = [ivr EXCEPT ![c] =
                   CASE ~Full(g) -> [at |-> "add", group |-> g]
                     [] Full(g) /\ OverflowGroup[g] # None ->
                            [at |-> "check", group |-> OverflowGroup[g]]
                     [] OTHER -> [at |-> "refused", group |-> g]]
    /\ UNCHANGED <<call, queue, stamp, active, overdue, claim, disp, agentVars, lost, faults>>

\* When the group cannot be read or ZCARD fails, the call goes in.
EnqueueCheckFails(c) ==
    /\ ivr[c].at = "check"
    /\ Fault
    /\ ivr' = [ivr EXCEPT ![c].at = "add"]
    /\ UNCHANGED <<call, queue, stamp, active, overdue, claim, disp, agentVars, lost>>

\* ZADD with the time as part of score and member.
EnqueueAdd(c) ==
    /\ ivr[c].at = "add"
    /\ ivr' = [ivr EXCEPT ![c].at = "register"]
    /\ queue' = [queue EXCEPT ![ivr[c].group] = @ \cup {c}]
    /\ stamp' = [stamp EXCEPT ![c] = 1 + Cardinality({b \in Calls : stamp[b] > 0})]
    /\ UNCHANGED <<call, active, overdue, claim, disp, agentVars, lost, faults>>

\* SADD acd:active_sg.
EnqueueRegister(c) ==
    /\ ivr[c].at = "register"
    /\ ivr' = [ivr EXCEPT ![c].at = "queued"]
    /\ active' = active \cup {ivr[c].group}
    /\ UNCHANGED <<call, queue, stamp, overdue, claim, disp, agentVars, lost, faults>>

\* ZADD or SADD fails: the IVR is told so, in the second case although the call
\* is in the queue.
EnqueueFails(c) ==
    /\ ivr[c].at \in {"add", "register"}
    /\ Fault
    /\ ivr' = [ivr EXCEPT ![c].at = "refused"]
    /\ UNCHANGED <<call, queue, stamp, active, overdue, claim, disp, agentVars, lost>>

-----------------------------------------------------------------------------
(***************************************************************************)
(* A tick: for every active group, expireQueued and dispatchOne.           *)
(***************************************************************************)
GroupDone(d) == disp' = [disp EXCEPT ![d] = Idle(@.left)]
GoTo(d, place) == disp' = [disp EXCEPT ![d].at = place]
Take(c, g) == queue' = [queue EXCEPT ![g] = @ \ {c}]

Tick(d) ==
    /\ disp[d] = Idle({})
    /\ active # {}
    /\ disp' = [disp EXCEPT ![d].left = active]
    /\ UNCHANGED <<call, queueVars, claim, agentVars, lost, faults>>

\* Mutant: the comparison with the deadline is the wrong way round.
MutantExpireScan(d, g) ==
    /\ disp[d].at = "idle"
    /\ g \in disp[d].left
    /\ disp' = [disp EXCEPT ![d].at = "expire", ![d].left = @ \ {g}, ![d].group = g,
                            ![d].todo = IF g \in Expiring THEN queue[g] \ overdue ELSE {}]
    /\ UNCHANGED <<call, queueVars, claim, agentVars, lost, faults>>

\* ZRANGE, and the members older than the deadline.
ExpireScan(d, g) ==
    /\ disp[d].at = "idle"
    /\ g \in disp[d].left
    /\ disp' = [disp EXCEPT ![d].at = "expire", ![d].left = @ \ {g}, ![d].group = g,
                            ![d].todo = IF g \in Expiring THEN queue[g] \cap overdue ELSE {}]
    /\ UNCHANGED <<call, queueVars, claim, agentVars, lost, faults>>

\* The skill group cannot be read: it is left out of this tick.
GroupLookupFails(d) ==
    /\ disp[d].at = "idle"
    /\ Fault
    /\ \E g \in disp[d].left : disp' = [disp EXCEPT ![d].left = @ \ {g}]
    /\ UNCHANGED <<call, queueVars, claim, agentVars, lost>>

\* Mutant: the call is ended whoever removed it from the queue.
MutantExpireRemove(d, c) ==
    /\ disp[d].at = "expire"
    /\ c \in disp[d].todo
    /\ Take(c, disp[d].group)
    /\ disp' = [disp EXCEPT ![d].todo = @ \ {c}, ![d].call = c, ![d].at = "end"]
    /\ UNCHANGED <<call, ivr, stamp, active, overdue, claim, agentVars, lost, faults>>

\* ZREM: only who removed the member goes on to end the call.
ExpireRemove(d, c) ==
    LET mine == c \in queue[disp[d].group] IN
    /\ disp[d].at = "expire"
    /\ c \in disp[d].todo
    /\ Take(c, disp[d].group)
    /\ disp' = [disp EXCEPT ![d].todo = @ \ {c},
                            ![d].call = IF mine THEN c ELSE None,
                            ![d].at = IF mine THEN "end" ELSE "expire"]
    /\ UNCHANGED <<call, ivr, stamp, active, overdue, claim, agentVars, lost, faults>>

\* EndCall with queue_timeout; a call that has ended already stays as it is.
ExpireEnd(d) ==
    /\ disp[d].at = "end"
    /\ disp' = [disp EXCEPT ![d].at = "expire", ![d].call = None]
    /\ call' = [call EXCEPT ![disp[d].call] = "completed"]
    /\ UNCHANGED <<queueVars, claim, agentVars, lost, faults>>

\* EndCall fails, and nobody tries again.
ExpireEndFails(d) ==
    /\ disp[d].at = "end"
    /\ Fault
    /\ disp' = [disp EXCEPT ![d].at = "expire", ![d].call = None]
    /\ lost' = lost \cup {disp[d].call}
    /\ UNCHANGED <<call, queueVars, claim, agentVars>>

\* ZRANGE fails, or the ZREM of some members: they are left for the next tick.
ExpireSkips(d) ==
    /\ disp[d].at = "expire"
    /\ Fault
    /\ \E rest \in SUBSET disp[d].todo :
          rest # disp[d].todo /\ disp' = [disp EXCEPT ![d].todo = rest]
    /\ UNCHANGED <<call, queueVars, claim, agentVars, lost>>

ExpireDone(d) ==
    /\ disp[d].at = "expire"
    /\ disp[d].todo = {}
    /\ GoTo(d, "head")
    /\ UNCHANGED <<call, queueVars, claim, agentVars, lost, faults>>

\* scoreFor: a higher priority first, then the longer wait.
Before(c, b) ==
    \/ Priority[c] > Priority[b]
    \/ Priority[c] = Priority[b] /\ stamp[c] <= stamp[b]

DispatchHead(d) ==
    LET waiting == queue[disp[d].group] IN
    /\ disp[d].at = "head"
    /\ \/ waiting = {} /\ GroupDone(d)
       \/ \E c \in waiting :
             /\ \A b \in waiting : Before(c, b)
             /\ disp' = [disp EXCEPT ![d].at = "pick", ![d].call = c]
    /\ UNCHANGED <<call, queueVars, claim, agentVars, lost, faults>>

\* One of the members that are idle now; which one is left to the policies
\* (random, round robin, the familiar agent, the longest idle).
pickAgent(d) ==
    LET candidates == Members[disp[d].group] \cap idle IN
    /\ disp[d].at = "pick"
    /\ \/ candidates = {} /\ GroupDone(d)
       \/ \E a \in candidates :
             disp' = [disp EXCEPT ![d].at = "claim", ![d].agent = a]
    /\ UNCHANGED <<call, queueVars, claim, agentVars, lost, faults>>

\* Mutant: a claim that is there already does not matter.
MutantTryClaim(d) ==
    /\ disp[d].at = "claim"
    /\ claim' = claim \cup {disp[d].agent}
    /\ GoTo(d, "remove")
    /\ UNCHANGED <<call, queueVars, agentVars, lost, faults>>

\* SETNX.
tryClaim(d) ==
    /\ disp[d].at = "claim"
    /\ claim' = claim \cup {disp[d].agent}
    /\ IF disp[d].agent \in claim THEN GroupDone(d) ELSE GoTo(d, "remove")
    /\ UNCHANGED <<call, queueVars, agentVars, lost, faults>>

\* Mutant: a member that is gone already does not matter.
MutantDispatchRemove(d) ==
    /\ disp[d].at = "remove"
    /\ Take(disp[d].call, disp[d].group)
    /\ GoTo(d, "ring")
    /\ UNCHANGED <<call, ivr, stamp, active, overdue, claim, agentVars, lost, faults>>

\* ZREM: an instance that comes too late gives the agent back.
DispatchRemove(d) ==
    LET mine == disp[d].call \in queue[disp[d].group] IN
    /\ disp[d].at = "remove"
    /\ Take(disp[d].call, disp[d].group)
    /\ disp' = [disp EXCEPT ![d].at = IF mine THEN "ring" ELSE "release",
                            ![d].call = IF mine THEN @ ELSE None]
    /\ UNCHANGED <<call, ivr, stamp, active, overdue, claim, agentVars, lost, faults>>

\* A read or a command before the call is removed fails: the next tick is the
\* next attempt. After the claim has been made, it is released.
DispatchFails(d) ==
    /\ disp[d].at \in {"head", "pick", "claim", "remove"}
    /\ Fault
    /\ IF disp[d].at = "remove"
       THEN disp' = [disp EXCEPT ![d].at = "release", ![d].call = None]
       ELSE GroupDone(d)
    /\ UNCHANGED <<call, queueVars, claim, agentVars, lost>>

-----------------------------------------------------------------------------
(***************************************************************************)
(* TransitionCallToRinging, and what dispatchOne does when it fails.       *)
(***************************************************************************)
RingRead(d) ==
    /\ disp[d].at = "ring"
    /\ GoTo(d, IF call[disp[d].call] = "ivr" THEN "write" ELSE "release")
    /\ UNCHANGED <<call, queueVars, claim, agentVars, lost, faults>>

\* The UPDATE of the whole row: it also overwrites a hangup or an answer since
\* the read.
RingWrite(d) ==
    /\ disp[d].at = "write"
    /\ call' = [call EXCEPT ![disp[d].call] = "served"]
    /\ rings' = [rings EXCEPT ![disp[d].agent] = @ + 1]
    /\ rung' = rung \cup {disp[d].call}
    /\ GoTo(d, "presence")
    /\ UNCHANGED <<queueVars, claim, idle, unseen, lost, faults>>

RingFails(d) ==
    /\ disp[d].at \in {"ring", "write"}
    /\ Fault
    /\ GoTo(d, "release")
    /\ UNCHANGED <<call, queueVars, claim, agentVars, lost>>

\* TransitionTo(dialing), refused for an agent who is no longer idle. The claim
\* stays until it expires.
RingPresence(d) ==
    /\ disp[d].at = "presence"
    /\ idle' = idle \ {disp[d].agent}
    /\ GroupDone(d)
    /\ UNCHANGED <<call, queueVars, claim, rings, rung, unseen, lost, faults>>

\* The error is ignored.
RingPresenceFails(d) ==
    /\ disp[d].at = "presence"
    /\ Fault
    /\ unseen' = unseen \cup {disp[d].agent}
    /\ GroupDone(d)
    /\ UNCHANGED <<call, queueVars, claim, idle, rings, rung, lost>>

\* DEL, also when it fails (then the claim stays until it expires).
releaseClaim(d) ==
    /\ disp[d].at = "release"
    /\ \/ claim' = claim \ {disp[d].agent} /\ UNCHANGED faults
       \/ Fault /\ UNCHANGED claim
    /\ IF disp[d].call = None THEN GroupDone(d) ELSE GoTo(d, "requeue")
    /\ UNCHANGED <<call, queueVars, agentVars, lost>>

\* Mutant: the call is not put back.
MutantRequeue(d) ==
    /\ disp[d].at = "requeue"
    /\ GroupDone(d)
    /\ UNCHANGED <<call, queueVars, claim, agentVars, lost, faults>>

\* ZADD of the same member with the same score.
Requeue(d) ==
    /\ disp[d].at = "requeue"
    /\ queue' = [queue EXCEPT ![disp[d].group] = @ \cup {disp[d].call}]
    /\ GroupDone(d)
    /\ UNCHANGED <<call, ivr, stamp, active, overdue, claim, agentVars, lost, faults>>

\* The error is ignored.
RequeueFails(d) ==
    /\ disp[d].at = "requeue"
    /\ Fault
    /\ lost' = lost \cup {disp[d].call}
    /\ GroupDone(d)
    /\ UNCHANGED <<call, queueVars, claim, agentVars>>

\* The dispatcher has removed the call from the queue and not put it through.
Holds(d, c) ==
    /\ disp[d].call = c
    /\ disp[d].at \in {"end", "ring", "write", "release", "requeue"}

\* An instance restarts.
Restart(d) ==
    /\ Fault
    /\ disp' = [disp EXCEPT ![d] = Idle({})]
    /\ lost' = lost \cup {c \in Calls : Holds(d, c)}
    /\ unseen' = unseen \cup {a \in Agents : disp[d].at = "presence" /\ disp[d].agent = a}
    /\ UNCHANGED <<call, queueVars, claim, idle, rings, rung>>

-----------------------------------------------------------------------------
(***************************************************************************)
(* The surroundings.                                                       *)
(***************************************************************************)

\* 30 seconds after SETNX. That is longer than an instance takes from reading
\* an agent's presence to writing it (the one assumption about time).
ClaimExpires(a) ==
    /\ a \in claim
    /\ \A d \in Dispatchers : disp[d].agent # a
    /\ claim' = claim \ {a}
    /\ UNCHANGED <<call, queueVars, disp, agentVars, lost, faults>>

\* max_wait_sec after the call was enqueued.
WaitTooLong(c) ==
    /\ stamp[c] > 0
    /\ overdue' = overdue \cup {c}
    /\ UNCHANGED <<call, ivr, queue, stamp, active, claim, disp, agentVars, lost, faults>>

\* The caller or the agent hangs up. The agent's after-call work is not idle.
Hangup(c) ==
    /\ call[c] # "completed"
    /\ call' = [call EXCEPT ![c] = "completed"]
    /\ UNCHANGED <<queueVars, claim, disp, agentVars, lost, faults>>

\* A request answers a call in the IVR or a queue, or rings agent a for it, or
\* CHANNEL_BRIDGE makes it active. Nobody takes it out of its queue. The agent's
\* presence follows, unless there is none to follow or it cannot be written. (A
\* blind transfer changes neither the queue nor the status.)
AnswerQueued(c, a) ==
    /\ call[c] = "ivr"
    /\ call' = [call EXCEPT ![c] = "served"]
    /\ idle' \in {idle, idle \ {a}}
    /\ UNCHANGED <<queueVars, claim, disp, rings, rung, unseen, lost, faults>>

\* An agent is no longer idle: a break, a call answered or dialled.
LeaveIdle(a) ==
    /\ a \in idle
    /\ idle' = idle \ {a}
    /\ UNCHANGED <<call, queueVars, claim, disp, rings, rung, unseen, lost, faults>>

\* An agent, or its ACW timer, makes it available again.
BecomeIdle(a) ==
    /\ a \notin idle
    /\ idle' = idle \cup {a}
    /\ rings' = [rings EXCEPT ![a] = 0]
    /\ unseen' = unseen \ {a}
    /\ UNCHANGED <<call, queueVars, claim, disp, rung, lost, faults>>

-----------------------------------------------------------------------------
Enqueue(c) == EnqueueCheck(c) \/ EnqueueAdd(c) \/ EnqueueRegister(c)

Dispatch(d) ==
    \/ Tick(d) \/ \E g \in Groups : ExpireScan(d, g)
    \/ \E c \in Calls : ExpireRemove(d, c)
    \/ ExpireEnd(d) \/ ExpireDone(d)
    \/ DispatchHead(d) \/ pickAgent(d) \/ tryClaim(d) \/ DispatchRemove(d)
    \/ RingRead(d) \/ RingWrite(d) \/ RingPresence(d) \/ releaseClaim(d) \/ Requeue(d)

DispatcherFails(d) ==
    \/ GroupLookupFails(d) \/ ExpireSkips(d) \/ ExpireEndFails(d) \/ DispatchFails(d)
    \/ RingFails(d) \/ RingPresenceFails(d) \/ RequeueFails(d) \/ Restart(d)

Next ==
    \/ \E c \in Calls : Enqueue(c) \/ EnqueueCheckFails(c) \/ EnqueueFails(c)
    \/ \E d \in Dispatchers : Dispatch(d) \/ DispatcherFails(d)
    \/ \E a \in Agents : ClaimExpires(a) \/ BecomeIdle(a) \/ LeaveIdle(a)
    \/ \E c \in Calls : WaitTooLong(c) \/ Hangup(c) \/ \E a \in Agents : AnswerQueued(c, a)

Spec == Init /\ [][Next]_vars

\* The tickers go on, and so does time.
Fairness ==
    /\ \A d \in Dispatchers : WF_vars(Dispatch(d))
    /\ \A c \in Calls : WF_vars(WaitTooLong(c))

FairSpec == Spec /\ Fairness

-----------------------------------------------------------------------------
(***************************************************************************)
(* Properties.                                                             *)
(***************************************************************************)

\* A call that is queued, or that a dispatcher has taken from the queue, is in
\* exactly that place: ZREM decides between instances, and between the timeout
\* and the dispatch, also when a failed attempt puts the call back.
HeldOnce ==
    \A c \in Calls :
        /\ \A d, e \in Dispatchers : Holds(d, c) /\ Holds(e, c) => d = e
        /\ \A g, h \in Groups : c \in queue[g] /\ c \in queue[h] => g = h
        /\ \A d \in Dispatchers, g \in Groups : ~(Holds(d, c) /\ c \in queue[g])

\* A call that a dispatcher has put through is out of all dispatchers' reach:
\* the queue timeout never ends it, and it is not put through again, whoever
\* answers, rings or ends it besides. (A call that a request or an event puts
\* through keeps its place in the queue, where the timeout still finds it.)
ServedNotQueued ==
    \A c \in rung :
        /\ \A g \in Groups : c \notin queue[g]
        /\ \A d \in Dispatchers : ~Holds(d, c)

\* The dispatchers give an agent who became idle once one call, although each
\* instance may have seen it idle: the claim, which success does not release, covers the
\* time until presence says so. A presence that could not be written is the
\* exception.
OneCallPerIdle ==
    \A a \in Agents : a \notin unseen => rings[a] <= 1

\* A call whose Enqueue succeeded is, as long as nobody answers or ends it, in
\* the queue of an active group or in the hands of a dispatcher. Exceptions are
\* a failing EndCall, a failing ZADD and a restart while a dispatcher holds it.
NoCallForgotten ==
    \A c \in Calls : ivr[c].at = "queued" /\ call[c] = "ivr" /\ c \notin lost =>
        \/ \E g \in active : c \in queue[g]
        \/ \E d \in Dispatchers : Holds(d, c)

\* In groups with max_wait_sec nobody waits for ever, also when every agent is
\* busy: the call is put through, ends, or is lost to a failure.
WaitEnds ==
    \A c \in Calls :
        ivr[c].at = "queued" /\ call[c] = "ivr" /\ ivr[c].group \in Expiring
            ~> call[c] # "ivr" \/ c \in lost
=============================================================================
