--------------------------- MODULE CallLifecycle ---------------------------
(***************************************************************************)
(* Calls: the rows of table calls, the operations of domain/call that      *)
(* change them, and the lifecycle service that drives them from HTTP       *)
(* requests, from the ACD and from FreeSWITCH events, with the per-tenant  *)
(* concurrency guard.                                                      *)
(*                                                                         *)
(* An operation reads the row (GetByID), checks its status, talks to       *)
(* FreeSWITCH, and writes ALL columns back (UPDATE ... WHERE id = ?): the  *)
(* read and the write are two steps, and what is written is what was read, *)
(* changed. Of a row the model keeps what the guards look at; a timestamp  *)
(* is 0 (NULL) or 1, counters, durations and texts are left out.           *)
(***************************************************************************)
EXTENDS Integers, Sequences, FiniteSets

CONSTANTS
    Calls,          \* the calls of one tenant
    Sessions,       \* goroutines that execute requests, ACD steps and hooks
    Listeners,      \* the goroutines of the ESL event listeners, one per process
    Agents,
    None,
    RequestOps,     \* the operations that the sessions are asked for
    Kinds,          \* the kinds of calls that are created
    FsEvents,       \* the events of a live channel FreeSWITCH reports
    OriginateReply, \* "exact" if originate answers with the bare uuid of the
                    \* channel, "prefixed" if with "+OK uuid": the answer is
                    \* stored as it is
    MaxConcurrent,  \* tenant_settings.max_concurrent_calls, positive
    MaxEnds,        \* bound: requests do not end a call that has ended so often
    MaxFaults,      \* bound: failing statements and listener disconnects
    Lossy           \* whether a listener's connection can break

AllOps == {"end", "queue", "ring", "answer", "hold", "retrieve", "transfer",
           "attended", "consult", "consultDone", "consultCancel",
           "conference", "disposition", "customer", "bridge"}
AllKinds == {"inbound", "outbound", "internal", "monitor"}

ASSUME CallAssumption ==
    /\ Listeners \cap Sessions = {}
    /\ IsFiniteSet(Calls) /\ IsFiniteSet(Sessions) /\ IsFiniteSet(Listeners)
    /\ None \notin Calls \cup Agents
    /\ RequestOps \subseteq AllOps
    /\ Kinds \subseteq AllKinds
    /\ FsEvents \subseteq {"ANSWER", "BRIDGE", "PARK"}
    /\ OriginateReply \in {"exact", "prefixed"}
    /\ MaxConcurrent \in Nat \ {0}
    /\ MaxEnds \in Nat
    /\ MaxFaults \in Nat
    /\ Lossy \in BOOLEAN

VARIABLES
    row,       \* table calls
    sess,      \* what each goroutine is doing
    channel,   \* FreeSWITCH: the channel of a call is "none", "up" or "down"
    reported,  \* events of live channels that FreeSWITCH has sent
    events,    \* per listener, the events on their way to it, in order
    slots,     \* ccc:concurrent_calls:<tenant>
    ends,      \* per call, how many calls of EndCall have succeeded
    hooks,     \* per call, post-call hooks that were spawned and not run yet
    faults     \* faults so far

vars == <<row, sess, channel, reported, events, slots, ends, hooks, faults>>
fsVars == <<channel, reported, events>>

Workers == Sessions \cup Listeners

Status == {"absent", "ivr", "queue", "ringing", "active", "held",
           "consulting", "conference", "completed"}
\* uuid tells what channel_uuid holds: nothing, the channel's uuid, or a text
\* that is not the uuid of any channel.
Row == [kind : AllKinds \cup {"none"}, uuid : {"none", "exact", "prefixed"},
        status : Status, agent : Agents \cup {None}, group : {0, 1},
        answered : {0, 1}, ended : {0, 1}]
NewRow(kind, uuid, status, agent) ==
    [kind |-> kind, uuid |-> uuid, status |-> status, agent |-> agent,
     group |-> 0, answered |-> 0, ended |-> 0]
NoRow == NewRow("none", "none", "absent", None)

Places == {"idle", "create", "reject", "read", "write", "hangup", "recording",
           "durations", "release"}
Idle == [at |-> "idle", op |-> "none", call |-> None, agent |-> None, snap |-> NoRow]
EslNames == {"ANSWER", "BRIDGE", "PARK", "HANGUP", "HANGUP_COMPLETE"}

TypeOK ==
    /\ row \in [Calls -> Row]
    /\ sess \in [Workers -> [at : Places, op : AllOps \cup AllKinds \cup {"none", "save"},
                             call : Calls \cup {None}, agent : Agents \cup {None},
                             snap : Row]]
    /\ channel \in [Calls -> {"none", "up", "down"}]
    /\ reported \subseteq Calls \X FsEvents
    /\ events \in [Listeners -> Seq(Calls \X EslNames)]
    /\ slots \in Int
    /\ ends \in [Calls -> Nat]
    /\ hooks \in [Calls -> Nat]
    /\ faults \in 0..MaxFaults

Init ==
    /\ row = [c \in Calls |-> NoRow]
    /\ sess = [s \in Workers |-> Idle]
    /\ channel = [c \in Calls |-> "none"]
    /\ reported = {}
    /\ events = [l \in Listeners |-> <<>>]
    /\ slots = 0
    /\ ends = [c \in Calls |-> 0]
    /\ hooks = [c \in Calls |-> 0]
    /\ faults = 0

-----------------------------------------------------------------------------
(***************************************************************************)
(* The operations of CallService. Each one, applied to the row it has      *)
(* read, is the set of rows it goes on to write: empty when it refuses.    *)
(***************************************************************************)
When(guard, new) == IF guard THEN {new} ELSE {}

\* Mutant: a status that the schema does not know.
MutantEndCallStatus(r) ==
    When(r.status # "completed", [r EXCEPT !.status = "ended", !.ended = 1])

\* EndCall: not twice.
EndCall(r) ==
    When(r.status # "completed", [r EXCEPT !.status = "completed", !.ended = 1])

TransitionToQueue(r) ==
    When(r.status = "ivr", [r EXCEPT !.status = "queue", !.group = 1])

TransitionToRinging(r, a) ==
    When(r.status \in {"queue", "ivr"}, [r EXCEPT !.status = "ringing", !.agent = a])

\* On CHANNEL_BRIDGE; keeps an earlier answered_at.
TransitionToActive(r) ==
    When(r.status \in {"ringing", "queue"}, [r EXCEPT !.status = "active", !.answered = 1])

\* Mutant: answered_at stays NULL.
MutantAnswerCall(r, a) ==
    When(r.status \in {"ringing", "ivr", "queue"},
         [r EXCEPT !.status = "active", !.agent = a])

AnswerCall(r, a) ==
    When(r.status \in {"ringing", "ivr", "queue"},
         [r EXCEPT !.status = "active", !.answered = 1, !.agent = a])

HoldCall(r) == When(r.status = "active", [r EXCEPT !.status = "held"])

RetrieveCall(r) == When(r.status = "held", [r EXCEPT !.status = "active"])

\* Only transfer_count changes.
BlindTransfer(r) == When(r.status # "completed", r)

AttendedTransfer(r) == When(r.status \in {"active", "held"}, r)

InitiateConsult(r) == When(r.status = "active", [r EXCEPT !.status = "consulting"])

CompleteConsultTransfer(r) == When(r.status = "consulting", [r EXCEPT !.status = "active"])

CancelConsult(r) == When(r.status = "consulting", [r EXCEPT !.status = "active"])

StartConference(r) ==
    When(r.status \in {"active", "consulting"}, [r EXCEPT !.status = "conference"])

\* Only disposition_code changes; any status will do.
SetDisposition(r) == {r}

\* Only customer_id changes.
UpdateCustomerID(r) == {r}

Writes(op, r, a) ==
    CASE op = "end"           -> EndCall(r)
      [] op = "queue"         -> TransitionToQueue(r)
      [] op = "ring"          -> TransitionToRinging(r, a)
      [] op = "bridge"        -> TransitionToActive(r)
      [] op = "answer"        -> AnswerCall(r, a)
      [] op = "hold"          -> HoldCall(r)
      [] op = "retrieve"      -> RetrieveCall(r)
      [] op = "transfer"      -> BlindTransfer(r)
      [] op = "attended"      -> AttendedTransfer(r)
      [] op = "consult"       -> InitiateConsult(r)
      [] op = "consultDone"   -> CompleteConsultTransfer(r)
      [] op = "consultCancel" -> CancelConsult(r)
      [] op = "conference"    -> StartConference(r)
      [] op = "disposition"   -> SetDisposition(r)
      [] op = "customer"      -> UpdateCustomerID(r)

-----------------------------------------------------------------------------
Work(s, place, op, c, a, snap) ==
    sess' = [sess EXCEPT ![s] = [at |-> place, op |-> op, call |-> c, agent |-> a, snap |-> snap]]
GoTo(s, place) == sess' = [sess EXCEPT ![s].at = place]
Finish(s) == sess' = [sess EXCEPT ![s] = Idle]
WriteRow(s) == row' = [row EXCEPT ![sess[s].call] = sess[s].snap]
Faulty == faults < MaxFaults /\ faults' = faults + 1

\* FreeSWITCH sends every event to every listener.
Publish(news) == events' = [l \in Listeners |-> events[l] \o news]

\* It ends a channel and tells each of them twice.
HangupEvents(c) == <<<<c, "HANGUP">>, <<c, "HANGUP_COMPLETE">>>>
KillChannel(c) ==
    /\ channel' = [channel EXCEPT ![c] = "down"]
    /\ Publish(HangupEvents(c))
    /\ UNCHANGED reported
KillIfUp(c, uuid) ==
    IF uuid = "exact" /\ channel[c] = "up" THEN KillChannel(c) ELSE UNCHANGED fsVars

-----------------------------------------------------------------------------
(***************************************************************************)
(* Creation of calls.                                                      *)
(***************************************************************************)
Fresh(c) ==
    /\ row[c] = NoRow
    /\ channel[c] = "none"
    /\ \A s \in Sessions : sess[s].call # c

NewChannel(c) ==
    /\ channel' = [channel EXCEPT ![c] = "up"]
    /\ UNCHANGED <<reported, events>>

\* Mutant: one too many.
MutantOverLimit(n) == n > MaxConcurrent + 1

\* ConcurrencyGuard.Acquire, after INCR has made the counter n.
OverLimit(n) == n > MaxConcurrent

\* HandleInboundCall, for a channel that FreeSWITCH has set up: INCR, and what
\* to do next.
HandleInboundCall(s, c) ==
    /\ "inbound" \in Kinds
    /\ sess[s].at = "idle"
    /\ Fresh(c)
    /\ NewChannel(c)
    /\ slots' = slots + 1
    /\ Work(s, IF OverLimit(slots + 1) THEN "reject" ELSE "create", "inbound", c, None,
            NewRow("inbound", "exact", "ivr", None))
    /\ UNCHANGED <<row, ends, hooks, faults>>

\* Redis fails, before or after it has counted: the call goes on (fail open).
AcquireFailsOpen(s, c) ==
    /\ "inbound" \in Kinds
    /\ sess[s].at = "idle"
    /\ Fresh(c)
    /\ Faulty
    /\ NewChannel(c)
    /\ slots' \in {slots, slots + 1}
    /\ Work(s, "create", "inbound", c, None, NewRow("inbound", "exact", "ivr", None))
    /\ UNCHANGED <<row, ends, hooks>>

\* The DECR of a refused Acquire.
RejectInbound(s) ==
    /\ sess[s].at = "reject"
    /\ slots' = slots - 1
    /\ Finish(s)
    /\ UNCHANGED <<row, fsVars, ends, hooks, faults>>

\* CreateOutboundCall: Originate has succeeded.
CreateOutboundCall(s, c, a) ==
    /\ "outbound" \in Kinds
    /\ sess[s].at = "idle"
    /\ Fresh(c)
    /\ NewChannel(c)
    /\ Work(s, "create", "outbound", c, a, NewRow("outbound", OriginateReply, "ringing", a))
    /\ UNCHANGED <<row, slots, ends, hooks, faults>>

\* The call has no channel of its own: the goroutine that bridges the two
\* extensions drops what Originate answers.
CreateInternalCall(s, c, a) ==
    /\ "internal" \in Kinds
    /\ sess[s].at = "idle"
    /\ Fresh(c)
    /\ Work(s, "create", "internal", c, a, NewRow("internal", "none", "ringing", a))
    /\ UNCHANGED <<row, fsVars, slots, ends, hooks, faults>>

\* MonitorCall and CoachCall: a supervisor's leg on call t. It starts active
\* and unanswered.
Supervise(s, c, t, a, statuses) ==
    /\ "monitor" \in Kinds
    /\ sess[s].at = "idle"
    /\ Fresh(c)
    /\ row[t].status \in statuses
    /\ IF row[t].uuid = "none" THEN UNCHANGED fsVars ELSE NewChannel(c)
    /\ Work(s, "create", "monitor", c, a,
            NewRow("monitor", IF row[t].uuid = "none" THEN "none" ELSE OriginateReply, "active", a))
    /\ UNCHANGED <<row, slots, ends, hooks, faults>>

MonitorCall(s, c, t, a) == Supervise(s, c, t, a, {"active", "conference"})

CoachCall(s, c, t, a) == Supervise(s, c, t, a, {"active"})

\* CallRepo.Create.
CreateRow(s) ==
    /\ sess[s].at = "create"
    /\ WriteRow(s)
    /\ Finish(s)
    /\ UNCHANGED <<fsVars, slots, ends, hooks, faults>>

\* Nothing gives the slot back; only a supervisor's channel is hung up.
CreateFails(s) ==
    /\ sess[s].at = "create"
    /\ Faulty
    /\ IF sess[s].op = "monitor" THEN KillIfUp(sess[s].call, sess[s].snap.uuid)
                                 ELSE UNCHANGED fsVars
    /\ Finish(s)
    /\ UNCHANGED <<row, slots, ends, hooks>>

-----------------------------------------------------------------------------
(***************************************************************************)
(* Requests on a call.                                                     *)
(***************************************************************************)

\* Once it has decided what to write, an operation is only that row; what
\* follows the UPDATE depends on whether it ends the call.
ToWrite(s, op, c, new) ==
    Work(s, "write", IF op = "end" THEN "end" ELSE "save", c, None, new)

\* A request reads the row and passes the checks. A refused one changes
\* nothing.
Request(s, op, c, a) ==
    /\ op \in RequestOps
    /\ sess[s].at = "idle"
    /\ row[c] # NoRow
    /\ op = "end" => ends[c] < MaxEnds
    /\ \E new \in Writes(op, row[c], a) : ToWrite(s, op, c, new)
    /\ UNCHANGED <<row, fsVars, slots, ends, hooks, faults>>

\* The UPDATE of the operation. EndCall is only the beginning of
\* lifecycle.EndCall.
Save(s) ==
    /\ sess[s].at = "write"
    /\ WriteRow(s)
    /\ IF sess[s].op = "end"
       THEN GoTo(s, "hangup") /\ ends' = [ends EXCEPT ![sess[s].call] = @ + 1]
       ELSE Finish(s) /\ UNCHANGED ends
    /\ UNCHANGED <<fsVars, slots, hooks, faults>>

\* The command to FreeSWITCH or the UPDATE fails: the operation returns.
SaveFails(s) ==
    /\ sess[s].at = "write"
    /\ Faulty
    /\ Finish(s)
    /\ UNCHANGED <<row, fsVars, slots, ends, hooks>>

\* lifecycle.EndCall: uuid_kill, whose error is ignored;
HangupChannel(s) ==
    /\ sess[s].at = "hangup"
    /\ KillIfUp(sess[s].call, sess[s].snap.uuid)
    /\ GoTo(s, "recording")
    /\ UNCHANGED <<row, slots, ends, hooks, faults>>

\* Mutant: the row as it was before the call ended.
MutantSaveRecording(s) ==
    /\ sess[s].at = "recording"
    /\ IF sess[s].snap.answered = 1 /\ sess[s].snap.uuid # "none"
       THEN row' = [row EXCEPT ![sess[s].call] = [sess[s].snap EXCEPT !.status = "active", !.ended = 0]]
       ELSE UNCHANGED row
    /\ GoTo(s, "durations")
    /\ UNCHANGED <<fsVars, slots, ends, hooks, faults>>

\* the whole row again, with the recording, if the call was answered;
SaveRecording(s) ==
    /\ sess[s].at = "recording"
    /\ IF sess[s].snap.answered = 1 /\ sess[s].snap.uuid # "none" THEN WriteRow(s)
                                                                ELSE UNCHANGED row
    /\ GoTo(s, "durations")
    /\ UNCHANGED <<fsVars, slots, ends, hooks, faults>>

\* and again, with the durations;
SaveDurations(s) ==
    /\ sess[s].at = "durations"
    /\ WriteRow(s)
    /\ GoTo(s, "release")
    /\ UNCHANGED <<fsVars, slots, ends, hooks, faults>>

\* (an error of these UPDATEs is logged)
RewriteFails(s) ==
    /\ sess[s].at \in {"recording", "durations"}
    /\ Faulty
    /\ GoTo(s, IF sess[s].at = "recording" THEN "durations" ELSE "release")
    /\ UNCHANGED <<row, fsVars, slots, ends, hooks>>

\* Mutant: the slot is released by EndCall and once more by the hooks.
MutantReleaseSlot(s) ==
    /\ sess[s].at = "release"
    /\ slots' = slots - 2
    /\ hooks' = [hooks EXCEPT ![sess[s].call] = IF sess[s].snap.agent # None THEN @ + 1 ELSE @]
    /\ Finish(s)
    /\ UNCHANGED <<row, fsVars, ends, faults>>

\* the hooks' goroutine, and DECR: whatever the kind of the call.
ReleaseSlot(s) ==
    /\ sess[s].at = "release"
    /\ slots' = slots - 1
    /\ hooks' = [hooks EXCEPT ![sess[s].call] = IF sess[s].snap.agent # None THEN @ + 1 ELSE @]
    /\ Finish(s)
    /\ UNCHANGED <<row, fsVars, ends, faults>>

\* postCallHooksAsync: of its effects only UpdateCustomerID touches the call.
PostCallHooks(s, c) ==
    /\ sess[s].at = "idle"
    /\ hooks[c] > 0
    /\ hooks' = [hooks EXCEPT ![c] = @ - 1]
    /\ \E new \in Writes("customer", row[c], None) : ToWrite(s, "customer", c, new)
    /\ UNCHANGED <<row, fsVars, slots, ends, faults>>

-----------------------------------------------------------------------------
(***************************************************************************)
(* The ESL event listeners: one goroutine per process, one event at a      *)
(* time. All of them hear of a channel, whichever process made the call.   *)
(***************************************************************************)

\* Mutant: CHANNEL_HANGUP_COMPLETE is not handled.
MutantOpOf(name, r) ==
    CASE name = "ANSWER" /\ r.answered = 0 /\ r.agent # None -> "answer"
      [] name = "BRIDGE" /\ r.status \in {"ringing", "queue"} -> "bridge"
      [] name = "HANGUP" /\ r.status # "completed" -> "end"
      [] OTHER -> "none"

\* HandleESLEvent: the operation that event name leads to on row r ("none":
\* the event is dropped).
OpOf(name, r) ==
    CASE name = "ANSWER" /\ r.answered = 0 /\ r.agent # None -> "answer"
      [] name = "BRIDGE" /\ r.status \in {"ringing", "queue"} -> "bridge"
      [] name = "PARK" /\ r.status = "ivr" /\ r.group = 1 -> "queue"
      [] name \in {"HANGUP", "HANGUP_COMPLETE"} /\ r.status # "completed" -> "end"
      [] OTHER -> "none"

\* FindByChannelUUID and the checks of HandleESLEvent.
HandleESLEvent(l) ==
    /\ sess[l].at = "idle"
    /\ events[l] # <<>>
    /\ LET c == Head(events[l])[1]
           op == IF row[c].uuid = "exact" THEN OpOf(Head(events[l])[2], row[c]) ELSE "none"
       IN IF op = "none" THEN UNCHANGED sess
                         ELSE Work(l, "read", op, c, row[c].agent, NoRow)
    /\ events' = [events EXCEPT ![l] = Tail(@)]
    /\ UNCHANGED <<row, channel, reported, slots, ends, hooks, faults>>

\* The operation reads the row once more.
ListenerRead(l) ==
    /\ sess[l].at = "read"
    /\ LET c == sess[l].call
           new == Writes(sess[l].op, row[c], sess[l].agent)
       IN IF new = {} THEN Finish(l)
          ELSE \E n \in new : ToWrite(l, sess[l].op, c, n)
    /\ UNCHANGED <<row, fsVars, slots, ends, hooks, faults>>

\* The connection breaks: what is on its way is lost.
ListenerDisconnect(l) ==
    /\ Lossy
    /\ Faulty
    /\ events[l] # <<>>
    /\ events' = [events EXCEPT ![l] = <<>>]
    /\ UNCHANGED <<row, sess, channel, reported, slots, ends, hooks>>

-----------------------------------------------------------------------------
(***************************************************************************)
(* FreeSWITCH.                                                             *)
(***************************************************************************)
FsReport(c, e) ==
    /\ channel[c] = "up"
    /\ <<c, e>> \notin reported
    /\ reported' = reported \cup {<<c, e>>}
    /\ Publish(<<<<c, e>>>>)
    /\ UNCHANGED <<row, sess, channel, slots, ends, hooks, faults>>

FsHangup(c) ==
    /\ channel[c] = "up"
    /\ KillChannel(c)
    /\ UNCHANGED <<row, sess, slots, ends, hooks, faults>>

-----------------------------------------------------------------------------
Continue(s) ==
    \/ RejectInbound(s) \/ CreateRow(s) \/ Save(s) \/ HangupChannel(s)
    \/ SaveRecording(s) \/ SaveDurations(s) \/ ReleaseSlot(s)

StepFails(s) == CreateFails(s) \/ SaveFails(s) \/ RewriteFails(s)

Next ==
    \/ \E s \in Sessions, c \in Calls :
        \/ HandleInboundCall(s, c)
        \/ AcquireFailsOpen(s, c)
        \/ PostCallHooks(s, c)
        \/ \E a \in Agents :
            \/ CreateOutboundCall(s, c, a)
            \/ CreateInternalCall(s, c, a)
            \/ \E op \in RequestOps : Request(s, op, c, a)
            \/ \E t \in Calls : MonitorCall(s, c, t, a) \/ CoachCall(s, c, t, a)
    \/ \E w \in Workers : Continue(w) \/ StepFails(w)
    \/ \E l \in Listeners : HandleESLEvent(l) \/ ListenerRead(l) \/ ListenerDisconnect(l)
    \/ \E c \in Calls :
        \/ \E e \in FsEvents : FsReport(c, e)
        \/ FsHangup(c)

Spec == Init /\ [][Next]_vars

\* Goroutines run: an operation that has begun goes on, and each listener takes
\* its next event. Nobody has to call, to hang up or to fail.
Fairness ==
    /\ \A w \in Workers : WF_vars(Continue(w))
    /\ \A l \in Listeners : WF_vars(HandleESLEvent(l)) /\ WF_vars(ListenerRead(l))

FairSpec == Spec /\ Fairness

-----------------------------------------------------------------------------
(***************************************************************************)
(* Properties.                                                             *)
(***************************************************************************)
Talking == {"active", "held", "consulting", "conference"}

ConsistentRow(r) ==
    /\ r.status = "completed" <=> r.ended = 1
    /\ r.status \in Talking /\ r.kind # "monitor" => r.answered = 1
    /\ r.kind \notin {"none", "inbound"} => r.agent # None
    /\ r.status = "ringing" => r.agent # None
    /\ r.status = "queue" => r.group = 1
    /\ r.status = "absent" <=> r = NoRow

(* However requests, hooks and events overwrite one another with rows read   *)
(* earlier, a stored row makes sense: completed and ended_at go together, a  *)
(* conversation was answered (a supervisor's leg aside), a ringing call and  *)
(* a leg of ours have an agent, a queued call has a skill group.             *)
RowConsistent == \A c \in Calls : ConsistentRow(row[c])

(* The counter overshoots max_concurrent_calls only while refused Acquires   *)
(* have not yet taken back their INCR (or after a Redis error).              *)
SlotsBounded ==
    slots <= MaxConcurrent + faults + Cardinality({s \in Sessions : sess[s].at = "reject"})

(* EndCall succeeds at most once per call: its side effects (hangup, ACW,    *)
(* webhook, CRM record, campaign writeback, Release) happen once. What       *)
(* callers expect; the code does not keep it.                                *)
EndedOnce == \A c \in Calls : ends[c] <= 1

\* The call has ended, and nobody is about to write a copy of its row that was
\* read before: none that is still open, none that is to end it once more.
Settled(c) ==
    /\ row[c].status = "completed"
    /\ \A w \in Workers :
        sess[w].call = c /\ sess[w].at = "write" =>
            sess[w].op # "end" /\ sess[w].snap.status = "completed"

(* An end is final as soon as nobody holds an earlier copy of the row: from  *)
(* then on no request, hook, repeated event or listener of another process   *)
(* reopens the call or ends it again. A call ends twice, or comes back, only *)
(* by the hand of somebody who read it before it ended.                      *)
EndedIsFinal ==
    [][\A c \in Calls : Settled(c) => Settled(c)' /\ ends'[c] = ends[c]]_vars

Open == {c \in Calls : row[c].status \notin {"absent", "completed"}}
OpenInbound == {c \in Open : row[c].kind = "inbound"}

(* No more inbound calls are open than max_concurrent_calls (Redis errors    *)
(* aside, which let a call in). What the guard is for; the code does not     *)
(* keep it.                                                                  *)
LimitRespected == Cardinality(OpenInbound) <= MaxConcurrent + faults

\* The ends whose Release gives back a slot that nobody had: the second and
\* later ends of an inbound call, every end of another call.
SurplusEnds ==
    UNION {{<<c, n>> : n \in {i \in 1..ends[c] : i > 1 \/ row[c].kind # "inbound"}} : c \in Calls}

(* However many processes end the same calls, max_concurrent_calls is        *)
(* exceeded by no more than one call per Redis error and per surplus end     *)
(* (and the calls that came back after their end, which have given back      *)
(* their slot).                                                              *)
OverLimitAccounted ==
    Cardinality({c \in OpenInbound : ends[c] = 0}) <=
        MaxConcurrent + faults + Cardinality(SurplusEnds)

(* When FreeSWITCH reports the hangup of a call whose row exists, the call   *)
(* becomes completed, even if one statement fails on the way: the second     *)
(* event (CHANNEL_HANGUP_COMPLETE) repeats the attempt.                      *)
HangupCompletes ==
    \A c \in Calls :
        (/\ row[c].uuid = "exact"
         /\ \E l \in Listeners : \E i \in DOMAIN events[l] : events[l][i] = <<c, "HANGUP">>)
            ~> row[c].status = "completed"
=============================================================================
