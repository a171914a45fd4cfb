--------------------------- MODULE AgentPresence ---------------------------
(***************************************************************************)
(* The presence of one agent: its row in agent_presence and the ACW timers *)
(* of AgentPresenceService (domain/identity). HTTP requests, the call      *)
(* lifecycle, the timers and the ghost sweep read the row, decide, and     *)
(* write all of it back (Upsert) without a lock; only the map of timers is *)
(* under a mutex. Agents share nothing but that mutex, so one is enough.   *)
(*                                                                         *)
(* Of a row the model keeps the status and whether it is old enough for    *)
(* the sweep. The presence and shift logs, which nothing here reads, and   *)
(* the notifications of a change are left out.                             *)
(***************************************************************************)
EXTENDS Naturals, FiniteSets

CONSTANTS
    Sessions,   \* goroutines that run requests and lifecycle steps
    Timers,     \* bound: ACW timer goroutines that exist at the same time
    Sweeper,    \* the goroutine of the ghost sweep
    None,
    MaxFaults   \* bound: failing statements, lookups and restarts

Actors == Sessions \cup Timers \cup {Sweeper}

ASSUME PresenceAssumption ==
    /\ Sessions \cap Timers = {}
    /\ Sweeper \notin Sessions \cup Timers
    /\ None \notin Timers
    /\ IsFiniteSet(Timers)
    /\ MaxFaults \in Nat

VARIABLES
    row,      \* agent_presence
    act,      \* what each goroutine is doing
    reg,      \* acwTimers[agent]: the registered timer, or None
    closes,   \* per timer, how often its stop channel has been closed
    noTimer,  \* whether the agent is in ACW by a way that starts no timer, or
              \* with a timer lost to a failure
    faults

vars == <<row, act, reg, closes, noTimer, faults>>

Status == {"offline", "online", "idle", "dialing", "talking", "acw", "break"}
Row == [status : Status \cup {"none"}, old : BOOLEAN]
NoRow == [status |-> "none", old |-> FALSE]
Now(status) == [status |-> status, old |-> FALSE]

\* What a goroutine does: "move" and "acw" are TransitionTo, and SetACW and
\* SetBreak, which call it; "put" stands for the operations that write the row
\* without looking at the timers. row.new is what will be written.
Places == {"idle", "wait", "read", "cancel", "write", "rewrite", "schedule", "cleanup"}
Idle == [at |-> "idle", op |-> "none", new |-> NoRow]

TypeOK ==
    /\ row \in Row
    /\ act \in [Actors -> [at : Places, op : {"none", "move", "break", "acw", "put"}, new : Row]]
    /\ reg \in Timers \cup {None}
    /\ closes \in [Timers -> Nat]
    /\ noTimer \in BOOLEAN
    /\ faults \in 0..MaxFaults

Init ==
    /\ row = NoRow
    /\ act = [a \in Actors |-> Idle]
    /\ reg = None
    /\ closes = [t \in Timers |-> 0]
    /\ noTimer = FALSE
    /\ faults = 0

Begin(a, place, op, new) == act' = [act EXCEPT ![a] = [at |-> place, op |-> op, new |-> new]]
GoTo(a, place) == act' = [act EXCEPT ![a].at = place]

\* Where a goroutine goes when it is done with the row: a timer has to clean up.
Leave(a) ==
    IF a \in Timers THEN GoTo(a, "cleanup") ELSE act' = [act EXCEPT ![a] = Idle]

-----------------------------------------------------------------------------
(***************************************************************************)
(* The operations, up to the decision what to write.                       *)
(***************************************************************************)

\* Mutant: no way from ACW to idle.
MutantIsValidTransition(from, to) ==
    to \in CASE from = "offline" -> {"online"}
             [] from = "online"  -> {"idle", "offline"}
             [] from = "idle"    -> {"dialing", "talking", "break", "offline"}
             [] from = "dialing" -> {"talking", "acw", "idle", "offline"}
             [] from = "talking" -> {"acw", "idle", "offline"}
             [] from = "break"   -> {"idle", "offline"}
             [] from = "acw"     -> {"offline"}
             [] OTHER            -> {}

isValidTransition(from, to) ==
    to \in CASE from = "offline" -> {"online"}
             [] from = "online"  -> {"idle", "offline"}
             [] from = "idle"    -> {"dialing", "talking", "break", "offline"}
             [] from = "dialing" -> {"talking", "acw", "idle", "offline"}
             [] from = "talking" -> {"acw", "idle", "offline"}
             [] from \in {"acw", "break"} -> {"idle", "offline"}
             [] OTHER            -> {}

\* Mutant: a status that the table does not know.
MutantCheckIn(s) ==
    /\ act[s].at = "idle"
    /\ Begin(s, "write", "put", Now("checked_in"))
    /\ UNCHANGED <<row, reg, closes, noTimer, faults>>

\* CheckIn: online, whatever was before.
CheckIn(s) ==
    /\ act[s].at = "idle"
    /\ Begin(s, "write", "put", Now("online"))
    /\ UNCHANGED <<row, reg, closes, noTimer, faults>>

CheckOut(s) ==
    /\ act[s].at = "idle"
    /\ row # NoRow
    /\ Begin(s, "write", "put", Now("offline"))
    /\ UNCHANGED <<row, reg, closes, noTimer, faults>>

\* A change of status asked for by the agent (Transition, ChangeStatus), or by
\* the lifecycle (dialing, talking). A refused one changes nothing.
TransitionTo(s, status, op) ==
    /\ act[s].at = "idle"
    /\ isValidTransition(row.status, status)
    /\ Begin(s, "cancel", op, Now(status))
    /\ UNCHANGED <<row, reg, closes, noTimer, faults>>

SetBreak(s) == TransitionTo(s, "break", "break")

\* The bound on timers leaves one for every SetACW in progress.
SetACW(s) ==
    /\ Cardinality({a \in Sessions : act[a].op = "acw"})
         < Cardinality({t \in Timers : act[t].at = "idle"})
    /\ TransitionTo(s, "acw", "acw")

\* SetSubState and SwitchWorkMode: the status is written back as it was read.
\* updated_at is new, last_status_at is not.
SwitchWorkMode(s) ==
    /\ act[s].at = "idle"
    /\ row # NoRow
    /\ Begin(s, "write", "put",
             [row EXCEPT !.old = @ /\ row.status \in {"talking", "dialing"}])
    /\ UNCHANGED <<row, reg, closes, noTimer, faults>>

\* ResetGhostAgents, for a row that is old enough.
ResetGhostAgents ==
    /\ act[Sweeper].at = "idle"
    /\ row.old
    /\ \/ /\ row.status \in {"talking", "dialing"}
          /\ Begin(Sweeper, "write", "put", Now("idle"))
       \/ /\ row.status \in {"online", "idle", "acw"}
          /\ Begin(Sweeper, "write", "put", Now("offline"))
    /\ UNCHANGED <<row, reg, closes, noTimer, faults>>

-----------------------------------------------------------------------------
(***************************************************************************)
(* Timers and writes.                                                      *)
(***************************************************************************)
Closed == IF reg = None THEN closes ELSE [closes EXCEPT ![reg] = @ + 1]

\* Mutant: the entry stays in the map.
MutantCancelACWTimer(a) ==
    /\ act[a].at = "cancel"
    /\ closes' = Closed
    /\ GoTo(a, "write")
    /\ UNCHANGED <<row, reg, noTimer, faults>>

\* In TransitionTo, before the write.
cancelACWTimer(a) ==
    /\ act[a].at = "cancel"
    /\ closes' = Closed
    /\ reg' = None
    /\ GoTo(a, "write")
    /\ UNCHANGED <<row, noTimer, faults>>

\* Writing x for operation op: does it leave the agent in ACW without a timer?
WithoutTimer(op, x) ==
    /\ x.status = "acw"
    /\ \/ op = "move"
       \/ op = "put" /\ (row.status = "acw" => noTimer)

\* Upsert. SetBreak and SetACW write once more.
Upsert(a) ==
    /\ act[a].at = "write"
    /\ row' = act[a].new
    /\ noTimer' = WithoutTimer(act[a].op, act[a].new)
    /\ IF act[a].op \in {"break", "acw"} THEN GoTo(a, "rewrite") ELSE Leave(a)
    /\ UNCHANGED <<reg, closes, faults>>

\* The second Upsert: the reason of the break, the disposition of the call.
UpsertAgain(s) ==
    /\ act[s].at = "rewrite"
    /\ row' = act[s].new
    /\ noTimer' = WithoutTimer(act[s].op, act[s].new)
    /\ IF act[s].op = "acw" THEN GoTo(s, "schedule") ELSE Leave(s)
    /\ UNCHANGED <<reg, closes, faults>>

\* A new timer t takes the place of the registered one.
scheduleACWTimeout(s, t) ==
    /\ act[s].at = "schedule"
    /\ act[t].at = "idle"
    /\ closes' = Closed
    /\ reg' = t
    /\ act' = [act EXCEPT ![s] = Idle, ![t] = [Idle EXCEPT !.at = "wait"]]
    /\ UNCHANGED <<row, noTimer, faults>>

\* Mutant: a timer whose entry is gone does nothing.
MutantTimerExpires(t) ==
    /\ act[t].at = "wait"
    /\ GoTo(t, IF reg = t THEN "read" ELSE "cleanup")
    /\ UNCHANGED <<row, reg, closes, noTimer, faults>>

\* The timer's goroutine: acw_seconds are over (select may choose this case
\* even if the stop channel has been closed),
TimerExpires(t) ==
    /\ act[t].at = "wait"
    /\ GoTo(t, "read")
    /\ UNCHANGED <<row, reg, closes, noTimer, faults>>

\* or it is stopped;
TimerStopped(t) ==
    /\ act[t].at = "wait"
    /\ closes[t] > 0
    /\ GoTo(t, "cleanup")
    /\ UNCHANGED <<row, reg, closes, noTimer, faults>>

\* TransitionTo(idle), from whatever status the agent has;
TimerRead(t) ==
    /\ act[t].at = "read"
    /\ IF isValidTransition(row.status, "idle") THEN Begin(t, "cancel", "move", Now("idle"))
                                                ELSE GoTo(t, "cleanup")
    /\ UNCHANGED <<row, reg, closes, noTimer, faults>>

\* in the end it deletes the entry of the map, which may be another timer's
\* (its own stop channel is garbage now).
TimerCleanup(t) ==
    /\ act[t].at = "cleanup"
    /\ reg' = None
    /\ closes' = [closes EXCEPT ![t] = 0]
    /\ act' = [act EXCEPT ![t] = Idle]
    /\ UNCHANGED <<row, noTimer, faults>>

-----------------------------------------------------------------------------
Faulty == faults < MaxFaults /\ faults' = faults + 1
InACW == row.status = "acw"

\* A statement fails; whoever was changing the status gives up, also if it has
\* cancelled the timer already.
DbFails(a) ==
    /\ act[a].at \in {"read", "write", "rewrite"}
    /\ Faulty
    /\ noTimer' = IF act[a].op = "put" THEN noTimer ELSE InACW
    /\ Leave(a)
    /\ UNCHANGED <<row, reg, closes>>

\* The lookups of acw_seconds fail, or it is 0 for agent and tenant.
ResolverFails(s) ==
    /\ act[s].at = "schedule"
    /\ Faulty
    /\ noTimer' = InACW
    /\ Leave(s)
    /\ UNCHANGED <<row, reg, closes>>

\* Timers are in memory only.
Restart ==
    /\ Faulty
    /\ act' = [a \in Actors |-> Idle]
    /\ reg' = None
    /\ closes' = [t \in Timers |-> 0]
    /\ noTimer' = InACW
    /\ UNCHANGED row

\* Hours pass without a change of the row: every request, timer and sweep that
\* was under way is over by then.
Age ==
    /\ row # NoRow
    /\ \A a \in Actors : act[a].at = "idle"
    /\ ~row.old
    /\ row' = [row EXCEPT !.old = TRUE]
    /\ UNCHANGED <<act, reg, closes, noTimer, faults>>

-----------------------------------------------------------------------------
Request(s) ==
    \/ CheckIn(s) \/ CheckOut(s) \/ SetBreak(s) \/ SetACW(s) \/ SwitchWorkMode(s)
    \/ \E status \in Status : TransitionTo(s, status, "move")

Continue(a) == cancelACWTimer(a) \/ Upsert(a)

ContinueSession(s) ==
    UpsertAgain(s) \/ \E t \in Timers : scheduleACWTimeout(s, t)

TimerStep(t) == TimerExpires(t) \/ TimerStopped(t) \/ TimerRead(t) \/ TimerCleanup(t)

Next ==
    \/ \E s \in Sessions : Request(s) \/ ContinueSession(s) \/ ResolverFails(s)
    \/ \E t \in Timers : TimerStep(t)
    \/ \E a \in Actors : Continue(a) \/ DbFails(a)
    \/ ResetGhostAgents
    \/ Restart
    \/ Age

Spec == Init /\ [][Next]_vars

\* Goroutines run and timers expire. Nobody has to ask for anything, and no
\* property may count on the sweep, which comes after hours.
Fairness ==
    /\ \A a \in Actors : WF_vars(Continue(a))
    /\ \A s \in Sessions : WF_vars(ContinueSession(s))
    /\ \A t \in Timers : WF_vars(TimerStep(t))

FairSpec == Spec /\ Fairness

-----------------------------------------------------------------------------
(***************************************************************************)
(* Properties.                                                             *)
(***************************************************************************)

(* No stop channel is closed twice (the process would panic), although       *)
(* timers are cancelled by every transition, replaced by every SetACW, and   *)
(* remove each other's entries from the map.                                 *)
StopClosedOnce == \A t \in Timers : closes[t] <= 1

\* Goroutine a will take the agent out of ACW, or start a timer, or admit that
\* there is none.
EndsACW(a) ==
    \/ a \in Timers /\ act[a].at = "wait" /\ closes[a] = 0
    \/ act[a].at = "read"
    \/ act[a].at \in {"cancel", "write"} /\ act[a].op # "put"
    \/ act[a].at \in {"rewrite", "schedule"} /\ act[a].op = "acw"

(* Whenever the agent is in ACW, a timer that nobody has stopped is running, *)
(* or somebody is on the way to starting one or to another status. (Not so   *)
(* after a failure, a restart, a plain change of status to acw, or a write   *)
(* that brings back an ACW which was over: noTimer.)                         *)
ACWTimed == InACW /\ ~noTimer => \E a \in Actors : EndsACW(a)

(* After-call work ends by itself.                                           *)
ACWEnds == (InACW /\ ~noTimer) ~> (~InACW \/ noTimer)
=============================================================================
