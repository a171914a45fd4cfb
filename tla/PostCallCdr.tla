----------------------------- MODULE PostCallCdr -----------------------------
(***************************************************************************)
(* The daily call statistics: lifecycle.EndCall publishes ccc.call.ended   *)
(* to JetStream, the workers of package postcall consume it, and a daily   *)
(* reconciler looks for calls that were missed. Both fold a call into      *)
(* daily_cdr_summary in a transaction that first inserts the call into     *)
(* cdr_processed_calls.                                                    *)
(*                                                                         *)
(* Delivery is at least once: a message is delivered again after AckWait   *)
(* or a Nak, at most MaxDeliver times. Any statement, commit or publish    *)
(* may fail, a commit may succeed although its caller sees an error, and   *)
(* the server may be restarted at any moment.                              *)
(***************************************************************************)
EXTENDS Integers, FiniteSets

CONSTANTS
    Calls,
    Workers,     \* server instances that share the durable consumer
    Reconciler,  \* the reconciler's goroutine
    None,
    MaxDay,      \* bound: the last day
    MaxEnds,     \* bound: how often EndCall succeeds for a call (two EndCalls
                 \* can race, see CallLifecycle)
    MaxDeliver,  \* ConsumerConfig.MaxDeliver
    MaxFaults    \* bound: failures

Days == 0..MaxDay
Actors == Workers \cup {Reconciler}
Msgs == Calls \X (1..MaxEnds)

ASSUME CdrAssumption ==
    /\ IsFiniteSet(Calls)
    /\ Reconciler \notin Workers
    /\ None \notin Calls \cup Actors \cup Msgs
    /\ None \notin Int
    /\ MaxDay \in Nat
    /\ MaxEnds \in Nat
    /\ MaxDeliver \in Nat \ {0}
    /\ MaxFaults \in Nat

VARIABLES
    day,         \* today
    reconciled,  \* whether today's run of the reconciler is over
    start,       \* calls.started_at: a day or None
    ended,       \* calls.ended_at: a day or None
    ending,      \* calls of which an EndCall is between its UPDATE and publish
    ends,        \* per call, how many EndCalls have published or failed to
    stream,      \* messages: "none", "ready", "pending" (delivered), "gone"
    tries,       \* deliveries of a message
    act,         \* what workers and reconciler are doing
    todo,        \* the calls that the reconciler's query returned
    lock,        \* cdr_processed_calls: who has inserted a call, uncommitted
    processed,   \* cdr_processed_calls, committed
    summary,     \* daily_cdr_summary: calls per day
    faults

vars == <<day, reconciled, start, ended, ending, ends, stream, tries, act, todo,
          lock, processed, summary, faults>>
callVars == <<start, ended, ending, ends>>
natsVars == <<stream, tries>>
dbVars == <<lock, processed, summary>>

Idle == [at |-> "idle", call |-> None, msg |-> None]

TypeOK ==
    /\ day \in Days
    /\ reconciled \in BOOLEAN
    /\ start \in [Calls -> Days \cup {None}]
    /\ ended \in [Calls -> Days \cup {None}]
    /\ ending \subseteq Calls
    /\ ends \in [Calls -> 0..MaxEnds]
    /\ stream \in [Msgs -> {"none", "ready", "pending", "gone"}]
    /\ tries \in [Msgs -> 0..MaxDeliver]
    /\ act \in [Actors -> [at : {"idle", "scan", "insert", "commit", "ok", "error"},
                           call : Calls \cup {None}, msg : Msgs \cup {None}]]
    /\ todo \subseteq Calls
    /\ lock \in [Calls -> Actors \cup {None}]
    /\ processed \subseteq Calls
    /\ summary \in [Days -> Nat]
    /\ faults \in 0..MaxFaults

Init ==
    /\ day = 0
    /\ reconciled = FALSE
    /\ start = [c \in Calls |-> None]
    /\ ended = [c \in Calls |-> None]
    /\ ending = {}
    /\ ends = [c \in Calls |-> 0]
    /\ stream = [m \in Msgs |-> "none"]
    /\ tries = [m \in Msgs |-> 0]
    /\ act = [a \in Actors |-> Idle]
    /\ todo = {}
    /\ lock = [c \in Calls |-> None]
    /\ processed = {}
    /\ summary = [d \in Days |-> 0]
    /\ faults = 0

Faulty == faults < MaxFaults /\ faults' = faults + 1

-----------------------------------------------------------------------------
(***************************************************************************)
(* Calls, as far as the statistics see them.                               *)
(***************************************************************************)
StartCall(c) ==
    /\ start[c] = None
    /\ start' = [start EXCEPT ![c] = day]
    /\ UNCHANGED <<day, reconciled, ended, ending, ends, natsVars, act, todo, dbVars, faults>>

\* The UPDATE that ends the call (for the first time, or once more).
EndCall(c) ==
    /\ start[c] # None
    /\ c \notin ending
    /\ ends[c] < MaxEnds
    /\ ended' = [ended EXCEPT ![c] = IF @ = None THEN day ELSE @]
    /\ ending' = ending \cup {c}
    /\ UNCHANGED <<day, reconciled, start, ends, natsVars, act, todo, dbVars, faults>>

\* The last step of lifecycle.EndCall.
Publish(c) ==
    /\ c \in ending
    /\ ending' = ending \ {c}
    /\ ends' = [ends EXCEPT ![c] = @ + 1]
    /\ stream' = [stream EXCEPT ![<<c, ends[c] + 1>>] = "ready"]
    /\ UNCHANGED <<day, reconciled, start, ended, tries, act, todo, dbVars, faults>>

\* The error of Publish is dropped.
PublishFails(c) ==
    /\ c \in ending
    /\ Faulty
    /\ ending' = ending \ {c}
    /\ ends' = [ends EXCEPT ![c] = @ + 1]
    /\ UNCHANGED <<day, reconciled, start, ended, natsVars, act, todo, dbVars>>

-----------------------------------------------------------------------------
(***************************************************************************)
(* JetStream and the workers' loop (Consumer.Subscribe).                   *)
(***************************************************************************)
\* Mutant: deliveries without end.
MutantDeliver(w, m) ==
    /\ act[w] = Idle
    /\ stream[m] = "ready"
    /\ stream' = [stream EXCEPT ![m] = "pending"]
    /\ tries' = [tries EXCEPT ![m] = @ + 1]
    /\ act' = [act EXCEPT ![w] = [at |-> "insert", call |-> m[1], msg |-> m]]
    /\ UNCHANGED <<day, reconciled, callVars, todo, dbVars, faults>>

Deliver(w, m) ==
    /\ act[w] = Idle
    /\ stream[m] = "ready"
    /\ tries[m] < MaxDeliver
    /\ stream' = [stream EXCEPT ![m] = "pending"]
    /\ tries' = [tries EXCEPT ![m] = @ + 1]
    /\ act' = [act EXCEPT ![w] = [at |-> "insert", call |-> m[1], msg |-> m]]
    /\ UNCHANGED <<day, reconciled, callVars, todo, dbVars, faults>>

\* AckWait is over; the worker may still be busy with the message.
AckTimeout(m) ==
    /\ stream[m] = "pending"
    /\ tries[m] < MaxDeliver
    /\ stream' = [stream EXCEPT ![m] = "ready"]
    /\ UNCHANGED <<day, reconciled, callVars, tries, act, todo, dbVars, faults>>

\* The handler has returned nil.
Ack(w) ==
    /\ act[w].at = "ok"
    /\ stream' = [stream EXCEPT ![act[w].msg] = "gone"]
    /\ act' = [act EXCEPT ![w] = Idle]
    /\ UNCHANGED <<day, reconciled, callVars, tries, todo, dbVars, faults>>

\* The handler has returned an error.
Nak(w) ==
    /\ act[w].at = "error"
    /\ stream' = [stream EXCEPT ![act[w].msg] = IF @ = "pending" THEN "ready" ELSE @]
    /\ act' = [act EXCEPT ![w] = Idle]
    /\ UNCHANGED <<day, reconciled, callVars, tries, todo, dbVars, faults>>

-----------------------------------------------------------------------------
(***************************************************************************)
(* UpsertDailyCDR, for a worker or the reconciler: one transaction.        *)
(***************************************************************************)
GoTo(a, place) == act' = [act EXCEPT ![a].at = place]
Unlock(a) == lock' = [c \in Calls |-> IF lock[c] = a THEN None ELSE lock[c]]

\* Mutant: INSERT IGNORE, no error for a duplicate.
MutantInsertIgnore(a) ==
    /\ act[a].at = "insert"
    /\ lock[act[a].call] = None
    /\ lock' = [lock EXCEPT ![act[a].call] = a]
    /\ GoTo(a, "commit")
    /\ UNCHANGED <<day, reconciled, callVars, natsVars, todo, processed, summary, faults>>

\* Mutant: SELECT instead of INSERT, nobody waits.
MutantSelectProcessed(a) ==
    /\ act[a].at = "insert"
    /\ act[a].call \notin processed
    /\ lock' = [lock EXCEPT ![act[a].call] = a]
    /\ GoTo(a, "commit")
    /\ UNCHANGED <<day, reconciled, callVars, natsVars, todo, processed, summary, faults>>

\* INSERT INTO cdr_processed_calls: waits for a transaction that has inserted
\* the same call.
InsertProcessed(a) ==
    /\ act[a].at = "insert"
    /\ act[a].call \notin processed
    /\ lock[act[a].call] = None
    /\ lock' = [lock EXCEPT ![act[a].call] = a]
    /\ GoTo(a, "commit")
    /\ UNCHANGED <<day, reconciled, callVars, natsVars, todo, processed, summary, faults>>

\* Duplicate key: already processed.
Duplicate(a) ==
    /\ act[a].at = "insert"
    /\ act[a].call \in processed
    /\ GoTo(a, "ok")
    /\ UNCHANGED <<day, reconciled, callVars, natsVars, todo, dbVars, faults>>

\* Mutant: the bucket of today.
MutantFold(a) ==
    LET c == act[a].call
    IN /\ processed' = processed \cup {c}
       /\ summary' = [summary EXCEPT ![day] = @ + 1]
       /\ Unlock(a)

\* INSERT ... ON DUPLICATE KEY UPDATE of the summary, and COMMIT.
Fold(a) ==
    LET c == act[a].call
    IN /\ processed' = processed \cup {c}
       /\ summary' = [summary EXCEPT ![start[c]] = @ + 1]
       /\ Unlock(a)

Commit(a) ==
    /\ act[a].at = "commit"
    /\ Fold(a)
    /\ GoTo(a, "ok")
    /\ UNCHANGED <<day, reconciled, callVars, natsVars, todo, faults>>

\* The commit has happened, its answer is lost.
CommitAnswerLost(a) ==
    /\ act[a].at = "commit"
    /\ Faulty
    /\ Fold(a)
    /\ GoTo(a, "error")
    /\ UNCHANGED <<day, reconciled, callVars, natsVars, todo>>

\* A statement fails: rollback.
RollBack(a) ==
    /\ act[a].at \in {"insert", "commit"}
    /\ Faulty
    /\ Unlock(a)
    /\ GoTo(a, "error")
    /\ UNCHANGED <<day, reconciled, callVars, natsVars, todo, processed, summary>>

-----------------------------------------------------------------------------
(***************************************************************************)
(* The reconciler: once a day, calls that started yesterday.               *)
(***************************************************************************)
\* Mutant: today's calls.
MutantMissing == {c \in Calls : start[c] = day /\ ended[c] # None /\ c \notin processed}

Missing == {c \in Calls : start[c] = day - 1 /\ ended[c] # None /\ c \notin processed}

ReconcileQuery ==
    /\ ~reconciled
    /\ act[Reconciler] = Idle
    /\ todo' = Missing
    /\ GoTo(Reconciler, "scan")
    /\ UNCHANGED <<day, reconciled, callVars, natsVars, dbVars, faults>>

ReconcileQueryFails ==
    /\ ~reconciled
    /\ act[Reconciler] = Idle
    /\ Faulty
    /\ reconciled' = TRUE
    /\ UNCHANGED <<day, callVars, natsVars, act, todo, dbVars>>

ReconcileRow ==
    /\ act[Reconciler].at = "scan"
    /\ \E c \in todo :
        /\ todo' = todo \ {c}
        /\ act' = [act EXCEPT ![Reconciler] =
                    [at |-> "insert", call |-> c, msg |-> None]]
    /\ UNCHANGED <<day, reconciled, callVars, natsVars, dbVars, faults>>

\* A failed row is logged and skipped.
ReconcileNext ==
    /\ act[Reconciler].at \in {"ok", "error"}
    /\ act' = [act EXCEPT ![Reconciler] = [Idle EXCEPT !.at = "scan"]]
    /\ UNCHANGED <<day, reconciled, callVars, natsVars, todo, dbVars, faults>>

ReconcileEnd ==
    /\ act[Reconciler].at = "scan"
    /\ todo = {}
    /\ act' = [act EXCEPT ![Reconciler] = Idle]
    /\ reconciled' = TRUE
    /\ UNCHANGED <<day, callVars, natsVars, todo, dbVars, faults>>

\* Midnight; the daily run has happened by then.
NextDay ==
    /\ day < MaxDay
    /\ reconciled
    /\ act[Reconciler] = Idle
    /\ day' = day + 1
    /\ reconciled' = FALSE
    /\ UNCHANGED <<callVars, natsVars, act, todo, dbVars, faults>>

\* The servers stop and start again: transactions roll back, what was in
\* memory is gone, the reconciler begins with a run.
Restart ==
    /\ Faulty
    /\ act' = [a \in Actors |-> Idle]
    /\ todo' = {}
    /\ lock' = [c \in Calls |-> None]
    /\ ending' = {}
    /\ ends' = [c \in Calls |-> IF c \in ending THEN ends[c] + 1 ELSE ends[c]]
    /\ reconciled' = FALSE
    /\ UNCHANGED <<day, start, ended, natsVars, processed, summary>>

-----------------------------------------------------------------------------
WorkerStep(w) == (\E m \in Msgs : Deliver(w, m)) \/ Ack(w) \/ Nak(w)

TxStep(a) == InsertProcessed(a) \/ Duplicate(a) \/ Commit(a)

TxFault(a) == CommitAnswerLost(a) \/ RollBack(a)

ReconcileStep == ReconcileQuery \/ ReconcileRow \/ ReconcileNext \/ ReconcileEnd

Next ==
    \/ \E c \in Calls : StartCall(c) \/ EndCall(c) \/ Publish(c) \/ PublishFails(c)
    \/ \E m \in Msgs : AckTimeout(m)
    \/ \E w \in Workers : WorkerStep(w)
    \/ \E a \in Actors : TxStep(a) \/ TxFault(a)
    \/ ReconcileStep
    \/ ReconcileQueryFails
    \/ NextDay
    \/ Restart

Spec == Init /\ [][Next]_vars

\* Goroutines and the server make progress, time passes, and JetStream delivers
\* again what is not acknowledged. Nobody has to call or to hang up.
Fairness ==
    /\ \A c \in Calls : WF_vars(Publish(c))
    /\ \A m \in Msgs : WF_vars(AckTimeout(m))
    /\ \A w \in Workers : WF_vars(WorkerStep(w))
    /\ \A a \in Actors : WF_vars(TxStep(a))
    /\ WF_vars(ReconcileStep)
    /\ WF_vars(NextDay)

FairSpec == Spec /\ Fairness

-----------------------------------------------------------------------------
(***************************************************************************)
(* Properties.                                                             *)
(***************************************************************************)

Ledger == INSTANCE CdrLedger WITH counted <- processed, total <- summary

(* Redeliveries, racing workers, the reconciler, lost answers and restarts   *)
(* look like calls that are each folded in once, into the day on which they  *)
(* started.                                                                  *)
ImplementsLedger == Ledger!Spec

(* daily_cdr_summary has as many calls of a day as cdr_processed_calls.      *)
CountedOnce ==
    \A d \in Days : summary[d] = Cardinality({c \in processed : start[c] = d})

(* A transaction in progress is the only one on its call, and the call is    *)
(* not processed yet.                                                        *)
OneTransaction ==
    \A c \in Calls : \A a \in Actors :
        act[a].at = "commit" /\ act[a].call = c => lock[c] = a /\ c \notin processed

(* A call that ended on the day on which it started gets into the            *)
(* statistics, whichever single failure there is: what the message does not  *)
(* bring, the reconciler finds on the next day.                              *)
SameDayCounted ==
    \A c \in Calls :
        (ended[c] # None /\ ended[c] = start[c] /\ ended[c] < MaxDay) ~> c \in processed

(* Every call that has ended gets into the statistics.                       *)
EveryEndedCounted ==
    \A c \in Calls : (ended[c] # None /\ ended[c] < MaxDay) ~> c \in processed
=============================================================================
