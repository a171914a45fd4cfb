------------------------------ MODULE Callback ------------------------------
(***************************************************************************)
(* Callbacks: requests to be called back (CallService.RequestCallback) and *)
(* the schedulers that attempt them, one in every server process           *)
(* (application/callback/service.go). A tick reads all pending rows and    *)
(* works on its copies; a row is written back as a whole after the call,   *)
(* so a scheduler may overwrite what another one wrote in the meantime.    *)
(* No code sets scheduled_at, so every pending callback is due at once.    *)
(***************************************************************************)
EXTENDS Integers, FiniteSets

CONSTANTS
    Callbacks,    \* ids of callback requests, naturals in order of creation
    Schedulers,   \* server processes
    MaxAttempts,  \* max_attempts, 3 where the row has none
    MaxCbFaults   \* bound: failed UPDATEs and restarts

ASSUME CallbackAssumption ==
    /\ Callbacks \subseteq Nat
    /\ IsFiniteSet(Schedulers)
    /\ MaxAttempts \in Nat \ {0}
    /\ MaxCbFaults \in Nat

VARIABLES
    callbacks,  \* callback_requests
    sched,      \* what each scheduler is doing
    dialled,    \* attempts made for a callback (history)
    reached,    \* callbacks whose call was created (history)
    cbFaults

callbackVars == <<callbacks, sched, dialled, reached, cbFaults>>

NoCallback == [status |-> "none", attempts |-> 0]
CbStatus == {"none", "pending", "retry", "completed", "max_attempts"}
CbRow == [status : CbStatus, attempts : 0..MaxAttempts]
\* list: the rows of the tick still to be processed, as they were read.
Resting == [at |-> "idle", list |-> {}, copy |-> NoCallback, id |-> 0]

CallbackInit ==
    /\ callbacks = [c \in Callbacks |-> NoCallback]
    /\ sched = [s \in Schedulers |-> Resting]
    /\ dialled = [c \in Callbacks |-> 0]
    /\ reached = {}
    /\ cbFaults = 0

RequestCallback(c) ==
    /\ callbacks[c].status = "none"
    /\ callbacks' = [callbacks EXCEPT ![c].status = "pending"]
    /\ UNCHANGED <<sched, dialled, reached, cbFaults>>

\* Mutant: rows to be tried again are forgotten.
MutantListAllPending == {c \in Callbacks : callbacks[c].status = "pending"}

ListAllPending == {c \in Callbacks : callbacks[c].status \in {"pending", "retry"}}

\* ProcessAllPending, on a tick of Run.
ProcessAllPending(s) ==
    /\ sched[s].at = "idle"
    /\ ListAllPending # {}
    /\ sched' = [sched EXCEPT ![s].at = "list",
                    ![s].list = {[id |-> c, row |-> callbacks[c]] : c \in ListAllPending}]
    /\ UNCHANGED <<callbacks, dialled, reached, cbFaults>>

First(list) == CHOOSE e \in list : \A f \in list : e.id <= f.id

\* Mutant: the limit is compared one too late.
MutantTake(s) ==
    LET e == First(sched[s].list) IN
    /\ sched[s].at = "list" /\ sched[s].list # {}
    /\ sched' = [sched EXCEPT ![s].list = @ \ {e}, ![s].id = e.id,
          ![s].at = IF e.row.attempts > MaxAttempts THEN "write" ELSE "dial",
          ![s].copy = e.row]
    /\ UNCHANGED <<callbacks, dialled, reached, cbFaults>>

\* Mutant: the limit is compared one too early.
MutantTakeEarly(s) ==
    LET e == First(sched[s].list)
        spent == e.row.attempts + 1 >= MaxAttempts
    IN  /\ sched[s].at = "list" /\ sched[s].list # {}
        /\ sched' = [sched EXCEPT ![s].list = @ \ {e}, ![s].id = e.id,
              ![s].at = IF spent THEN "write" ELSE "dial",
              ![s].copy = IF spent THEN [e.row EXCEPT !.status = "max_attempts"] ELSE e.row]
        /\ UNCHANGED <<callbacks, dialled, reached, cbFaults>>

\* The next row of processList: it is given up, or attempted.
TakeCallback(s) ==
    LET e == First(sched[s].list)
        spent == e.row.attempts >= MaxAttempts
    IN  /\ sched[s].at = "list" /\ sched[s].list # {}
        /\ sched' = [sched EXCEPT ![s].list = @ \ {e}, ![s].id = e.id,
              ![s].at = IF spent THEN "write" ELSE "dial",
              ![s].copy = IF spent THEN [e.row EXCEPT !.status = "max_attempts"] ELSE e.row]
        /\ UNCHANGED <<callbacks, dialled, reached, cbFaults>>

\* Mutant: a failed attempt is not counted.
MutantAttemptCallback(s, ok) ==
    LET c == sched[s].id IN
    /\ sched[s].at = "dial"
    /\ dialled' = [dialled EXCEPT ![c] = @ + 1]
    /\ reached' = IF ok THEN reached \cup {c} ELSE reached
    /\ sched' = [sched EXCEPT ![s].at = "write",
          ![s].copy = [status |-> IF ok THEN "completed" ELSE "retry",
                       attempts |-> IF ok THEN @.attempts + 1 ELSE @.attempts]]
    /\ UNCHANGED <<callbacks, cbFaults>>

\* Mutant: the status of the row does not depend on the dial.
MutantAttemptDone(s, ok) ==
    LET c == sched[s].id IN
    /\ sched[s].at = "dial"
    /\ dialled' = [dialled EXCEPT ![c] = @ + 1]
    /\ reached' = IF ok THEN reached \cup {c} ELSE reached
    /\ sched' = [sched EXCEPT ![s].at = "write",
          ![s].copy = [status |-> "completed", attempts |-> @.attempts + 1]]
    /\ UNCHANGED <<callbacks, cbFaults>>

\* outbound.Service.Dial creates a call or fails (see OutboundRouting).
AttemptCallback(s, ok) ==
    LET c == sched[s].id IN
    /\ sched[s].at = "dial"
    /\ dialled' = [dialled EXCEPT ![c] = @ + 1]
    /\ reached' = IF ok THEN reached \cup {c} ELSE reached
    /\ sched' = [sched EXCEPT ![s].at = "write",
          ![s].copy = [status |-> IF ok THEN "completed" ELSE "retry",
                       attempts |-> @.attempts + 1]]
    /\ UNCHANGED <<callbacks, cbFaults>>

\* After the last row the tick is over.
Processed(s) == IF sched[s].list = {} THEN Resting
                ELSE [sched[s] EXCEPT !.at = "list", !.copy = NoCallback, !.id = 0]

WriteCallback(s) ==
    /\ sched[s].at = "write"
    /\ callbacks' = [callbacks EXCEPT ![sched[s].id] = sched[s].copy]
    /\ sched' = [sched EXCEPT ![s] = Processed(s)]
    /\ UNCHANGED <<dialled, reached, cbFaults>>

CbFault == cbFaults < MaxCbFaults /\ cbFaults' = cbFaults + 1

\* An error of the UPDATE is only logged.
WriteCallbackFails(s) ==
    /\ sched[s].at = "write"
    /\ CbFault
    /\ sched' = [sched EXCEPT ![s] = Processed(s)]
    /\ UNCHANGED <<callbacks, dialled, reached>>

SchedulerRestart(s) ==
    /\ sched[s].at # "idle"
    /\ CbFault
    /\ sched' = [sched EXCEPT ![s] = Resting]
    /\ UNCHANGED <<callbacks, dialled, reached>>

SchedulerStep(s) ==
    \/ ProcessAllPending(s) \/ TakeCallback(s) \/ WriteCallback(s)
    \/ \E ok \in BOOLEAN : AttemptCallback(s, ok)

CallbackNext ==
    \/ \E c \in Callbacks : RequestCallback(c)
    \/ \E s \in Schedulers : SchedulerStep(s) \/ WriteCallbackFails(s) \/ SchedulerRestart(s)

CallbackSpec == CallbackInit /\ [][CallbackNext]_callbackVars

\* The ticker ticks and the goroutine of Run goes on.
CallbackFairness == \A s \in Schedulers : WF_callbackVars(SchedulerStep(s))

-----------------------------------------------------------------------------
CallbackTypeOK ==
    /\ callbacks \in [Callbacks -> CbRow]
    /\ \A s \in Schedulers :
          /\ sched[s].at \in {"idle", "list", "dial", "write"}
          /\ sched[s].list \subseteq [id : Callbacks, row : CbRow]
          /\ sched[s].copy \in CbRow
          /\ sched[s].id \in Callbacks \cup {0}
    /\ dialled \in [Callbacks -> Nat]
    /\ reached \subseteq Callbacks
    /\ cbFaults \in 0..MaxCbFaults

\* The customer is not called for ever, although schedulers do not reserve a
\* row and write old counts over newer ones. A count can return to a value v
\* only through an attempt made at v - 1, and each process makes one attempt
\* each time it finds v: n processes make n + n^2 + ... attempts at most, one
\* process exactly MaxAttempts. An UPDATE that failed and a restart count
\* like one more process.
AttemptBound(n) ==
    LET upTo[k \in 0..MaxAttempts] == IF k = 0 THEN 0 ELSE n * (1 + upTo[k - 1])
    IN  upTo[MaxAttempts]
CallsBounded ==
    \A c \in Callbacks : dialled[c] <= AttemptBound(Cardinality(Schedulers) + cbFaults)

\* A callback is given up only after MaxAttempts real attempts, whatever
\* counts were overwritten.
GivenUpAfterAttempts ==
    \A c \in Callbacks : callbacks[c].status = "max_attempts" => dialled[c] >= MaxAttempts

\* A completed callback reached the customer's number at least once.
CompletedWasCalled ==
    \A c \in Callbacks : callbacks[c].status = "completed" => c \in reached

\* Every callback that is requested is in the end completed or given up, and
\* stays so: overwritten rows delay this but cannot prevent it.
Settled(c) == callbacks[c].status \in {"completed", "max_attempts"}
CallbackSettles ==
    \A c \in Callbacks : (callbacks[c].status = "pending") ~> []Settled(c)
=============================================================================
