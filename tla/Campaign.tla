------------------------------ MODULE Campaign ------------------------------
(***************************************************************************)
(* The campaign service of internal/domain/campaign/service.go: the row of *)
(* one campaign, the rows of its cases and the methods that change them.   *)
(*                                                                         *)
(* A method is run by a worker (an HTTP request, a dialling goroutine or   *)
(* the hook of an ended call). A worker keeps its own copy of a row from   *)
(* the statement that reads it to the UPDATE, which writes the whole copy  *)
(* back, as CampaignRepo.Update and CampaignCaseRepo.Update do. Statements *)
(* that follow each other directly are one step where they are about the   *)
(* same case; what lies between reading and writing the campaign is not.   *)
(* A request that is refused changes nothing and is not a step.            *)
(***************************************************************************)
EXTENDS Integers, FiniteSets

CONSTANTS
    Cases,        \* case ids, naturals: GetNextPending orders by id
    CampaignModes, \* the dialling modes of the campaigns examined
    DialWorkers,  \* bound: the methods in progress at one time
    MaxRetries,   \* Campaign.MaxRetries, 3 in Create
    MaxEvents     \* bound: requests, imports left aside, and failures

Modes == {"predictive", "preview", "progressive", "power"}

ASSUME CampaignAssumption ==
    /\ Cases \subseteq Nat \ {0} /\ IsFiniteSet(Cases)
    /\ IsFiniteSet(DialWorkers)
    /\ CampaignModes \subseteq Modes
    /\ MaxRetries \in Nat \ {0}
    /\ MaxEvents \in Nat

VARIABLES
    camp,      \* the row of the campaign
    cases,     \* the rows of its cases
    work,      \* what each worker is doing
    requests,  \* requests so far
    errors     \* statements that failed so far

campaignVars == <<camp, cases, work, requests, errors>>

CampaignStatus == {"none", "draft", "running", "paused", "completed", "aborted"}
CaseStatus == {"none", "pending", "dialing", "completed", "failed", "skipped"}

\* SuccessCases and FailedCases are only reported, and left out.
NoCampaign == [mode |-> "none", status |-> "none", total |-> 0, completed |-> 0]
\* due: next_attempt_at is null or has passed.
NoCase == [status |-> "none", attempts |-> 0, due |-> TRUE]

\* A worker: its place, its case, the loop whose slot it holds (0: none), its
\* context, whether the dial succeeded, and its copies of the two rows.
\* The context of a request is cancelled when the handler ends.
Contexts == {"own", "request", "cancelled"}
Idle == [at |-> "idle", k |-> 0, loop |-> 0, ctx |-> "own", ok |-> FALSE,
         cs |-> NoCase, c |-> NoCampaign]

CampaignInit ==
    /\ camp = NoCampaign
    /\ cases = [k \in Cases |-> NoCase]
    /\ work = [w \in DialWorkers |-> Idle]
    /\ requests = 0
    /\ errors = 0

At(w, p) == work[w].at = p
Proceed(w, p) == work' = [work EXCEPT ![w].at = p]
Done(w) == work' = [work EXCEPT ![w] = Idle]
\* A worker takes a new method: its place and what it knows.
Begin(w, new) == At(w, "idle") /\ work' = [work EXCEPT ![w] = new]

Requested == requests + errors < MaxEvents /\ requests' = requests + 1
Failing == requests + errors < MaxEvents /\ errors' = errors + 1

\* CampaignService.Create, with the defaults of the mode (see Dialer).
Create(mode) ==
    /\ camp.status = "none"
    /\ camp' = [NoCampaign EXCEPT !.mode = mode, !.status = "draft"]
    /\ UNCHANGED <<cases, work, requests, errors>>

\* The first statement of Start, Pause, Abort and Update: the row is read and
\* its status examined; the rest of the method uses the copy.
Examine(w, next, statuses) ==
    /\ Requested
    /\ camp.status \in statuses
    /\ Begin(w, [Idle EXCEPT !.at = next, !.c = camp])
    /\ UNCHANGED <<camp, cases, errors>>

StartRead(w) == Examine(w, "start", {"draft", "paused"})
PauseRead(w) == Examine(w, "pause", {"running"})
AbortRead(w) == Examine(w, "abort", {"running", "paused"})
UpdateRead(w) == Examine(w, "update", CampaignStatus \ {"none"})

\* The UPDATE at the end of a request, with the worker's copy c of the row.
Write(w, at, c, next) ==
    /\ At(w, at)
    /\ camp' = c
    /\ IF next = "idle" THEN Done(w)
       ELSE work' = [work EXCEPT ![w].at = next, ![w].c = NoCampaign]
    /\ UNCHANGED <<cases, requests, errors>>

\* Start refuses a campaign without a pending case; the handler then calls
\* the dialer, as the handlers of Pause and Abort do.
StartWrite(w) ==
    /\ \E k \in Cases : cases[k].status = "pending"
    /\ Write(w, "start", [work[w].c EXCEPT !.status = "running"], "startDialing")
StartRefused(w) ==
    /\ At(w, "start")
    /\ \A k \in Cases : cases[k].status # "pending"
    /\ Done(w)
    /\ UNCHANGED <<camp, cases, requests, errors>>
PauseWrite(w) ==
    Write(w, "pause", [work[w].c EXCEPT !.status = "paused"], "stopDialing")
AbortWrite(w) ==
    Write(w, "abort", [work[w].c EXCEPT !.status = "aborted"], "stopDialing")
\* CampaignHandler.Update sets the name and writes the row it read back.
UpdateWrite(w) == Write(w, "update", work[w].c, "idle")

\* ImportCases inserts the numbers that are neither empty nor on the
\* do-not-call list, in one transaction, whatever the campaign's status.
ImportCases(w, new) ==
    /\ camp.status # "none"
    /\ new # {}
    /\ \A k \in new : cases[k].status = "none"
    /\ cases' = [k \in Cases |->
                    IF k \in new THEN [NoCase EXCEPT !.status = "pending"]
                                 ELSE cases[k]]
    /\ Begin(w, [Idle EXCEPT !.at = "update",
                             !.c = [camp EXCEPT !.total = @ + Cardinality(new)]])
    /\ UNCHANGED <<camp, requests, errors>>

autoComplete(c) ==
    IF c.status = "running" /\ c.total > 0 /\ c.completed >= c.total
    THEN [c EXCEPT !.status = "completed"] ELSE c

\* AttemptCount is only compared with MaxRetries and CompletedCases with the
\* number of cases: a value above says no more.
UpTo(n, bound) == IF n > bound THEN bound ELSE n
Attempt(cs) == [cs EXCEPT !.attempts = UpTo(@ + 1, MaxRetries)]
Counted(c) ==
    autoComplete([c EXCEPT !.completed = UpTo(@ + 1, Cardinality(Cases))])

\* The UPDATE of a case with the worker's copy of it.
WriteCase(w, at, next) ==
    /\ At(w, at)
    /\ cases' = [cases EXCEPT ![work[w].k] = work[w].cs]
    /\ IF next = "idle" THEN Done(w)
       ELSE work' = [work EXCEPT ![w].at = next, ![w].cs = NoCase]
    /\ UNCHANGED <<camp, requests, errors>>

\* PreviewCaseHandler: an agent dials or skips a case, of any status and in
\* any mode. DialCase goes on to the dialer.
CaseRead(w, k, next, cs, ctx) ==
    /\ Requested
    /\ cases[k].status # "none"
    /\ Begin(w, [Idle EXCEPT !.at = next, !.k = k, !.ctx = ctx, !.cs = cs])
    /\ UNCHANGED <<camp, cases, errors>>
DialCase(w, k) ==
    CaseRead(w, k, "dialCase", [Attempt(cases[k]) EXCEPT !.status = "dialing"], "request")
DialWrite(w) == WriteCase(w, "dialCase", "accept")
SkipCase(w, k) == CaseRead(w, k, "skipCase", [cases[k] EXCEPT !.status = "skipped"], "own")
SkipWrite(w) == WriteCase(w, "skipCase", "count")

\* A case that was read as completed is not completed again.
MarkCaseCompleted(w) ==
    /\ At(w, "complete")
    /\ LET cs == cases[work[w].k] IN
       IF cs.status = "completed" THEN Done(w)
       ELSE work' = [work EXCEPT ![w].at = "completeCase",
                                 ![w].cs = [Attempt(cs) EXCEPT !.status = "completed"]]
    /\ UNCHANGED <<camp, cases, requests, errors>>
CompletedWrite(w) == WriteCase(w, "completeCase", "count")

\* The end of MarkCaseCompleted and SkipCase: the campaign is read, counted
\* in the worker's copy, and written in the next step.
CountCase(w) ==
    /\ At(w, "count")
    /\ work' = [work EXCEPT ![w].at = "update", ![w].c = Counted(camp)]
    /\ UNCHANGED <<camp, cases, requests, errors>>

\* MarkCaseFailed reads both rows: below the limit the case is pending again
\* after the retry interval, at it the campaign is counted and written before
\* the case. The status of the case is not looked at.
Exhausted(cs) == cs.attempts >= MaxRetries
Settle(cs) == IF Exhausted(cs) THEN [cs EXCEPT !.status = "failed"]
                               ELSE [cs EXCEPT !.status = "pending", !.due = FALSE]
MarkCaseFailed(w) ==
    /\ At(w, "fail")
    /\ LET cs == Attempt(cases[work[w].k]) IN
       work' = [work EXCEPT
                  ![w].at = IF Exhausted(cs) THEN "failUpdate" ELSE "failCase",
                  ![w].c = IF Exhausted(cs) THEN Counted(camp) ELSE @,
                  ![w].cs = Settle(cs)]
    /\ UNCHANGED <<camp, cases, requests, errors>>
FailedUpdate(w) == Write(w, "failUpdate", work[w].c, "failCase")
FailedWrite(w) == WriteCase(w, "failCase", "idle")

\* next_attempt_at passes.
RetryDue(k) ==
    /\ cases[k].status = "pending" /\ ~cases[k].due
    /\ cases' = [cases EXCEPT ![k].due = TRUE]
    /\ UNCHANGED <<camp, work, requests, errors>>

\* GetNextPending: the first due case; it is read, not reserved.
GetNextPending ==
    LET ready == {k \in Cases : cases[k].status = "pending" /\ cases[k].due}
    IN  {k \in ready : \A j \in ready : k <= j}

Statements == {"start", "pause", "abort", "update", "dialCase", "skipCase", "complete",
               "completeCase", "count", "fail", "failUpdate", "failCase"}
Live(w) == work[w].ctx # "cancelled"

\* A statement fails and the method returns; only the error of the UPDATE of
\* the campaign in MarkCaseFailed is ignored.
StatementFails(w) ==
    /\ Failing
    /\ work[w].at \in Statements
    /\ IF At(w, "failUpdate") THEN Proceed(w, "failCase") ELSE Done(w)
    /\ UNCHANGED <<camp, cases, requests>>

Request(w) ==
    \/ StartRead(w) \/ PauseRead(w) \/ AbortRead(w) \/ UpdateRead(w)
    \/ \E k \in Cases : DialCase(w, k) \/ SkipCase(w, k)
    \/ \E new \in SUBSET Cases : ImportCases(w, new)

Statement(w) ==
    /\ Live(w)
    /\ \/ StartWrite(w) \/ StartRefused(w) \/ PauseWrite(w) \/ AbortWrite(w)
       \/ UpdateWrite(w) \/ DialWrite(w) \/ SkipWrite(w)
       \/ MarkCaseCompleted(w) \/ CompletedWrite(w) \/ CountCase(w)
       \/ MarkCaseFailed(w) \/ FailedUpdate(w) \/ FailedWrite(w)

CampaignNext ==
    \/ \E mode \in CampaignModes : Create(mode)
    \/ \E w \in DialWorkers : Request(w) \/ Statement(w) \/ StatementFails(w)
    \/ \E k \in Cases : RetryDue(k)

CampaignRow == [mode : Modes \cup {"none"}, status : CampaignStatus,
                total : Nat, completed : Nat]
CaseRow == [status : CaseStatus, attempts : Nat, due : BOOLEAN]
=============================================================================
