------------------------------- MODULE Dialer -------------------------------
(***************************************************************************)
(* The dialer of internal/application/dialer/service.go on top of the      *)
(* campaign service: per process at most one dialling loop for the         *)
(* campaign, whose ticks read the campaign and start a goroutine dialCase  *)
(* for every case they take, the daily limit per number in Redis, the      *)
(* preview requests of agents, and the hook of an ended call, which marks  *)
(* the case a second time. Every case has its own phone number.            *)
(***************************************************************************)
EXTENDS Campaign

CONSTANTS
    Instances,     \* server processes
    InstOf,        \* the process a worker runs in
    MaxLoops,      \* bound: the loops ever started
    MaxDialed,     \* bound: the dials of a predictive loop
    FreqLimit,     \* maxDailyPerPhone, 3 in main.go
    MaxAbandonPct, \* Campaign.MaxAbandonRate of a predictive campaign, 3.0
    ScheduleDays,  \* the column schedule_days, a SET of abbreviations
    Clock          \* the readings of the clock, in the campaign's zone

ASSUME DialerAssumption ==
    /\ IsFiniteSet(Instances) /\ Instances # {}
    /\ InstOf \in [DialWorkers -> Instances]
    /\ MaxLoops \in Nat /\ MaxDialed \in Nat
    /\ FreqLimit \in Nat
    /\ MaxAbandonPct \in Nat

VARIABLES
    reg,     \* Service.active of each process: its registered loop or 0
    loops,   \* dialerState and the goroutine dialLoop of each loop; the
             \* totals are kept of a predictive loop, others only report them
    freq,    \* the counter dial_freq:<phone>:<day> in Redis
    placed,  \* how often dialFn was called for the number (history)
    calls    \* calls in progress for the case

Loops == 1..MaxLoops
dialerVars == <<reg, loops, freq, placed, calls>>
diallingVars == <<camp, cases, work, requests, errors, reg, loops, freq, placed, calls>>

NewLoop(i, mode) == [at |-> "idle", inst |-> i, mode |-> mode, open |-> TRUE,
                     active |-> 0, dialed |-> 0, abandoned |-> 0, slots |-> 0]
Unused == [NewLoop(CHOOSE i \in Instances : TRUE, "none")
             EXCEPT !.at = "unused", !.open = FALSE]

DialerInit ==
    /\ CampaignInit
    /\ reg = [i \in Instances |-> 0]
    /\ loops = [l \in Loops |-> Unused]
    /\ freq = [k \in Cases |-> 0]
    /\ placed = [k \in Cases |-> 0]
    /\ calls = [k \in Cases |-> 0]

\* Mutant: an active loop is not looked for.
MutantStartDialing(w) ==
    /\ At(w, "startDialing")
    /\ Done(w)
    /\ \E l \in Loops :
         /\ loops[l].at = "unused"
         /\ \A m \in Loops : m < l => loops[m].at # "unused"
         /\ reg' = [reg EXCEPT ![InstOf[w]] = l]
         /\ loops' = [loops EXCEPT ![l] = NewLoop(InstOf[w], camp.mode)]
    /\ UNCHANGED <<camp, cases, requests, errors, freq, placed, calls>>

\* StartDialing, whose refusal the handler ignores. The mode is read once.
StartDialing(w) ==
    /\ At(w, "startDialing")
    /\ Done(w)
    /\ LET i == InstOf[w] IN
       IF reg[i] # 0 THEN UNCHANGED <<reg, loops>>
       ELSE \E l \in Loops :
              /\ loops[l].at = "unused"
              /\ \A m \in Loops : m < l => loops[m].at # "unused"
              /\ reg' = [reg EXCEPT ![i] = l]
              /\ loops' = [loops EXCEPT ![l] = NewLoop(i, camp.mode)]
    /\ UNCHANGED <<camp, cases, requests, errors, freq, placed, calls>>

\* StopDialing closes the channel of whichever loop is registered now.
Closed(i) == IF reg[i] = 0 THEN loops ELSE [loops EXCEPT ![reg[i]].open = FALSE]

StopDialing(w) ==
    /\ At(w, "stopDialing")
    /\ Done(w)
    /\ loops' = Closed(InstOf[w])
    /\ reg' = [reg EXCEPT ![InstOf[w]] = 0]
    /\ UNCHANGED <<camp, cases, requests, errors, freq, placed, calls>>

\* dialLoop ends when select sees the closed channel; a tick that is ready at
\* the same time may be served first, and again.
LoopExit(l) ==
    /\ loops[l].at = "idle" /\ ~loops[l].open
    /\ loops' = [loops EXCEPT ![l].at = "exited"]
    /\ UNCHANGED <<campaignVars, reg, freq, placed, calls>>

FullName(day) == [mon |-> "monday", tue |-> "tuesday", wed |-> "wednesday",
                  thu |-> "thursday", fri |-> "friday", sat |-> "saturday",
                  sun |-> "sunday"][day]
\* The column is searched for the full name of the weekday. An hour from 9
\* to 19 is allowed: Create leaves the columns of the hours at zero.
isWithinSchedule(now) ==
    /\ ScheduleDays # {} => FullName(now.day) \in ScheduleDays
    /\ now.hour >= 9 /\ now.hour < 20

\* dialBatch reads the campaign. One that is not running stops "the" loop of
\* the campaign, in a step of its own: not necessarily this one any more.
Tick(l, now) ==
    /\ loops[l].at = "idle"
    /\ \/ /\ camp.status # "running"
          /\ loops' = [loops EXCEPT ![l].at = "stop"]
       \/ /\ camp.status = "running"
          /\ isWithinSchedule(now)
          /\ loops[l].mode # "preview"
          /\ loops' = [loops EXCEPT ![l].at = "batch"]
    /\ UNCHANGED <<campaignVars, reg, freq, placed, calls>>

TickStops(l) ==
    /\ loops[l].at = "stop"
    /\ LET i == loops[l].inst IN
       /\ loops' = [Closed(i) EXCEPT ![l].at = "idle"]
       /\ reg' = [reg EXCEPT ![i] = 0]
    /\ UNCHANGED <<campaignVars, freq, placed, calls>>

\* int(RatioMultiplier) and ConcurrentLimit as Create sets them.
Ratio(mode) == IF mode = "power" THEN 3 ELSE 1
ConcurrentLimit(mode) == IF mode = "progressive" THEN 1 ELSE 10

\* dialPredictive above MaxAbandonRate: nothing from twice the rate on, else
\* slots/overshoot and at least one.
throttle(slots, ab, dialed) ==
    IF ab * 100 <= MaxAbandonPct * dialed THEN slots
    ELSE IF ab * 100 >= 2 * MaxAbandonPct * dialed THEN 0
    ELSE LET scaled == (slots * MaxAbandonPct * dialed) \div (ab * 100)
         IN  IF scaled < 1 THEN 1 ELSE scaled

\* Mutant: the calls in progress are not subtracted.
MutantBatchSlots(s) == Ratio(s.mode)

\* The slots of a batch: dialPredictive, dialProgressive and dialPower.
BatchSlots(s) ==
    LET free == Ratio(s.mode) - s.active
        cap == ConcurrentLimit(s.mode) - s.active
        slots == IF free > cap THEN cap ELSE free
    IN  IF cap <= 0 THEN 0
        ELSE IF s.mode = "predictive" THEN throttle(slots, s.abandoned, s.dialed)
        ELSE slots
Positive(n) == IF n > 0 THEN n ELSE 0

Batch(l) ==
    /\ loops[l].at = "batch"
    /\ LET slots == Positive(BatchSlots(loops[l])) IN
       loops' = [loops EXCEPT ![l].at = IF slots > 0 THEN "dial" ELSE "idle",
                              ![l].slots = slots]
    /\ UNCHANGED <<campaignVars, reg, freq, placed, calls>>

CountDial(s) == [s EXCEPT !.active = @ + 1,
                          !.dialed = @ + IF s.mode = "predictive" THEN 1 ELSE 0]
UseSlot(s) == [CountDial(s) EXCEPT !.slots = s.slots - 1,
                                   !.at = IF s.slots = 1 THEN "idle" ELSE "dial"]

\* One round of the loop of a batch: GetNextCase, the counters, go dialCase.
\* No case left (or an error) ends the batch.
BatchDial(l, w) ==
    /\ loops[l].at = "dial" /\ loops[l].dialed < MaxDialed
    /\ InstOf[w] = loops[l].inst
    /\ \E k \in GetNextPending :
          Begin(w, [Idle EXCEPT !.at = "freq", !.k = k, !.loop = l])
    /\ loops' = [loops EXCEPT ![l] = UseSlot(@)]
    /\ UNCHANGED <<camp, cases, requests, errors, reg, freq, placed, calls>>
BatchEnds(l) ==
    /\ loops[l].at = "dial"
    /\ GetNextPending = {}
    /\ loops' = [loops EXCEPT ![l].at = "idle", ![l].slots = 0]
    /\ UNCHANGED <<campaignVars, reg, freq, placed, calls>>

\* PreviewAccept, after DialCase: a slot of the registered loop, if there is
\* one, and go dialCase with the context of the request.
PreviewAccept(w) ==
    /\ At(w, "accept")
    /\ \A l \in Loops : loops[l].dialed < MaxDialed
    /\ LET l == reg[InstOf[w]] IN
       /\ work' = [work EXCEPT ![w].at = "freq", ![w].loop = l]
       /\ loops' = IF l = 0 THEN loops
                   ELSE [loops EXCEPT ![l] = CountDial(@)]
    /\ UNCHANGED <<camp, cases, requests, errors, reg, freq, placed, calls>>

\* The handler of the preview request returns, which cancels the context of
\* the goroutine it started; a batch's goroutine has a context of its own.
HandlerReturns(w) ==
    /\ work[w].at \in {"freq", "place", "record"} \cup (Statements \ {"dialCase"})
    /\ work[w].ctx = "request"
    /\ work' = [work EXCEPT ![w].ctx = "cancelled"]
    /\ UNCHANGED <<camp, cases, requests, errors, dialerVars>>

\* Mutant: the limit is compared one too late.
MutantIncrAndCheck(w) ==
    /\ At(w, "freq") /\ Live(w)
    /\ freq' = [freq EXCEPT ![work[w].k] = UpTo(@ + 1, FreqLimit + 1)]
    /\ Proceed(w, IF freq[work[w].k] > FreqLimit THEN "record" ELSE "place")
    /\ UNCHANGED <<camp, cases, requests, errors, reg, loops, placed, calls>>

\* RedisFrequencyChecker.IncrAndCheck: one atomic INCR. Without an answer of
\* Redis the call is allowed, and not counted.
IncrAndCheck(w) ==
    /\ At(w, "freq") /\ Live(w)
    /\ LET n == UpTo(freq[work[w].k] + 1, FreqLimit + 1) IN
       /\ freq' = [freq EXCEPT ![work[w].k] = n]
       /\ Proceed(w, IF n > FreqLimit THEN "record" ELSE "place")
    /\ UNCHANGED <<camp, cases, requests, errors, reg, loops, placed, calls>>
IncrFails(w) ==
    /\ At(w, "freq")
    /\ IF Live(w) THEN Failing ELSE UNCHANGED errors
    /\ Proceed(w, "place")
    /\ UNCHANGED <<camp, cases, requests, dialerVars>>

\* Mutant: a failed dial returns without recording a result.
MutantDialFails(w) ==
    /\ At(w, "place")
    /\ Done(w)
    /\ UNCHANGED <<camp, cases, requests, errors, dialerVars>>

\* dialFn, outbound.Service.Dial: the row of a call, or an error (blocked, no
\* route, no number, context cancelled).
DialOk(w) ==
    /\ At(w, "place") /\ Live(w)
    /\ placed' = [placed EXCEPT ![work[w].k] = @ + 1]
    /\ calls' = [calls EXCEPT ![work[w].k] = @ + 1]
    /\ work' = [work EXCEPT ![w].at = "record", ![w].ok = TRUE]
    /\ UNCHANGED <<camp, cases, requests, errors, reg, loops, freq>>
DialFails(w) ==
    /\ At(w, "place")
    /\ Proceed(w, "record")
    /\ UNCHANGED <<camp, cases, requests, errors, dialerVars>>

\* Mutant: the active calls are decremented without a look at zero.
MutantRecordCallResult(w) ==
    /\ At(w, "record")
    /\ LET l == reg[InstOf[w]] IN
       loops' = IF l = 0 THEN loops ELSE [loops EXCEPT ![l].active = @ - 1]
    /\ work' = [work EXCEPT ![w].at = IF work[w].ok THEN "complete" ELSE "fail",
                            ![w].ok = FALSE, ![w].loop = 0]
    /\ UNCHANGED <<camp, cases, requests, errors, reg, freq, placed, calls>>

\* RecordCallResult: the counters of the loop registered now, then the case,
\* always with a duration of zero.
RecordCallResult(w) ==
    /\ At(w, "record")
    /\ LET l == reg[InstOf[w]] IN
       loops' = IF l = 0 THEN loops
                ELSE [loops EXCEPT
                        ![l].active = IF @ = 0 THEN 0 ELSE @ - 1,
                        ![l].abandoned = @ + IF loops[l].mode = "predictive" /\ ~work[w].ok
                                             THEN 1 ELSE 0]
    /\ work' = [work EXCEPT ![w].at = IF work[w].ok THEN "complete" ELSE "fail",
                            ![w].ok = FALSE, ![w].loop = 0]
    /\ UNCHANGED <<camp, cases, requests, errors, reg, freq, placed, calls>>

\* With a cancelled context every statement fails, and the error is ignored.
MarkCancelled(w) ==
    /\ work[w].at \in Statements /\ ~Live(w)
    /\ Done(w)
    /\ UNCHANGED <<camp, cases, requests, errors, dialerVars>>

\* postCallHooks of an ended call of the case, answered or not.
CallEnds(w, k, wasAnswered) ==
    /\ calls[k] > 0
    /\ calls' = [calls EXCEPT ![k] = @ - 1]
    /\ Begin(w, [Idle EXCEPT !.at = IF wasAnswered THEN "complete" ELSE "fail",
                             !.k = k])
    /\ UNCHANGED <<camp, cases, requests, errors, reg, loops, freq, placed>>

\* A process restarts: its loops and goroutines are gone, the rows stay.
Restart(i) ==
    /\ Failing
    /\ reg' = [reg EXCEPT ![i] = 0]
    /\ loops' = [l \in Loops |->
                    IF loops[l].inst = i /\ loops[l].at # "unused"
                    THEN [loops[l] EXCEPT !.at = "exited", !.open = FALSE,
                                          !.active = 0, !.slots = 0]
                    ELSE loops[l]]
    /\ work' = [w \in DialWorkers |-> IF InstOf[w] = i THEN Idle ELSE work[w]]
    /\ UNCHANGED <<camp, cases, requests, freq, placed, calls>>

LoopStep(l) ==
    \/ \E now \in Clock : Tick(l, now)
    \/ TickStops(l) \/ Batch(l) \/ BatchEnds(l) \/ LoopExit(l)
    \/ \E w \in DialWorkers : BatchDial(l, w)

Goroutine(w) ==
    \/ StartDialing(w) \/ StopDialing(w) \/ PreviewAccept(w) \/ HandlerReturns(w)
    \/ IncrAndCheck(w) \/ IncrFails(w) \/ DialOk(w) \/ DialFails(w)
    \/ RecordCallResult(w) \/ MarkCancelled(w)

DialerNext ==
    \/ CampaignNext /\ UNCHANGED dialerVars
    \/ \E l \in Loops : LoopStep(l)
    \/ \E w \in DialWorkers : Goroutine(w)
    \/ \E w \in DialWorkers, k \in Cases, wasAnswered \in BOOLEAN : CallEnds(w, k, wasAnswered)
    \/ \E i \in Instances : Restart(i)

DialerSpec == DialerInit /\ [][DialerNext]_diallingVars

\* Goroutines and loops are scheduled and a retry interval passes; requests,
\* ended calls, errors and restarts are not promised. A loop that wants a
\* goroutine gets one although the bound DialWorkers makes it wait.
Running(w) ==
    \/ Goroutine(w)
    \/ Statement(w) /\ UNCHANGED dialerVars
DialerFairness ==
    /\ \A w \in DialWorkers : WF_diallingVars(Running(w) /\ UNCHANGED errors)
    /\ \A l \in Loops :
         /\ WF_diallingVars(TickStops(l) \/ Batch(l) \/ BatchEnds(l))
         /\ WF_diallingVars(\E now \in Clock : Tick(l, now))
         /\ SF_diallingVars(\E w \in DialWorkers : BatchDial(l, w))
    /\ \A k \in Cases : WF_diallingVars(RetryDue(k) /\ UNCHANGED dialerVars)

DialerFairSpec == DialerSpec /\ DialerFairness

-----------------------------------------------------------------------------
Places == {"idle", "startDialing", "stopDialing", "accept", "freq", "place",
           "record"} \cup Statements

\* The rows, the workers and the loops keep their types.
DialerTypeOK ==
    /\ camp \in CampaignRow
    /\ cases \in [Cases -> CaseRow]
    /\ work \in [DialWorkers -> [at : Places, k : Cases \cup {0}, loop : Loops \cup {0},
                              ctx : Contexts, ok : BOOLEAN, cs : CaseRow,
                              c : CampaignRow]]
    /\ requests \in 0..MaxEvents /\ errors \in 0..MaxEvents
    /\ reg \in [Instances -> Loops \cup {0}]
    /\ loops \in [Loops -> [at : {"unused", "idle", "stop", "batch", "dial", "exited"},
                            inst : Instances, mode : Modes \cup {"none"},
                            open : BOOLEAN, active : Nat, dialed : Nat,
                            abandoned : Nat, slots : Nat]]
    /\ freq \in [Cases -> Nat] /\ placed \in [Cases -> Nat]
    /\ calls \in [Cases -> Nat]

\* A process has at most one loop that was not told to stop, and it is the one
\* that Pause, Abort and the counters reach: however starts, pauses, stale
\* ticks and restarts interleave, no loop is left dialling behind their back.
OneLoop == \A l \in Loops : loops[l].open => reg[loops[l].inst] = l

SlotHolders(l) == {w \in DialWorkers : work[w].loop = l}
Previews(l) == {w \in SlotHolders(l) : work[w].ctx # "own"}
Registered == {l \in Loops : reg[loops[l].inst] = l}

\* A slot is never lost: the active calls of the registered loop are at most
\* the goroutines that still owe it a RecordCallResult, through cancelled
\* failed dials and goroutines of earlier loops. Otherwise a
\* progressive campaign stops dialling for good.
SlotsReturn == \A l \in Registered : loops[l].active <= Cardinality(SlotHolders(l))

\* The registered loop keeps the pace of its mode (one call, three calls, ten
\* calls at a time), the slots it has yet to use included; what exceeds it
\* are calls that agents placed by hand.
Pace(mode) == CASE mode = "progressive" -> 1 [] mode = "power" -> 3 [] OTHER -> 10
PaceKept ==
    \A l \in Registered :
        loops[l].active + loops[l].slots <= Pace(loops[l].mode) + Cardinality(Previews(l))

\* A number is called at most FreqLimit times a day, although a pending case
\* is not reserved and several goroutines and processes take the same one;
\* only an answer that Redis failed to give allows one more.
FrequencyKept == \A k \in Cases : placed[k] <= FreqLimit + errors

\* A due case of a running campaign with a loop is taken, or the loop ends.
\* A predictive loop is left out: when the calls it has made put it above the
\* abandon rate and none is left that could bring the rate down, it takes no
\* case again.
Waiting(k, modes) ==
    /\ cases[k].status = "pending" /\ cases[k].due
    /\ camp.status = "running"
    /\ \E l \in Registered : loops[l].mode \in modes
    /\ \A w \in DialWorkers : work[w].k # k
DueCaseTaken == \A k \in Cases : Waiting(k, {"progressive", "power"}) ~> ~Waiting(k, Modes)
=============================================================================
