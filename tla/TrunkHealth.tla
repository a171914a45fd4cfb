---------------------------- MODULE TrunkHealth ----------------------------
(***************************************************************************)
(* Trunk health: the monitor that asks FreeSWITCH for the state of every   *)
(* gateway (application/trunk/service.go), the failure counters in memory  *)
(* (telephony.TrunkHealthService) and the selection of a healthy trunk of  *)
(* a group, which reads members, health and trunk one after the other.     *)
(* The members of a group are 1..n in the order of their priority.         *)
(***************************************************************************)
EXTENDS Integers, FiniteSets

CONSTANTS
    TrunkCount,   \* members of the group
    FailLimit,    \* 3 in RecordHealthCheck
    Selectors     \* goroutines that select a trunk

ASSUME TrunkAssumption == TrunkCount \in Nat /\ FailLimit \in Nat \ {0}

Trunks == 1..TrunkCount

VARIABLES
    health,    \* TrunkHealthService.health
    sweep,     \* the trunks the monitor has yet to check in this round
    misses,    \* consecutive failed checks, up to FailLimit (history)
    picks      \* what each selection is doing

trunkVars == <<health, sweep, misses, picks>>

\* next: the member to be tried; upAll: the members that were not down
\* at any time of the selection (history).
NoPick == [at |-> "idle", next |-> 1, got |-> 0, upAll |-> {}]

TrunkInit ==
    /\ health = [t \in Trunks |-> [status |-> "active", fails |-> 0]]
    /\ sweep = {}
    /\ misses = [t \in Trunks |-> 0]
    /\ picks = [s \in Selectors |-> NoPick]

\* checkAll lists the trunks, newest first; every order is allowed here.
CheckAll ==
    /\ sweep = {}
    /\ sweep' = Trunks
    /\ UNCHANGED <<health, misses, picks>>

\* Mutant: a success does not reset the counter.
MutantRecorded(h, success) ==
    IF success THEN [h EXCEPT !.status = "active"]
    ELSE [status |-> IF h.fails + 1 >= FailLimit THEN "down" ELSE h.status,
          fails |-> IF h.fails < FailLimit THEN h.fails + 1 ELSE FailLimit]

\* RecordHealthCheck; a counter above FailLimit says no more.
Recorded(h, success) ==
    IF success THEN [status |-> "active", fails |-> 0]
    ELSE [status |-> IF h.fails + 1 >= FailLimit THEN "down" ELSE h.status,
          fails |-> IF h.fails < FailLimit THEN h.fails + 1 ELSE FailLimit]

\* sendOPTIONS and the record of its answer; a timeout is a failure.
CheckTrunk(t, success) ==
    /\ t \in sweep
    /\ sweep' = sweep \ {t}
    /\ health' = [health EXCEPT ![t] = Recorded(@, success)]
    /\ misses' = [misses EXCEPT ![t] = IF success THEN 0
                                       ELSE IF @ < FailLimit THEN @ + 1 ELSE @]
    /\ picks' = [s \in Selectors |->
          [picks[s] EXCEPT !.upAll = {u \in @ : health'[u].status # "down"}]]

SelectBegin(s) ==
    /\ picks[s].at = "idle"
    /\ picks' = [picks EXCEPT ![s] = [NoPick EXCEPT !.at = "scan",
                    !.upAll = {t \in Trunks : health[t].status # "down"}]]
    /\ UNCHANGED <<health, sweep, misses>>

\* Mutant: the loop ends at the first trunk that is down.
MutantSelectNext(s, found) ==
    LET t == picks[s].next IN
    /\ picks[s].at = "scan" /\ t <= TrunkCount
    /\ picks' = [picks EXCEPT ![s] =
          IF health[t].status = "down" THEN [@ EXCEPT !.at = "none"]
          ELSE IF found THEN [@ EXCEPT !.at = "done", !.got = t]
          ELSE [@ EXCEPT !.next = t + 1, !.upAll = @ \ {t}]]
    /\ UNCHANGED <<health, sweep, misses>>

\* One member of SelectHealthyTrunk: skipped when it is down or its row
\* cannot be read.
SelectNext(s, found) ==
    LET t  == picks[s].next
        up == IF found THEN picks[s].upAll ELSE picks[s].upAll \ {t} IN
    /\ picks[s].at = "scan" /\ t <= TrunkCount
    /\ picks' = [picks EXCEPT ![s] =
          IF health[t].status # "down" /\ found THEN [@ EXCEPT !.at = "done", !.got = t]
          ELSE [@ EXCEPT !.next = t + 1, !.upAll = up]]
    /\ UNCHANGED <<health, sweep, misses>>
\* Mutant: the end of the loop is taken for a selection.
MutantSelectFails(s) ==
    /\ picks[s].at = "scan" /\ picks[s].next > TrunkCount
    /\ picks' = [picks EXCEPT ![s].at = "done"]
    /\ UNCHANGED <<health, sweep, misses>>

SelectFails(s) ==
    /\ picks[s].at = "scan" /\ picks[s].next > TrunkCount
    /\ picks' = [picks EXCEPT ![s].at = "none"]
    /\ UNCHANGED <<health, sweep, misses>>
SelectReturns(s) ==
    /\ picks[s].at \in {"done", "none"}
    /\ picks' = [picks EXCEPT ![s] = NoPick]
    /\ UNCHANGED <<health, sweep, misses>>

TrunkNext ==
    \/ CheckAll
    \/ \E t \in Trunks, success \in BOOLEAN : CheckTrunk(t, success)
    \/ \E s \in Selectors :
          \/ SelectBegin(s) \/ SelectFails(s) \/ SelectReturns(s)
          \/ \E found \in BOOLEAN : SelectNext(s, found)

TrunkSpec == TrunkInit /\ [][TrunkNext]_trunkVars

-----------------------------------------------------------------------------
TrunkTypeOK ==
    /\ health \in [Trunks -> [status : {"active", "down"}, fails : 0..FailLimit]]
    /\ sweep \subseteq Trunks
    /\ misses \in [Trunks -> 0..FailLimit]
    /\ \A s \in Selectors : /\ picks[s].at \in {"idle", "scan", "done", "none"}
                            /\ picks[s].next \in 1..(TrunkCount + 1)
                            /\ picks[s].got \in 0..TrunkCount
                            /\ picks[s].at = "done" => picks[s].got # 0

\* A trunk is down exactly when its last FailLimit checks failed, whatever
\* came before: one success brings it back, and isolated failures never add
\* up to an outage.
DownAfterThreeMisses ==
    \A t \in Trunks : health[t].status = "down" <=> misses[t] = FailLimit

\* No failover gap: a selection that finds nothing met no trunk that was up
\* all the time it ran, although it reads the health of one after the other.
FailoverFindsTrunk ==
    \A s \in Selectors : picks[s].at = "none" => picks[s].upAll = {}
=============================================================================
