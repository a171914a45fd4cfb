------------------------------ MODULE EslPool ------------------------------
(***************************************************************************)
(* The FreeSWITCH ESL client of internal/infrastructure/esl/client.go: a   *)
(* pool of connections held in a Go channel of capacity maxPool, callers   *)
(* that Acquire, SendCommand and Release, Grow goroutines, the AutoScale   *)
(* loop, Close, and the circuit breaker.                                   *)
(*                                                                         *)
(* One step is one access to shared memory: an atomic load, a compare and  *)
(* swap, a channel operation or a method that runs under the breaker's     *)
(* mutex. What a caller does to the connection it holds is private to it   *)
(* and is merged with the step that follows. The channel is a set: which   *)
(* connection a receiver gets is a choice, of which FIFO order is one.     *)
(***************************************************************************)
EXTENDS Integers, FiniteSets

CONSTANTS
    Workers,      \* callers of SendCommand
    Growers,      \* bound: the "go c.Grow(2)" goroutines alive at one time
    AutoScaler,   \* the goroutine that runs AutoScale
    Conns,        \* the connection objects
    NoConn,       \* nil
    MinPool, InitPool, MaxPool,   \* Config.MinPool, PoolSize, MaxPool
    Threshold     \* circuitBreaker.threshold

ASSUME EslAssumption ==
    /\ IsFiniteSet(Workers) /\ IsFiniteSet(Growers) /\ IsFiniteSet(Conns)
    /\ AutoScaler \notin Growers
    /\ NoConn \notin Conns
    /\ MinPool \in Nat /\ InitPool \in Nat /\ MaxPool \in Nat
    /\ 0 < MinPool /\ MinPool <= InitPool /\ InitPool <= MaxPool
    /\ InitPool <= Cardinality(Conns)
    /\ Threshold \in Nat \ {0}

VARIABLES
    pool,       \* c.pool: the connections in the channel
    pc,         \* where each worker is in SendCommand
    held,       \* the connection a worker took from the channel
    tcp,        \* connections whose tcpConn is an open socket
    connected,  \* connections whose flag "connected" is set
    poolSize,   \* c.poolSize
    closed,     \* c.closed
    draining,   \* the call of Close that won is emptying the channel
    breaker,    \* circuitBreaker: failures, state and age of lastFailure
    grow,       \* the progress of each call of Grow
    scaler      \* the progress of AutoScale and of its call of Shrink

clientVars == <<pool, poolSize, closed, draining>>
connVars   == <<tcp, connected>>
vars == <<pool, pc, held, tcp, connected, poolSize, closed, draining,
          breaker, grow, scaler>>

\* Every goroutine that can be inside Grow.
GrowCallers == Growers \cup {AutoScaler}

\* The places of a worker at which it owns the connection in held.
HoldingPC == {"have", "putBack", "autoGrow", "using", "release", "push"}
WorkerPC  == {"idle", "checkBreaker", "waiting", "recordFail"} \cup HoldingPC
GrowPC    == {"idle", "load", "cas", "push"}
ScalerPC  == {"sleep", "load", "cas", "pop"}
BreakerState == {"closed", "open", "half_open"}

TypeOK ==
    /\ pool \subseteq Conns
    /\ pc \in [Workers -> WorkerPC]
    /\ held \in [Workers -> Conns \cup {NoConn}]
    /\ tcp \subseteq Conns
    /\ connected \subseteq Conns
    /\ poolSize \in Nat
    /\ closed \in {0, 1}
    /\ draining \in {0, 1}
    /\ breaker \in [failures : 0..Threshold, state : BreakerState,
                    age : {"recent", "elapsed"}]
    /\ grow \in [GrowCallers -> [at : GrowPC, left : 0..2, cur : Nat]]
    /\ scaler \in [at : ScalerPC, cur : Nat, idleTicks : 0..1]

IdleGrow == [at |-> "idle", left |-> 0, cur |-> 0]

\* NewClient: the channel is filled with PoolSize unconnected connections.
Init ==
    /\ \E S \in SUBSET Conns : Cardinality(S) = InitPool /\ pool = S
    /\ pc = [w \in Workers |-> "idle"]
    /\ held = [w \in Workers |-> NoConn]
    /\ tcp = {}
    /\ connected = {}
    /\ poolSize = InitPool
    /\ closed = 0
    /\ draining = 0
    /\ breaker = [failures |-> 0, state |-> "closed", age |-> "recent"]
    /\ grow = [g \in GrowCallers |-> IdleGrow]
    /\ scaler = [at |-> "sleep", cur |-> 0, idleTicks |-> 0]

-----------------------------------------------------------------------------
(***************************************************************************)
(* The circuit breaker. The failure count only matters up to the           *)
(* threshold; resetTimeout elapses at any time after the last failure.     *)
(***************************************************************************)
RecordFailure ==
    LET n == IF breaker.failures < Threshold THEN breaker.failures + 1
                                             ELSE Threshold
    IN  breaker' = [failures |-> n,
                    state |-> IF n >= Threshold THEN "open" ELSE breaker.state,
                    age |-> "recent"]

\* Mutant: a success closes the breaker but keeps the failure count.
MutantRecordSuccess == breaker' = [breaker EXCEPT !.state = "closed"]

RecordSuccess ==
    breaker' = [failures |-> 0, state |-> "closed", age |-> breaker.age]

\* allow(): an open breaker turns half-open once resetTimeout has passed.
Allows == breaker.state # "open" \/ breaker.age = "elapsed"

AfterAllow ==
    [breaker EXCEPT !.state = IF @ = "open" THEN "half_open" ELSE @]

\* More than resetTimeout has passed since lastFailure.
ResetTimeout ==
    /\ breaker.state = "open"
    /\ breaker.age = "recent"
    /\ breaker' = [breaker EXCEPT !.age = "elapsed"]
    /\ UNCHANGED <<pc, held, clientVars, connVars, grow, scaler>>

-----------------------------------------------------------------------------
(***************************************************************************)
(* SendCommand: Acquire, one command, Release.                             *)
(***************************************************************************)
Goto(w, l) == pc' = [pc EXCEPT ![w] = l]
Take(w, c) == held' = [held EXCEPT ![w] = c]
Drop(w)    == held' = [held EXCEPT ![w] = NoConn]

\* Acquire reads c.closed; a closed client refuses the call.
AcquireCheckClosed(w) ==
    /\ pc[w] = "idle"
    /\ closed = 0
    /\ Goto(w, "checkBreaker")
    /\ UNCHANGED <<held, clientVars, connVars, breaker, grow, scaler>>

\* Acquire asks the breaker.
AcquireCheckBreaker(w) ==
    /\ pc[w] = "checkBreaker"
    /\ IF Allows
         THEN Goto(w, "waiting") /\ breaker' = AfterAllow
         ELSE Goto(w, "idle") /\ UNCHANGED breaker
    /\ UNCHANGED <<held, clientVars, connVars, grow, scaler>>

\* The select of Acquire receives a connection ...
AcquireReceive(w) ==
    /\ pc[w] = "waiting"
    /\ \E c \in pool :
         /\ pool' = pool \ {c}
         /\ Take(w, c)
    /\ Goto(w, "have")
    /\ UNCHANGED <<poolSize, closed, draining, connVars, breaker, grow, scaler>>

\* ... or the caller's context ends first.
AcquireCtxDone(w) ==
    /\ pc[w] = "waiting"
    /\ Goto(w, "idle")
    /\ UNCHANGED <<held, clientVars, connVars, breaker, grow, scaler>>

\* The connection is connected and was used within maxIdle: no reconnect.
AcquireReuse(w) ==
    /\ pc[w] = "have"
    /\ held[w] \in connected
    /\ Goto(w, "autoGrow")
    /\ UNCHANGED <<held, clientVars, connVars, breaker, grow, scaler>>

\* Not connected, or idle for longer than maxIdle: connect() closes the old
\* socket and dials. It succeeds ...
AcquireConnect(w) ==
    /\ pc[w] = "have"
    /\ tcp' = tcp \cup {held[w]}
    /\ connected' = connected \cup {held[w]}
    /\ RecordSuccess
    /\ Goto(w, "autoGrow")
    /\ UNCHANGED <<held, clientVars, grow, scaler>>

\* Mutant: a recycled connection keeps its flag when the dial fails.
MutantConnectFails(w) ==
    /\ pc[w] = "have"
    /\ tcp' = tcp \ {held[w]}
    /\ Goto(w, "putBack")
    /\ UNCHANGED <<held, clientVars, connected, breaker, grow, scaler>>

\* ... or fails, and leaves no socket; a recycled connection had its flag
\* cleared before connect().
AcquireConnectFails(w) ==
    /\ pc[w] = "have"
    /\ tcp' = tcp \ {held[w]}
    /\ connected' = connected \ {held[w]}
    /\ Goto(w, "putBack")
    /\ UNCHANGED <<held, clientVars, breaker, grow, scaler>>

\* Mutant: a failed dial loses the connection.
MutantPutBackLost(w) ==
    /\ pc[w] = "putBack"
    /\ Drop(w)
    /\ Goto(w, "recordFail")
    /\ UNCHANGED <<clientVars, connVars, breaker, grow, scaler>>

\* Mutant: after putting the connection back, Acquire returns it anyway.
MutantPutBackKept(w) ==
    /\ pc[w] = "putBack"
    /\ Cardinality(pool) < MaxPool
    /\ pool' = pool \cup {held[w]}
    /\ Goto(w, "release")
    /\ UNCHANGED <<held, poolSize, closed, draining, connVars, breaker, grow, scaler>>

\* The send of the unconnected connection back into the channel; it blocks
\* while the channel is full.
AcquirePutBack(w) ==
    /\ pc[w] = "putBack"
    /\ Cardinality(pool) < MaxPool
    /\ pool' = pool \cup {held[w]}
    /\ Drop(w)
    /\ Goto(w, "recordFail")
    /\ UNCHANGED <<poolSize, closed, draining, connVars, breaker, grow, scaler>>

AcquireRecordFailure(w) ==
    /\ pc[w] = "recordFail"
    /\ RecordFailure
    /\ Goto(w, "idle")
    /\ UNCHANGED <<held, clientVars, connVars, grow, scaler>>

\* Less than 20% of the pool is available: start a goroutine for Grow(2).
AcquireAutoGrow(w) ==
    /\ pc[w] = "autoGrow"
    /\ IF Cardinality(pool) * 5 < poolSize
         THEN \E g \in Growers :
                /\ grow[g].at = "idle"
                /\ grow' = [grow EXCEPT ![g] = [at |-> "load", left |-> 2, cur |-> 0]]
         ELSE UNCHANGED grow
    /\ Goto(w, "using")
    /\ UNCHANGED <<held, clientVars, connVars, breaker, scaler>>

\* The command is sent and its answer read, a "-ERR" answer included.
CommandAnswered(w) ==
    /\ pc[w] = "using"
    /\ RecordSuccess
    /\ Goto(w, "release")
    /\ UNCHANGED <<held, clientVars, connVars, grow, scaler>>

\* Writing or reading fails, or the deadline passes.
CommandFails(w) ==
    /\ pc[w] = "using"
    /\ RecordFailure
    /\ connected' = connected \ {held[w]}
    /\ Goto(w, "release")
    /\ UNCHANGED <<held, clientVars, tcp, grow, scaler>>

\* Release reads c.closed: after Close the connection is dropped.
ReleaseCheckClosed(w) ==
    /\ pc[w] = "release"
    /\ \/ /\ closed = 1
          /\ tcp' = tcp \ {held[w]}
          /\ connected' = connected \ {held[w]}
          /\ Drop(w)
          /\ Goto(w, "idle")
       \/ /\ closed = 0
          /\ Goto(w, "push")
          /\ UNCHANGED <<held, tcp, connected>>
    /\ UNCHANGED <<clientVars, breaker, grow, scaler>>

\* The send of Release; it blocks while the channel is full.
ReleasePush(w) ==
    /\ pc[w] = "push"
    /\ Cardinality(pool) < MaxPool
    /\ pool' = pool \cup {held[w]}
    /\ Drop(w)
    /\ Goto(w, "idle")
    /\ UNCHANGED <<poolSize, closed, draining, connVars, breaker, grow, scaler>>

SendCommand(w) ==
    \/ AcquireCheckClosed(w) \/ AcquireCheckBreaker(w) \/ AcquireReceive(w)
    \/ AcquireCtxDone(w) \/ AcquireReuse(w) \/ AcquireConnect(w)
    \/ AcquireConnectFails(w) \/ AcquirePutBack(w) \/ AcquireRecordFailure(w)
    \/ AcquireAutoGrow(w) \/ CommandAnswered(w) \/ CommandFails(w)
    \/ ReleaseCheckClosed(w) \/ ReleasePush(w)

-----------------------------------------------------------------------------
(***************************************************************************)
(* Grow(n): n rounds of load, compare-and-swap and send; a lost race uses  *)
(* up a round.                                                             *)
(***************************************************************************)
NextRound(g) ==
    grow' = [grow EXCEPT ![g] =
        IF grow[g].left > 1
        THEN [at |-> "load", left |-> grow[g].left - 1, cur |-> 0]
        ELSE IdleGrow]

\* Mutant: the limit test of Grow is off by one.
MutantGrowLoad(g) ==
    /\ grow[g].at = "load"
    /\ grow' = [grow EXCEPT ![g] =
         IF poolSize > MaxPool THEN IdleGrow
         ELSE [at |-> "cas", left |-> grow[g].left, cur |-> poolSize]]
    /\ UNCHANGED <<pc, held, clientVars, connVars, breaker, scaler>>

GrowLoad(g) ==
    /\ grow[g].at = "load"
    /\ grow' = [grow EXCEPT ![g] =
         IF poolSize >= MaxPool THEN IdleGrow
         ELSE [at |-> "cas", left |-> grow[g].left, cur |-> poolSize]]
    /\ UNCHANGED <<pc, held, clientVars, connVars, breaker, scaler>>

GrowCAS(g) ==
    /\ grow[g].at = "cas"
    /\ IF poolSize = grow[g].cur
         THEN /\ poolSize' = poolSize + 1
              /\ grow' = [grow EXCEPT ![g].at = "push"]
         ELSE NextRound(g) /\ UNCHANGED poolSize
    /\ UNCHANGED <<pc, held, pool, closed, draining, connVars, breaker, scaler>>

\* A fresh connection is sent to the channel; blocks while it is full.
GrowPush(g) ==
    /\ grow[g].at = "push"
    /\ Cardinality(pool) < MaxPool
    /\ \E c \in Conns :
         /\ c \notin pool \cup tcp \cup connected
         /\ \A w \in Workers : held[w] # c
         /\ pool' = pool \cup {c}
    /\ NextRound(g)
    /\ UNCHANGED <<pc, held, poolSize, closed, draining, connVars, breaker, scaler>>

Grow(g) == GrowLoad(g) \/ GrowCAS(g) \/ GrowPush(g)

-----------------------------------------------------------------------------
(***************************************************************************)
(* AutoScale: every tick compares the utilisation with 80% and 20%; the    *)
(* second idle tick in a row calls Shrink(1).                              *)
(***************************************************************************)
InUse == poolSize - Cardinality(pool)
Over80 == InUse * 5 > poolSize * 4    \* utilisation > 0.8
Under20 == InUse * 5 < poolSize       \* utilisation < 0.2

\* Mutant: Shrink waits for a third idle tick.
MutantEnoughIdleTicks == scaler.idleTicks + 1 > 2

\* This idle tick is the second in a row.
EnoughIdleTicks == scaler.idleTicks + 1 >= 2

ScaleTick ==
    /\ scaler.at = "sleep"
    /\ grow[AutoScaler].at = "idle"
    /\ poolSize > 0
    /\ \/ /\ Over80
          /\ grow' = [grow EXCEPT ![AutoScaler] = [at |-> "load", left |-> 1, cur |-> 0]]
          /\ scaler' = [scaler EXCEPT !.idleTicks = 0]
       \/ /\ Under20
          /\ scaler' = IF EnoughIdleTicks
                       THEN [at |-> "load", cur |-> 0, idleTicks |-> 0]
                       ELSE [scaler EXCEPT !.idleTicks = @ + 1]
          /\ UNCHANGED grow
       \/ /\ ~Over80 /\ ~Under20
          /\ scaler' = [scaler EXCEPT !.idleTicks = 0]
          /\ UNCHANGED grow
    /\ UNCHANGED <<pc, held, clientVars, connVars, breaker>>

\* Shrink(1): load; nothing to do at minPool.
ShrinkLoad ==
    /\ scaler.at = "load"
    /\ scaler' = IF poolSize <= MinPool
                 THEN [scaler EXCEPT !.at = "sleep"]
                 ELSE [at |-> "cas", cur |-> poolSize, idleTicks |-> scaler.idleTicks]
    /\ UNCHANGED <<pc, held, clientVars, connVars, breaker, grow>>

\* Shrink(1): compare-and-swap, retried when it loses.
ShrinkCAS ==
    /\ scaler.at = "cas"
    /\ IF poolSize = scaler.cur
         THEN /\ poolSize' = poolSize - 1
              /\ scaler' = [at |-> "pop", cur |-> 0, idleTicks |-> scaler.idleTicks]
         ELSE /\ scaler' = [at |-> "load", cur |-> 0, idleTicks |-> scaler.idleTicks]
              /\ UNCHANGED poolSize
    /\ UNCHANGED <<pc, held, pool, closed, draining, connVars, breaker, grow>>

\* Mutant: Shrink forgets to restore the counter when the channel is empty.
MutantShrinkPopNoRestore ==
    /\ scaler.at = "pop"
    /\ \/ \E c \in pool :
            /\ pool' = pool \ {c}
            /\ tcp' = tcp \ {c}
            /\ connected' = connected \ {c}
       \/ pool = {} /\ UNCHANGED <<pool, tcp, connected>>
    /\ scaler' = [scaler EXCEPT !.at = "sleep"]
    /\ UNCHANGED <<pc, held, poolSize, closed, draining, breaker, grow>>

\* Mutant: Shrink forgets to close the socket of the connection it removes.
MutantShrinkPopNoClose ==
    /\ scaler.at = "pop"
    /\ \/ /\ \E c \in pool : pool' = pool \ {c}
          /\ UNCHANGED poolSize
       \/ /\ pool = {}
          /\ poolSize' = poolSize + 1
          /\ UNCHANGED pool
    /\ scaler' = [scaler EXCEPT !.at = "sleep"]
    /\ UNCHANGED <<pc, held, closed, draining, connVars, breaker, grow>>

\* Shrink(1): a connection that is in the channel is closed and forgotten;
\* with an empty channel the counter is restored.
ShrinkPop ==
    /\ scaler.at = "pop"
    /\ \/ /\ \E c \in pool :
               /\ pool' = pool \ {c}
               /\ tcp' = tcp \ {c}
               /\ connected' = connected \ {c}
          /\ UNCHANGED poolSize
       \/ /\ pool = {}
          /\ poolSize' = poolSize + 1
          /\ UNCHANGED <<pool, tcp, connected>>
    /\ scaler' = [scaler EXCEPT !.at = "sleep"]
    /\ UNCHANGED <<pc, held, closed, draining, breaker, grow>>

AutoScale == ScaleTick \/ ShrinkLoad \/ ShrinkCAS \/ ShrinkPop

-----------------------------------------------------------------------------
\* Close: only the call that swaps c.closed goes on to drain the channel.
CloseClient ==
    /\ closed = 0
    /\ closed' = 1
    /\ draining' = 1
    /\ UNCHANGED <<pc, held, pool, poolSize, connVars, breaker, grow, scaler>>

CloseDrain ==
    /\ draining = 1
    /\ \/ \E c \in pool :
            /\ pool' = pool \ {c}
            /\ tcp' = tcp \ {c}
            /\ connected' = connected \ {c}
            /\ UNCHANGED draining
       \/ /\ pool = {}
          /\ draining' = 0
          /\ UNCHANGED <<pool, tcp, connected>>
    /\ UNCHANGED <<pc, held, poolSize, closed, breaker, grow, scaler>>

Close == CloseClient \/ CloseDrain

Next ==
    \/ \E w \in Workers : SendCommand(w)
    \/ \E g \in GrowCallers : Grow(g)
    \/ AutoScale
    \/ Close
    \/ ResetTimeout

Spec == Init /\ [][Next]_vars

(***************************************************************************)
(* Fairness. Goroutines are scheduled, every command has a deadline (the   *)
(* caller's or 30 seconds), so each step of a call that has begun happens. *)
(* Receivers of a Go channel queue in arrival order, so one that waits     *)
(* while connections keep coming back gets one (strong fairness). Nobody   *)
(* is obliged to start a command, to cancel one or to close the client.    *)
(***************************************************************************)
Progress(w) ==
    \/ AcquireCheckBreaker(w) \/ AcquireReuse(w) \/ AcquireConnect(w)
    \/ AcquireConnectFails(w) \/ AcquirePutBack(w) \/ AcquireRecordFailure(w)
    \/ AcquireAutoGrow(w) \/ CommandAnswered(w) \/ CommandFails(w)
    \/ ReleaseCheckClosed(w) \/ ReleasePush(w)

Fairness ==
    /\ \A w \in Workers : WF_vars(Progress(w)) /\ SF_vars(AcquireReceive(w))
    /\ \A g \in GrowCallers : WF_vars(Grow(g))
    /\ WF_vars(AutoScale)

FairSpec == Spec /\ Fairness

-----------------------------------------------------------------------------
(***************************************************************************)
(* Properties.                                                             *)
(***************************************************************************)
\* A connection is used by one goroutine at a time: what a worker took from
\* the channel is neither in the channel nor held by another worker, so no
\* two commands are interleaved on one socket (Acquire, Release, Grow).
ConnOwnedOnce ==
    \A w \in Workers : held[w] # NoConn =>
        /\ held[w] \notin pool
        /\ \A v \in Workers : held[v] = held[w] => v = w

\* SendCommand dereferences cn.tcpConn without a test: whenever it runs, the
\* connection Acquire returned has an open socket, whatever reconnects,
\* recycling, Shrink and Close did before.
UsableSocket == \A w \in Workers : pc[w] = "using" => held[w] \in tcp

\* No socket is lost: one that is open belongs to a connection in the channel
\* or in the hands of a worker (connect, Shrink, Release and Close).
SocketsAccounted ==
    \A c \in tcp : c \in pool \/ \E w \in Workers : held[w] = c

Holders == {w \in Workers : held[w] # NoConn}
Pushers == {g \in GrowCallers : grow[g].at = "push"}
\* Connections that exist, or that a Grow has counted and is about to add.
Tokens == Cardinality(pool) + Cardinality(Holders) + Cardinality(Pushers)
\* Shrink has uncounted a connection and has not yet removed or restored it.
ShrinkDebt == IF scaler.at = "pop" THEN 1 ELSE 0

\* The counter poolSize that Grow, Shrink and AutoScale decide on is the
\* number of connections, up to the one a Shrink in progress has already
\* subtracted; after Close it may only count too many.
TokensMatchPoolSize ==
    /\ closed = 0 => Tokens = poolSize + ShrinkDebt
    /\ Tokens <= poolSize + ShrinkDebt

\* Grow and Shrink racing each other overshoot maxPool by one at most, and
\* Shrink never goes below minPool.
OvershootAtMostOne ==
    /\ poolSize + ShrinkDebt <= MaxPool + 1
    /\ MinPool <= poolSize

\* The breaker is closed exactly while fewer than threshold failures have
\* been recorded since the last success, whatever results arrive late from
\* commands that were sent before it opened.
BreakerCoherent == (breaker.state = "closed") <=> (breaker.failures < Threshold)

\* Until the client is closed, a worker that waits for a connection gets one
\* or gives up: connections are returned on every path of SendCommand.
NoStarvation ==
    \A w \in Workers : pc[w] = "waiting" ~> (pc[w] # "waiting" \/ closed = 1)
=============================================================================
