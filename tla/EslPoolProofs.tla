---------------------------- MODULE EslPoolProofs ----------------------------
(***************************************************************************)
(* Proofs about EslPool, for any number of workers, Grow goroutines and    *)
(* connections and for any pool limits. The inductive invariant is built   *)
(* in layers: each one is preserved by every step that starts in a state   *)
(* in which the layers below it hold.                                      *)
(***************************************************************************)
EXTENDS EslPool, FiniteSetTheorems, TLAPS

\* Layer 1: a worker has a connection exactly at the places that use one.
HeldInv == \A w \in Workers : (held[w] \in Conns) <=> (pc[w] \in HoldingPC)

\* ... and what a pending compare-and-swap remembers of the limits.
CasInv ==
    /\ \A g \in GrowCallers : grow[g].at = "cas" => grow[g].cur < MaxPool
    /\ scaler.at = "cas" => scaler.cur > MinPool

BaseInv == TypeOK /\ HeldInv /\ CasInv

\* Layer 3: sockets. A set flag means an open socket, and a worker that has
\* been handed its connection has one.
SocketInv ==
    /\ connected \subseteq tcp
    /\ \A w \in Workers : pc[w] \in {"autoGrow", "using"} => held[w] \in tcp
    /\ SocketsAccounted

\* Layer 4: only a closed client is drained, and the counters agree.
TokenInv ==
    /\ draining = 1 => closed = 1
    /\ TokensMatchPoolSize

-----------------------------------------------------------------------------
\* Layer 1 is inductive on its own: types, and HeldInv for the sockets' sake.
LEMMA BaseStep == BaseInv /\ [Next]_vars => BaseInv'
  <1> SUFFICES ASSUME BaseInv, [Next]_vars PROVE BaseInv'
    OBVIOUS
  <1> USE EslAssumption DEF BaseInv, HeldInv, CasInv, TypeOK, WorkerPC, HoldingPC, GrowPC,
      ScalerPC, BreakerState, GrowCallers, clientVars, connVars
  <1>1. ASSUME NEW w \in Workers, SendCommand(w) PROVE BaseInv'
    <2>1. CASE AcquireCheckClosed(w)
      BY <2>1 DEF AcquireCheckClosed, Goto
    <2>2. CASE AcquireCheckBreaker(w)
      BY <2>2 DEF AcquireCheckBreaker, Goto, Allows, AfterAllow
    <2>3. CASE AcquireReceive(w)
      BY <2>3 DEF AcquireReceive, Goto, Take
    <2>4. CASE AcquireCtxDone(w)
      BY <2>4 DEF AcquireCtxDone, Goto
    <2>5. CASE AcquireReuse(w)
      BY <2>5 DEF AcquireReuse, Goto
    <2>6. CASE AcquireConnect(w)
      BY <2>6 DEF AcquireConnect, Goto, RecordSuccess
    <2>7. CASE AcquireConnectFails(w)
      BY <2>7 DEF AcquireConnectFails, Goto
    <2>8. CASE AcquirePutBack(w)
      BY <2>8 DEF AcquirePutBack, Goto, Drop
    <2>9. CASE AcquireRecordFailure(w)
      BY <2>9 DEF AcquireRecordFailure, Goto, RecordFailure
    <2>10. CASE AcquireAutoGrow(w)
      BY <2>10 DEF AcquireAutoGrow, Goto
    <2>11. CASE CommandAnswered(w)
      BY <2>11 DEF CommandAnswered, Goto, RecordSuccess
    <2>12. CASE CommandFails(w)
      BY <2>12 DEF CommandFails, Goto, RecordFailure
    <2>13. CASE ReleaseCheckClosed(w)
      BY <2>13 DEF ReleaseCheckClosed, Goto, Drop
    <2>14. CASE ReleasePush(w)
      BY <2>14 DEF ReleasePush, Goto, Drop
    <2> QED BY <1>1, <2>1, <2>2, <2>3, <2>4, <2>5, <2>6, <2>7, <2>8, <2>9, <2>10, <2>11,
        <2>12, <2>13, <2>14 DEF SendCommand
  <1>2. ASSUME NEW g \in GrowCallers, Grow(g) PROVE BaseInv'
    <2>1. CASE GrowLoad(g)
      BY <2>1 DEF GrowLoad, IdleGrow
    <2>2. CASE GrowCAS(g)
      BY <2>2 DEF GrowCAS, NextRound, IdleGrow
    <2>3. CASE GrowPush(g)
      BY <2>3 DEF GrowPush, NextRound, IdleGrow
    <2> QED BY <1>2, <2>1, <2>2, <2>3 DEF Grow
  <1>3. CASE AutoScale
    <2>1. CASE ScaleTick
      BY <2>1 DEF ScaleTick, Over80, Under20, EnoughIdleTicks, InUse
    <2>2. CASE ShrinkLoad
      BY <2>2 DEF ShrinkLoad
    <2>3. CASE ShrinkCAS
      BY <2>3 DEF ShrinkCAS
    <2>4. CASE ShrinkPop
      BY <2>4 DEF ShrinkPop
    <2> QED BY <1>3, <2>1, <2>2, <2>3, <2>4 DEF AutoScale
  <1>4. CASE Close
    <2>1. CASE CloseClient
      BY <2>1 DEF CloseClient
    <2>2. CASE CloseDrain
      BY <2>2 DEF CloseDrain
    <2> QED BY <1>4, <2>1, <2>2 DEF Close
  <1>5. CASE ResetTimeout
    BY <1>5 DEF ResetTimeout
  <1>6. CASE UNCHANGED vars
    BY <1>6 DEF vars
  <1> QED BY <1>1, <1>2, <1>3, <1>4, <1>5, <1>6 DEF Next

\* Layer 2: a connection changes hands only through the channel.
LEMMA OwnStep == BaseInv /\ ConnOwnedOnce /\ [Next]_vars => ConnOwnedOnce'
  <1> SUFFICES ASSUME BaseInv, ConnOwnedOnce, [Next]_vars PROVE ConnOwnedOnce'
    OBVIOUS
  <1> USE EslAssumption DEF ConnOwnedOnce, BaseInv, HeldInv, CasInv, TypeOK, WorkerPC,
      HoldingPC, GrowPC, ScalerPC, BreakerState, GrowCallers, clientVars, connVars
  <1>1. ASSUME NEW w \in Workers, SendCommand(w) PROVE ConnOwnedOnce'
    <2>1. CASE AcquireCheckClosed(w)
      BY <2>1 DEF AcquireCheckClosed, Goto
    <2>2. CASE AcquireCheckBreaker(w)
      BY <2>2 DEF AcquireCheckBreaker, Goto, Allows, AfterAllow
    <2>3. CASE AcquireReceive(w)
      BY <2>3 DEF AcquireReceive, Goto, Take
    <2>4. CASE AcquireCtxDone(w)
      BY <2>4 DEF AcquireCtxDone, Goto
    <2>5. CASE AcquireReuse(w)
      BY <2>5 DEF AcquireReuse, Goto
    <2>6. CASE AcquireConnect(w)
      BY <2>6 DEF AcquireConnect, Goto, RecordSuccess
    <2>7. CASE AcquireConnectFails(w)
      BY <2>7 DEF AcquireConnectFails, Goto
    <2>8. CASE AcquirePutBack(w)
      BY <2>8 DEF AcquirePutBack, Goto, Drop
    <2>9. CASE AcquireRecordFailure(w)
      BY <2>9 DEF AcquireRecordFailure, Goto, RecordFailure
    <2>10. CASE AcquireAutoGrow(w)
      BY <2>10 DEF AcquireAutoGrow, Goto
    <2>11. CASE CommandAnswered(w)
      BY <2>11 DEF CommandAnswered, Goto, RecordSuccess
    <2>12. CASE CommandFails(w)
      BY <2>12 DEF CommandFails, Goto, RecordFailure
    <2>13. CASE ReleaseCheckClosed(w)
      BY <2>13 DEF ReleaseCheckClosed, Goto, Drop
    <2>14. CASE ReleasePush(w)
      BY <2>14 DEF ReleasePush, Goto, Drop
    <2> QED BY <1>1, <2>1, <2>2, <2>3, <2>4, <2>5, <2>6, <2>7, <2>8, <2>9, <2>10, <2>11,
        <2>12, <2>13, <2>14 DEF SendCommand
  <1>2. ASSUME NEW g \in GrowCallers, Grow(g) PROVE ConnOwnedOnce'
    <2>1. CASE GrowLoad(g)
      BY <2>1 DEF GrowLoad, IdleGrow
    <2>2. CASE GrowCAS(g)
      BY <2>2 DEF GrowCAS, NextRound, IdleGrow
    <2>3. CASE GrowPush(g)
      BY <2>3 DEF GrowPush, NextRound, IdleGrow
    <2> QED BY <1>2, <2>1, <2>2, <2>3 DEF Grow
  <1>3. CASE AutoScale
    <2>1. CASE ScaleTick
      BY <2>1 DEF ScaleTick, Over80, Under20, EnoughIdleTicks, InUse
    <2>2. CASE ShrinkLoad
      BY <2>2 DEF ShrinkLoad
    <2>3. CASE ShrinkCAS
      BY <2>3 DEF ShrinkCAS
    <2>4. CASE ShrinkPop
      BY <2>4 DEF ShrinkPop
    <2> QED BY <1>3, <2>1, <2>2, <2>3, <2>4 DEF AutoScale
  <1>4. CASE Close
    <2>1. CASE CloseClient
      BY <2>1 DEF CloseClient
    <2>2. CASE CloseDrain
      BY <2>2 DEF CloseDrain
    <2> QED BY <1>4, <2>1, <2>2 DEF Close
  <1>5. CASE ResetTimeout
    BY <1>5 DEF ResetTimeout
  <1>6. CASE UNCHANGED vars
    BY <1>6 DEF vars
  <1> QED BY <1>1, <1>2, <1>3, <1>4, <1>5, <1>6 DEF Next

\* Layer 3: a socket is closed only by the owner of its connection.
LEMMA SocketStep == BaseInv /\ ConnOwnedOnce /\ SocketInv /\ [Next]_vars => SocketInv'
  <1> SUFFICES ASSUME BaseInv, ConnOwnedOnce, SocketInv, [Next]_vars PROVE SocketInv'
    OBVIOUS
  <1> USE EslAssumption DEF SocketInv, SocketsAccounted, ConnOwnedOnce, BaseInv, HeldInv,
      CasInv, TypeOK, WorkerPC, HoldingPC, GrowPC, ScalerPC, BreakerState, GrowCallers,
          clientVars, connVars
  <1>1. ASSUME NEW w \in Workers, SendCommand(w) PROVE SocketInv'
    <2>1. CASE AcquireCheckClosed(w)
      BY <2>1 DEF AcquireCheckClosed, Goto
    <2>2. CASE AcquireCheckBreaker(w)
      BY <2>2 DEF AcquireCheckBreaker, Goto, Allows, AfterAllow
    <2>3. CASE AcquireReceive(w)
      BY <2>3 DEF AcquireReceive, Goto, Take
    <2>4. CASE AcquireCtxDone(w)
      BY <2>4 DEF AcquireCtxDone, Goto
    <2>5. CASE AcquireReuse(w)
      BY <2>5 DEF AcquireReuse, Goto
    <2>6. CASE AcquireConnect(w)
      BY <2>6 DEF AcquireConnect, Goto, RecordSuccess
    <2>7. CASE AcquireConnectFails(w)
      BY <2>7 DEF AcquireConnectFails, Goto
    <2>8. CASE AcquirePutBack(w)
      BY <2>8 DEF AcquirePutBack, Goto, Drop
    <2>9. CASE AcquireRecordFailure(w)
      BY <2>9 DEF AcquireRecordFailure, Goto, RecordFailure
    <2>10. CASE AcquireAutoGrow(w)
      BY <2>10 DEF AcquireAutoGrow, Goto
    <2>11. CASE CommandAnswered(w)
      BY <2>11 DEF CommandAnswered, Goto, RecordSuccess
    <2>12. CASE CommandFails(w)
      BY <2>12 DEF CommandFails, Goto, RecordFailure
    <2>13. CASE ReleaseCheckClosed(w)
      BY <2>13 DEF ReleaseCheckClosed, Goto, Drop
    <2>14. CASE ReleasePush(w)
      BY <2>14 DEF ReleasePush, Goto, Drop
    <2> QED BY <1>1, <2>1, <2>2, <2>3, <2>4, <2>5, <2>6, <2>7, <2>8, <2>9, <2>10, <2>11,
        <2>12, <2>13, <2>14 DEF SendCommand
  <1>2. ASSUME NEW g \in GrowCallers, Grow(g) PROVE SocketInv'
    <2>1. CASE GrowLoad(g)
      BY <2>1 DEF GrowLoad, IdleGrow
    <2>2. CASE GrowCAS(g)
      BY <2>2 DEF GrowCAS, NextRound, IdleGrow
    <2>3. CASE GrowPush(g)
      BY <2>3 DEF GrowPush, NextRound, IdleGrow
    <2> QED BY <1>2, <2>1, <2>2, <2>3 DEF Grow
  <1>3. CASE AutoScale
    <2>1. CASE ScaleTick
      BY <2>1 DEF ScaleTick, Over80, Under20, EnoughIdleTicks, InUse
    <2>2. CASE ShrinkLoad
      BY <2>2 DEF ShrinkLoad
    <2>3. CASE ShrinkCAS
      BY <2>3 DEF ShrinkCAS
    <2>4. CASE ShrinkPop
      BY <2>4 DEF ShrinkPop
    <2> QED BY <1>3, <2>1, <2>2, <2>3, <2>4 DEF AutoScale
  <1>4. CASE Close
    <2>1. CASE CloseClient
      BY <2>1 DEF CloseClient
    <2>2. CASE CloseDrain
      BY <2>2 DEF CloseDrain
    <2> QED BY <1>4, <2>1, <2>2 DEF Close
  <1>5. CASE ResetTimeout
    BY <1>5 DEF ResetTimeout
  <1>6. CASE UNCHANGED vars
    BY <1>6 DEF vars
  <1> QED BY <1>1, <1>2, <1>3, <1>4, <1>5, <1>6 DEF Next

\* Layer 5: the limits.
LEMMA LimitStep == BaseInv /\ OvershootAtMostOne /\ [Next]_vars => OvershootAtMostOne'
  <1> SUFFICES ASSUME BaseInv, OvershootAtMostOne, [Next]_vars PROVE OvershootAtMostOne'
    OBVIOUS
  <1> USE EslAssumption DEF OvershootAtMostOne, ShrinkDebt, BaseInv, CasInv, TypeOK,
      WorkerPC, HoldingPC, GrowPC, ScalerPC, BreakerState, GrowCallers, clientVars, connVars
  <1>1. ASSUME NEW w \in Workers, SendCommand(w) PROVE OvershootAtMostOne'
    <2>1. CASE AcquireCheckClosed(w)
      BY <2>1 DEF AcquireCheckClosed, Goto
    <2>2. CASE AcquireCheckBreaker(w)
      BY <2>2 DEF AcquireCheckBreaker, Goto, Allows, AfterAllow
    <2>3. CASE AcquireReceive(w)
      BY <2>3 DEF AcquireReceive, Goto, Take
    <2>4. CASE AcquireCtxDone(w)
      BY <2>4 DEF AcquireCtxDone, Goto
    <2>5. CASE AcquireReuse(w)
      BY <2>5 DEF AcquireReuse, Goto
    <2>6. CASE AcquireConnect(w)
      BY <2>6 DEF AcquireConnect, Goto, RecordSuccess
    <2>7. CASE AcquireConnectFails(w)
      BY <2>7 DEF AcquireConnectFails, Goto
    <2>8. CASE AcquirePutBack(w)
      BY <2>8 DEF AcquirePutBack, Goto, Drop
    <2>9. CASE AcquireRecordFailure(w)
      BY <2>9 DEF AcquireRecordFailure, Goto, RecordFailure
    <2>10. CASE AcquireAutoGrow(w)
      BY <2>10 DEF AcquireAutoGrow, Goto
    <2>11. CASE CommandAnswered(w)
      BY <2>11 DEF CommandAnswered, Goto, RecordSuccess
    <2>12. CASE CommandFails(w)
      BY <2>12 DEF CommandFails, Goto, RecordFailure
    <2>13. CASE ReleaseCheckClosed(w)
      BY <2>13 DEF ReleaseCheckClosed, Goto, Drop
    <2>14. CASE ReleasePush(w)
      BY <2>14 DEF ReleasePush, Goto, Drop
    <2> QED BY <1>1, <2>1, <2>2, <2>3, <2>4, <2>5, <2>6, <2>7, <2>8, <2>9, <2>10, <2>11,
        <2>12, <2>13, <2>14 DEF SendCommand
  <1>2. ASSUME NEW g \in GrowCallers, Grow(g) PROVE OvershootAtMostOne'
    <2>1. CASE GrowLoad(g)
      BY <2>1 DEF GrowLoad, IdleGrow
    <2>2. CASE GrowCAS(g)
      BY <2>2 DEF GrowCAS, NextRound, IdleGrow
    <2>3. CASE GrowPush(g)
      BY <2>3 DEF GrowPush, NextRound, IdleGrow
    <2> QED BY <1>2, <2>1, <2>2, <2>3 DEF Grow
  <1>3. CASE AutoScale
    <2>1. CASE ScaleTick
      BY <2>1 DEF ScaleTick, Over80, Under20, EnoughIdleTicks, InUse
    <2>2. CASE ShrinkLoad
      BY <2>2 DEF ShrinkLoad
    <2>3. CASE ShrinkCAS
      BY <2>3 DEF ShrinkCAS
    <2>4. CASE ShrinkPop
      BY <2>4 DEF ShrinkPop
    <2> QED BY <1>3, <2>1, <2>2, <2>3, <2>4 DEF AutoScale
  <1>4. CASE Close
    <2>1. CASE CloseClient
      BY <2>1 DEF CloseClient
    <2>2. CASE CloseDrain
      BY <2>2 DEF CloseDrain
    <2> QED BY <1>4, <2>1, <2>2 DEF Close
  <1>5. CASE ResetTimeout
    BY <1>5 DEF ResetTimeout
  <1>6. CASE UNCHANGED vars
    BY <1>6 DEF vars
  <1> QED BY <1>1, <1>2, <1>3, <1>4, <1>5, <1>6 DEF Next

\* The breaker's two fields move together.
LEMMA BreakerStep == BaseInv /\ BreakerCoherent /\ [Next]_vars => BreakerCoherent'
  <1> SUFFICES ASSUME BaseInv, BreakerCoherent, [Next]_vars PROVE BreakerCoherent'
    OBVIOUS
  <1> USE EslAssumption DEF BreakerCoherent, BaseInv, TypeOK, WorkerPC, HoldingPC, GrowPC,
      ScalerPC, BreakerState, GrowCallers, clientVars, connVars
  <1>1. ASSUME NEW w \in Workers, SendCommand(w) PROVE BreakerCoherent'
    <2>1. CASE AcquireCheckClosed(w)
      BY <2>1 DEF AcquireCheckClosed, Goto
    <2>2. CASE AcquireCheckBreaker(w)
      BY <2>2 DEF AcquireCheckBreaker, Goto, Allows, AfterAllow
    <2>3. CASE AcquireReceive(w)
      BY <2>3 DEF AcquireReceive, Goto, Take
    <2>4. CASE AcquireCtxDone(w)
      BY <2>4 DEF AcquireCtxDone, Goto
    <2>5. CASE AcquireReuse(w)
      BY <2>5 DEF AcquireReuse, Goto
    <2>6. CASE AcquireConnect(w)
      BY <2>6 DEF AcquireConnect, Goto, RecordSuccess
    <2>7. CASE AcquireConnectFails(w)
      BY <2>7 DEF AcquireConnectFails, Goto
    <2>8. CASE AcquirePutBack(w)
      BY <2>8 DEF AcquirePutBack, Goto, Drop
    <2>9. CASE AcquireRecordFailure(w)
      BY <2>9 DEF AcquireRecordFailure, Goto, RecordFailure
    <2>10. CASE AcquireAutoGrow(w)
      BY <2>10 DEF AcquireAutoGrow, Goto
    <2>11. CASE CommandAnswered(w)
      BY <2>11 DEF CommandAnswered, Goto, RecordSuccess
    <2>12. CASE CommandFails(w)
      BY <2>12 DEF CommandFails, Goto, RecordFailure
    <2>13. CASE ReleaseCheckClosed(w)
      BY <2>13 DEF ReleaseCheckClosed, Goto, Drop
    <2>14. CASE ReleasePush(w)
      BY <2>14 DEF ReleasePush, Goto, Drop
    <2> QED BY <1>1, <2>1, <2>2, <2>3, <2>4, <2>5, <2>6, <2>7, <2>8, <2>9, <2>10, <2>11,
        <2>12, <2>13, <2>14 DEF SendCommand
  <1>2. ASSUME NEW g \in GrowCallers, Grow(g) PROVE BreakerCoherent'
    <2>1. CASE GrowLoad(g)
      BY <2>1 DEF GrowLoad, IdleGrow
    <2>2. CASE GrowCAS(g)
      BY <2>2 DEF GrowCAS, NextRound, IdleGrow
    <2>3. CASE GrowPush(g)
      BY <2>3 DEF GrowPush, NextRound, IdleGrow
    <2> QED BY <1>2, <2>1, <2>2, <2>3 DEF Grow
  <1>3. CASE AutoScale
    <2>1. CASE ScaleTick
      BY <2>1 DEF ScaleTick, Over80, Under20, EnoughIdleTicks, InUse
    <2>2. CASE ShrinkLoad
      BY <2>2 DEF ShrinkLoad
    <2>3. CASE ShrinkCAS
      BY <2>3 DEF ShrinkCAS
    <2>4. CASE ShrinkPop
      BY <2>4 DEF ShrinkPop
    <2> QED BY <1>3, <2>1, <2>2, <2>3, <2>4 DEF AutoScale
  <1>4. CASE Close
    <2>1. CASE CloseClient
      BY <2>1 DEF CloseClient
    <2>2. CASE CloseDrain
      BY <2>2 DEF CloseDrain
    <2> QED BY <1>4, <2>1, <2>2 DEF Close
  <1>5. CASE ResetTimeout
    BY <1>5 DEF ResetTimeout
  <1>6. CASE UNCHANGED vars
    BY <1>6 DEF vars
  <1> QED BY <1>1, <1>2, <1>3, <1>4, <1>5, <1>6 DEF Next

\* The three sets the connections are counted in are finite.
LEMMA TokensFinite ==
  ASSUME BaseInv
  PROVE  /\ IsFiniteSet(pool) /\ IsFiniteSet(Holders) /\ IsFiniteSet(Pushers)
         /\ Cardinality(pool) \in Nat /\ Cardinality(Holders) \in Nat
         /\ Cardinality(Pushers) \in Nat
  <1>1. IsFiniteSet(pool)
    BY FS_Subset, EslAssumption DEF BaseInv, TypeOK
  <1>2. IsFiniteSet(Holders)
    BY FS_Subset, EslAssumption DEF Holders
  <1>3. IsFiniteSet(Pushers)
    <2>1. IsFiniteSet(GrowCallers)
      BY FS_AddElement, EslAssumption DEF GrowCallers
    <2> QED BY <2>1, FS_Subset DEF Pushers
  <1> QED BY <1>1, <1>2, <1>3, FS_CardinalityType

\* Layer 4: a step moves a connection from one counted set to another, or
\* changes their number and poolSize together.
LEMMA TokenStep == BaseInv /\ ConnOwnedOnce /\ TokenInv /\ [Next]_vars => TokenInv'
  <1> SUFFICES ASSUME BaseInv, ConnOwnedOnce, TokenInv, [Next]_vars PROVE TokenInv'
    OBVIOUS
  <1> USE EslAssumption
  <1>1. ASSUME NEW w \in Workers, SendCommand(w) PROVE TokenInv'
    <2>1. CASE AcquireCheckClosed(w)
      <3>1. pool' = pool /\ Holders' = Holders /\ Pushers' = Pushers
        BY <2>1 DEF Holders, Pushers, AcquireCheckClosed, Goto, BaseInv, HeldInv, CasInv,
            TypeOK, WorkerPC, HoldingPC, GrowPC, ScalerPC, BreakerState, GrowCallers,
                clientVars, connVars
      <3> QED BY <2>1, <3>1 DEF Tokens, ShrinkDebt, TokensMatchPoolSize, TokenInv,
          AcquireCheckClosed, Goto, clientVars, connVars
    <2>2. CASE AcquireCheckBreaker(w)
      <3>1. pool' = pool /\ Holders' = Holders /\ Pushers' = Pushers
        BY <2>2 DEF Holders, Pushers, AcquireCheckBreaker, Goto, Allows, AfterAllow,
            BaseInv, HeldInv, CasInv, TypeOK, WorkerPC, HoldingPC, GrowPC, ScalerPC,
                BreakerState, GrowCallers, clientVars, connVars
      <3> QED BY <2>2, <3>1 DEF Tokens, ShrinkDebt, TokensMatchPoolSize, TokenInv,
          AcquireCheckBreaker, Goto, Allows, AfterAllow, clientVars, connVars
    <2>3. CASE AcquireReceive(w)
      <3> PICK c \in pool : pool' = pool \ {c} /\ Take(w, c)
        BY <2>3 DEF AcquireReceive
      <3>1. Holders' = Holders \cup {w} /\ w \notin Holders /\ Pushers' = Pushers
        BY <2>3 DEF Holders, Pushers, AcquireReceive, Goto, Take, BaseInv, HeldInv, CasInv,
            TypeOK, WorkerPC, HoldingPC, GrowPC, ScalerPC, BreakerState, GrowCallers,
                clientVars, connVars
      <3>2. Cardinality(pool') = Cardinality(pool) - 1
        BY FS_RemoveElement, TokensFinite
      <3>3. Cardinality(Holders') = Cardinality(Holders) + 1
        BY <3>1, FS_AddElement, TokensFinite
      <3> QED BY <2>3, <3>1, <3>2, <3>3, TokensFinite DEF Tokens, ShrinkDebt,
          TokensMatchPoolSize, TokenInv, AcquireReceive, clientVars, connVars, BaseInv, TypeOK
    <2>4. CASE AcquireCtxDone(w)
      <3>1. pool' = pool /\ Holders' = Holders /\ Pushers' = Pushers
        BY <2>4 DEF Holders, Pushers, AcquireCtxDone, Goto, BaseInv, HeldInv, CasInv,
            TypeOK, WorkerPC, HoldingPC, GrowPC, ScalerPC, BreakerState, GrowCallers,
                clientVars, connVars
      <3> QED BY <2>4, <3>1 DEF Tokens, ShrinkDebt, TokensMatchPoolSize, TokenInv,
          AcquireCtxDone, Goto, clientVars, connVars
    <2>5. CASE AcquireReuse(w)
      <3>1. pool' = pool /\ Holders' = Holders /\ Pushers' = Pushers
        BY <2>5 DEF Holders, Pushers, AcquireReuse, Goto, BaseInv, HeldInv, CasInv, TypeOK,
            WorkerPC, HoldingPC, GrowPC, ScalerPC, BreakerState, GrowCallers, clientVars,
                connVars
      <3> QED BY <2>5, <3>1 DEF Tokens, ShrinkDebt, TokensMatchPoolSize, TokenInv,
          AcquireReuse, Goto, clientVars, connVars
    <2>6. CASE AcquireConnect(w)
      <3>1. pool' = pool /\ Holders' = Holders /\ Pushers' = Pushers
        BY <2>6 DEF Holders, Pushers, AcquireConnect, Goto, RecordSuccess, BaseInv,
            HeldInv, CasInv, TypeOK, WorkerPC, HoldingPC, GrowPC, ScalerPC, BreakerState,
                GrowCallers, clientVars, connVars
      <3> QED BY <2>6, <3>1 DEF Tokens, ShrinkDebt, TokensMatchPoolSize, TokenInv,
          AcquireConnect, Goto, RecordSuccess, clientVars, connVars
    <2>7. CASE AcquireConnectFails(w)
      <3>1. pool' = pool /\ Holders' = Holders /\ Pushers' = Pushers
        BY <2>7 DEF Holders, Pushers, AcquireConnectFails, Goto, BaseInv, HeldInv, CasInv,
            TypeOK, WorkerPC, HoldingPC, GrowPC, ScalerPC, BreakerState, GrowCallers,
                clientVars, connVars
      <3> QED BY <2>7, <3>1 DEF Tokens, ShrinkDebt, TokensMatchPoolSize, TokenInv,
          AcquireConnectFails, Goto, clientVars, connVars
    <2>8. CASE AcquirePutBack(w)
      <3>1. /\ pool' = pool \cup {held[w]} /\ held[w] \notin pool
            /\ Holders' = Holders \ {w} /\ w \in Holders /\ Pushers' = Pushers
        BY <2>8 DEF Holders, Pushers, ConnOwnedOnce, AcquirePutBack, Goto, Drop, BaseInv,
            HeldInv, CasInv, TypeOK, WorkerPC, HoldingPC, GrowPC, ScalerPC, BreakerState,
                GrowCallers, clientVars, connVars
      <3>2. Cardinality(pool') = Cardinality(pool) + 1
        BY <3>1, FS_AddElement, TokensFinite
      <3>3. Cardinality(Holders') = Cardinality(Holders) - 1
        BY <3>1, FS_RemoveElement, TokensFinite
      <3> QED BY <2>8, <3>1, <3>2, <3>3, TokensFinite DEF Tokens, ShrinkDebt,
          TokensMatchPoolSize, TokenInv, AcquirePutBack, clientVars, connVars, BaseInv, TypeOK
    <2>9. CASE AcquireRecordFailure(w)
      <3>1. pool' = pool /\ Holders' = Holders /\ Pushers' = Pushers
        BY <2>9 DEF Holders, Pushers, AcquireRecordFailure, Goto, RecordFailure, BaseInv,
            HeldInv, CasInv, TypeOK, WorkerPC, HoldingPC, GrowPC, ScalerPC, BreakerState,
                GrowCallers, clientVars, connVars
      <3> QED BY <2>9, <3>1 DEF Tokens, ShrinkDebt, TokensMatchPoolSize, TokenInv,
          AcquireRecordFailure, Goto, RecordFailure, clientVars, connVars
    <2>10. CASE AcquireAutoGrow(w)
      <3>1. pool' = pool /\ Holders' = Holders /\ Pushers' = Pushers
        BY <2>10 DEF Holders, Pushers, AcquireAutoGrow, Goto, BaseInv, HeldInv, CasInv,
            TypeOK, WorkerPC, HoldingPC, GrowPC, ScalerPC, BreakerState, GrowCallers,
                clientVars, connVars
      <3> QED BY <2>10, <3>1 DEF Tokens, ShrinkDebt, TokensMatchPoolSize, TokenInv,
          AcquireAutoGrow, Goto, clientVars, connVars
    <2>11. CASE CommandAnswered(w)
      <3>1. pool' = pool /\ Holders' = Holders /\ Pushers' = Pushers
        BY <2>11 DEF Holders, Pushers, CommandAnswered, Goto, RecordSuccess, BaseInv,
            HeldInv, CasInv, TypeOK, WorkerPC, HoldingPC, GrowPC, ScalerPC, BreakerState,
                GrowCallers, clientVars, connVars
      <3> QED BY <2>11, <3>1 DEF Tokens, ShrinkDebt, TokensMatchPoolSize, TokenInv,
          CommandAnswered, Goto, RecordSuccess, clientVars, connVars
    <2>12. CASE CommandFails(w)
      <3>1. pool' = pool /\ Holders' = Holders /\ Pushers' = Pushers
        BY <2>12 DEF Holders, Pushers, CommandFails, Goto, RecordFailure, BaseInv, HeldInv,
            CasInv, TypeOK, WorkerPC, HoldingPC, GrowPC, ScalerPC, BreakerState,
                GrowCallers, clientVars, connVars
      <3> QED BY <2>12, <3>1 DEF Tokens, ShrinkDebt, TokensMatchPoolSize, TokenInv,
          CommandFails, Goto, RecordFailure, clientVars, connVars
    <2>13. CASE ReleaseCheckClosed(w)
      <3>1. pool' = pool /\ Pushers' = Pushers
        BY <2>13 DEF Pushers, ReleaseCheckClosed, Goto, Drop, clientVars, connVars
      <3>2. CASE closed = 0
        <4>1. Holders' = Holders
          BY <2>13, <3>2 DEF Holders, ReleaseCheckClosed, Goto, Drop, BaseInv, HeldInv,
              CasInv, TypeOK, WorkerPC, HoldingPC, GrowPC, ScalerPC, BreakerState,
                  GrowCallers, clientVars, connVars
        <4> QED BY <2>13, <3>1, <4>1 DEF Tokens, ShrinkDebt, TokensMatchPoolSize, TokenInv,
            ReleaseCheckClosed, Goto, Drop, clientVars, connVars
      <3>3. CASE closed = 1
        <4>1. Holders' = Holders \ {w} /\ w \in Holders
          BY <2>13, <3>3 DEF Holders, ReleaseCheckClosed, Goto, Drop, BaseInv, HeldInv,
              CasInv, TypeOK, WorkerPC, HoldingPC, GrowPC, ScalerPC, BreakerState,
                  GrowCallers, clientVars, connVars
        <4>2. Cardinality(Holders') = Cardinality(Holders) - 1
          BY <4>1, FS_RemoveElement, TokensFinite
        <4> QED BY <2>13, <3>1, <3>3, <4>2, TokensFinite DEF Tokens, ShrinkDebt,
            TokensMatchPoolSize, TokenInv, ReleaseCheckClosed, clientVars, connVars,
                BaseInv, TypeOK
      <3> QED BY <3>2, <3>3 DEF BaseInv, TypeOK
    <2>14. CASE ReleasePush(w)
      <3>1. /\ pool' = pool \cup {held[w]} /\ held[w] \notin pool
            /\ Holders' = Holders \ {w} /\ w \in Holders /\ Pushers' = Pushers
        BY <2>14 DEF Holders, Pushers, ConnOwnedOnce, ReleasePush, Goto, Drop, BaseInv,
            HeldInv, CasInv, TypeOK, WorkerPC, HoldingPC, GrowPC, ScalerPC, BreakerState,
                GrowCallers, clientVars, connVars
      <3>2. Cardinality(pool') = Cardinality(pool) + 1
        BY <3>1, FS_AddElement, TokensFinite
      <3>3. Cardinality(Holders') = Cardinality(Holders) - 1
        BY <3>1, FS_RemoveElement, TokensFinite
      <3> QED BY <2>14, <3>1, <3>2, <3>3, TokensFinite DEF Tokens, ShrinkDebt,
          TokensMatchPoolSize, TokenInv, ReleasePush, clientVars, connVars, BaseInv, TypeOK
    <2> QED BY <1>1, <2>1, <2>2, <2>3, <2>4, <2>5, <2>6, <2>7, <2>8, <2>9, <2>10, <2>11,
        <2>12, <2>13, <2>14 DEF SendCommand
  <1>2. ASSUME NEW g \in GrowCallers, Grow(g) PROVE TokenInv'
    <2>1. CASE GrowLoad(g)
      <3>1. pool' = pool /\ Holders' = Holders /\ Pushers' = Pushers
        BY <2>1 DEF Holders, Pushers, GrowLoad, IdleGrow, BaseInv, HeldInv, CasInv, TypeOK,
            WorkerPC, HoldingPC, GrowPC, ScalerPC, BreakerState, GrowCallers, clientVars,
                connVars
      <3> QED BY <2>1, <3>1 DEF Tokens, ShrinkDebt, TokensMatchPoolSize, TokenInv,
          GrowLoad, clientVars, connVars
    <2>2. CASE GrowCAS(g)
      <3>1. pool' = pool /\ Holders' = Holders
        BY <2>2 DEF Holders, GrowCAS
      <3>2. CASE poolSize = grow[g].cur
        <4>1. Pushers' = Pushers \cup {g} /\ g \notin Pushers
          BY <2>2, <3>2 DEF Pushers, GrowCAS, BaseInv, HeldInv, CasInv, TypeOK, WorkerPC,
              HoldingPC, GrowPC, ScalerPC, BreakerState, GrowCallers, clientVars, connVars
        <4>2. Cardinality(Pushers') = Cardinality(Pushers) + 1
          BY <4>1, FS_AddElement, TokensFinite
        <4> QED BY <2>2, <3>1, <3>2, <4>2, TokensFinite DEF Tokens, ShrinkDebt,
            TokensMatchPoolSize, TokenInv, GrowCAS, clientVars, connVars, BaseInv, TypeOK
      <3>3. CASE poolSize # grow[g].cur
        <4>1. Pushers' = Pushers
          BY <2>2, <3>3 DEF Pushers, GrowCAS, NextRound, IdleGrow, BaseInv, HeldInv,
              CasInv, TypeOK, WorkerPC, HoldingPC, GrowPC, ScalerPC, BreakerState,
                  GrowCallers, clientVars, connVars
        <4> QED BY <2>2, <3>1, <3>3, <4>1 DEF Tokens, ShrinkDebt, TokensMatchPoolSize,
            TokenInv, GrowCAS, clientVars, connVars
      <3> QED BY <3>2, <3>3
    <2>3. CASE GrowPush(g)
      <3> PICK c \in Conns : c \notin pool /\ pool' = pool \cup {c}
        BY <2>3 DEF GrowPush
      <3>1. Holders' = Holders /\ Pushers' = Pushers \ {g} /\ g \in Pushers
        BY <2>3 DEF Holders, Pushers, GrowPush, NextRound, IdleGrow, BaseInv, HeldInv,
            CasInv, TypeOK, WorkerPC, HoldingPC, GrowPC, ScalerPC, BreakerState,
                GrowCallers, clientVars, connVars
      <3>2. Cardinality(pool') = Cardinality(pool) + 1
        BY FS_AddElement, TokensFinite
      <3>3. Cardinality(Pushers') = Cardinality(Pushers) - 1
        BY <3>1, FS_RemoveElement, TokensFinite
      <3> QED BY <2>3, <3>1, <3>2, <3>3, TokensFinite DEF Tokens, ShrinkDebt,
          TokensMatchPoolSize, TokenInv, GrowPush, clientVars, connVars, BaseInv, TypeOK
    <2> QED BY <1>2, <2>1, <2>2, <2>3 DEF Grow
  <1>3. CASE AutoScale
    <2>1. CASE ScaleTick
      <3>1. pool' = pool /\ Holders' = Holders /\ Pushers' = Pushers
        BY <2>1 DEF Holders, Pushers, ScaleTick, Over80, Under20, EnoughIdleTicks, InUse,
            BaseInv, HeldInv, CasInv, TypeOK, WorkerPC, HoldingPC, GrowPC, ScalerPC,
                BreakerState, GrowCallers, clientVars, connVars
      <3> QED BY <2>1, <3>1 DEF Tokens, ShrinkDebt, TokensMatchPoolSize, TokenInv,
          ScaleTick, Over80, Under20, EnoughIdleTicks, InUse, BaseInv, HeldInv, CasInv,
              TypeOK, WorkerPC, HoldingPC, GrowPC, ScalerPC, BreakerState, GrowCallers,
                  clientVars, connVars
    <2>2. CASE ShrinkLoad
      <3>1. pool' = pool /\ Holders' = Holders /\ Pushers' = Pushers
        BY <2>2 DEF Holders, Pushers, ShrinkLoad, BaseInv, HeldInv, CasInv, TypeOK,
            WorkerPC, HoldingPC, GrowPC, ScalerPC, BreakerState, GrowCallers, clientVars,
                connVars
      <3> QED BY <2>2, <3>1 DEF Tokens, ShrinkDebt, TokensMatchPoolSize, TokenInv,
          ShrinkLoad, BaseInv, HeldInv, CasInv, TypeOK, WorkerPC, HoldingPC, GrowPC,
              ScalerPC, BreakerState, GrowCallers, clientVars, connVars
    <2>3. CASE ShrinkCAS
      <3>1. pool' = pool /\ Holders' = Holders /\ Pushers' = Pushers
        BY <2>3 DEF Holders, Pushers, ShrinkCAS
      <3> QED BY <2>3, <3>1, TokensFinite DEF Tokens, ShrinkDebt, TokensMatchPoolSize,
          TokenInv, ShrinkCAS, BaseInv, HeldInv, CasInv, TypeOK, WorkerPC, HoldingPC,
              GrowPC, ScalerPC, BreakerState, GrowCallers, clientVars, connVars
    <2>4. CASE ShrinkPop
      <3>1. Holders' = Holders /\ Pushers' = Pushers
        BY <2>4 DEF Holders, Pushers, ShrinkPop
      <3>2. ASSUME NEW c \in pool, pool' = pool \ {c}, poolSize' = poolSize
            PROVE  TokenInv'
        <4>1. Cardinality(pool') = Cardinality(pool) - 1
          BY <3>2, FS_RemoveElement, TokensFinite
        <4> QED BY <2>4, <3>1, <3>2, <4>1, TokensFinite DEF Tokens, ShrinkDebt,
            TokensMatchPoolSize, TokenInv, ShrinkPop, BaseInv, HeldInv, CasInv, TypeOK,
                WorkerPC, HoldingPC, GrowPC, ScalerPC, BreakerState, GrowCallers,
                    clientVars, connVars
      <3>3. CASE pool' = pool /\ poolSize' = poolSize + 1
        BY <2>4, <3>1, <3>3, TokensFinite DEF Tokens, ShrinkDebt, TokensMatchPoolSize,
            TokenInv, ShrinkPop, BaseInv, HeldInv, CasInv, TypeOK, WorkerPC, HoldingPC,
                GrowPC, ScalerPC, BreakerState, GrowCallers, clientVars, connVars
      <3> QED BY <2>4, <3>2, <3>3 DEF ShrinkPop
    <2> QED BY <1>3, <2>1, <2>2, <2>3, <2>4 DEF AutoScale
  <1>4. CASE Close
    <2>1. CASE CloseClient
      <3>1. pool' = pool /\ Holders' = Holders /\ Pushers' = Pushers
        BY <2>1 DEF Holders, Pushers, CloseClient
      <3> QED BY <2>1, <3>1 DEF Tokens, ShrinkDebt, TokensMatchPoolSize, TokenInv, CloseClient
    <2>2. CASE CloseDrain
      <3>1. Holders' = Holders /\ Pushers' = Pushers
        BY <2>2 DEF Holders, Pushers, CloseDrain
      <3>2. ASSUME NEW c \in pool, pool' = pool \ {c}, draining' = draining
            PROVE  TokenInv'
        <4>1. Cardinality(pool') = Cardinality(pool) - 1
          BY <3>2, FS_RemoveElement, TokensFinite
        <4> QED BY <2>2, <3>1, <3>2, <4>1, TokensFinite DEF Tokens, ShrinkDebt,
            TokensMatchPoolSize, TokenInv, CloseDrain, BaseInv, HeldInv, CasInv, TypeOK,
                WorkerPC, HoldingPC, GrowPC, ScalerPC, BreakerState, GrowCallers,
                    clientVars, connVars
      <3>3. CASE pool' = pool /\ draining' = 0
        BY <2>2, <3>1, <3>3, TokensFinite DEF Tokens, ShrinkDebt, TokensMatchPoolSize,
            TokenInv, CloseDrain
      <3> QED BY <2>2, <3>2, <3>3 DEF CloseDrain
    <2> QED BY <1>4, <2>1, <2>2 DEF Close
  <1>5. CASE ResetTimeout
    BY <1>5 DEF Tokens, ShrinkDebt, TokensMatchPoolSize, TokenInv, Holders, Pushers,
        ResetTimeout, clientVars, connVars
  <1>6. CASE UNCHANGED vars
    BY <1>6 DEF Tokens, ShrinkDebt, TokensMatchPoolSize, TokenInv, Holders, Pushers, vars
  <1> QED BY <1>1, <1>2, <1>3, <1>4, <1>5, <1>6 DEF Next

-----------------------------------------------------------------------------
\* The whole inductive invariant.
IInv == BaseInv /\ ConnOwnedOnce /\ SocketInv /\ OvershootAtMostOne /\ TokenInv
        /\ BreakerCoherent

\* Initially nobody holds anything and the channel has InitPool connections.
LEMMA InitIInv == Init => IInv
  <1> SUFFICES ASSUME Init PROVE IInv
    OBVIOUS
  <1> USE EslAssumption DEF Init, IdleGrow
  <1>1. BaseInv
    BY DEF BaseInv, HeldInv, CasInv, TypeOK, WorkerPC, HoldingPC, GrowPC, ScalerPC,
           BreakerState, GrowCallers
  <1>2. ConnOwnedOnce /\ SocketInv /\ BreakerCoherent
    BY DEF ConnOwnedOnce, SocketInv, SocketsAccounted, BreakerCoherent
  <1>3. OvershootAtMostOne
    BY DEF OvershootAtMostOne, ShrinkDebt
  <1>4. TokenInv
    <2>1. Holders = {} /\ Pushers = {}
      BY DEF Holders, Pushers
    <2>2. Cardinality(pool) = InitPool
      OBVIOUS
    <2> QED BY <2>1, <2>2, FS_EmptySet DEF TokenInv, TokensMatchPoolSize, Tokens, ShrinkDebt
  <1> QED BY <1>1, <1>2, <1>3, <1>4 DEF IInv

LEMMA Inductive == Spec => []IInv
  <1>1. IInv /\ [Next]_vars => IInv'
    BY BaseStep, OwnStep, SocketStep, LimitStep, TokenStep, BreakerStep DEF IInv
  <1> QED BY InitIInv, <1>1, PTL DEF Spec

\* The type invariant of the client's state, for any pool and any callers.
THEOREM TypeCorrect == Spec => []TypeOK
  BY Inductive, PTL DEF IInv, BaseInv

\* Acquire and Release give a connection to one caller at a time.
THEOREM Exclusive == Spec => []ConnOwnedOnce
  BY Inductive, PTL DEF IInv

\* SendCommand always runs on an open socket.
THEOREM SocketOpen == Spec => []UsableSocket
  <1>1. IInv => UsableSocket
    BY DEF IInv, SocketInv, UsableSocket
  <1> QED BY Inductive, <1>1, PTL

\* No open socket is ever forgotten by connect, Shrink, Release or Close.
THEOREM NoSocketLost == Spec => []SocketsAccounted
  <1>1. IInv => SocketsAccounted
    BY DEF IInv, SocketInv
  <1> QED BY Inductive, <1>1, PTL

\* poolSize counts the connections, in spite of all races on it.
THEOREM CounterExact == Spec => []TokensMatchPoolSize
  <1>1. IInv => TokensMatchPoolSize
    BY DEF IInv, TokenInv
  <1> QED BY Inductive, <1>1, PTL

\* Racing Grow and Shrink stay between minPool and maxPool + 1.
THEOREM Overshoot == Spec => []OvershootAtMostOne
  BY Inductive, PTL DEF IInv

\* The breaker is closed exactly below the threshold.
THEOREM BreakerConsistent == Spec => []BreakerCoherent
  BY Inductive, PTL DEF IInv
=============================================================================
