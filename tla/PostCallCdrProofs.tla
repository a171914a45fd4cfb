------------------------- MODULE PostCallCdrProofs -------------------------
(***************************************************************************)
(* Proofs about PostCallCdr, for any finite set of calls and any number of *)
(* workers, days, deliveries and faults: the statistics are exact, and the *)
(* system implements CdrLedger. The inductive invariant says that whoever  *)
(* is about to commit holds the row lock on an unprocessed call, and that  *)
(* everything that can lead to a transaction (messages, rows found by the  *)
(* reconciler, EndCalls in progress) is about a call that has started.     *)
(***************************************************************************)
EXTENDS PostCallCdr, FiniteSetTheorems, TLAPS

Started(c) == start[c] \in Days

EndingOK == \A c \in ending : Started(c) /\ ends[c] < MaxEnds
StreamOK == \A m \in Msgs : stream[m] # "none" => Started(m[1])
TodoOK == \A c \in todo : Started(c)
ProcessedOK == \A c \in processed : Started(c)
ActorOK(a) ==
    /\ act[a].at \in {"insert", "commit"} => act[a].call \in Calls /\ Started(act[a].call)
    /\ act[a].at = "commit" => lock[act[a].call] = a /\ act[a].call \notin processed
    /\ act[a].msg # None => Started(act[a].msg[1])
ActorsOK == \A a \in Actors : ActorOK(a)

(* The inductive invariant.                                                  *)
CdrInv == TypeOK /\ EndingOK /\ StreamOK /\ TodoOK /\ ProcessedOK /\ ActorsOK

Places == {"idle", "scan", "insert", "commit", "ok", "error"}
ActType == [Actors -> [at : Places, call : Calls \cup {None}, msg : Msgs \cup {None}]]

-----------------------------------------------------------------------------
LEMMA InitCdrInv == Init => CdrInv
<1> SUFFICES ASSUME Init PROVE CdrInv
    OBVIOUS
<1>1. TypeOK
    <2>1. 0 \in Days /\ 0 \in 0..MaxEnds /\ 0 \in 0..MaxDeliver /\ 0 \in 0..MaxFaults
        BY CdrAssumption DEF Days
    <2>2. act \in ActType
        BY DEF Init, ActType, Places, Idle
    <2> QED
        BY <2>1, <2>2 DEF Init, TypeOK, ActType, Places
<1> QED
    BY <1>1 DEF Init, CdrInv, EndingOK, StreamOK, TodoOK, ProcessedOK, ActorsOK, ActorOK, Idle

(* A step that leaves locks and processed calls alone, keeps started calls   *)
(* started and moves at most one actor, to a place where it holds nothing.   *)
LEMMA ActorsKept ==
    ASSUME CdrInv, processed' = processed, lock' = lock,
           \A c \in Calls : Started(c) => Started(c)',
           NEW b \in Actors, NEW x, act' = [act EXCEPT ![b] = x],
           x.at # "commit",
           x.at = "insert" => x.call \in Calls /\ Started(x.call),
           x.msg = None \/ (x.msg \in Msgs /\ Started(x.msg[1]))
    PROVE  ActorsOK'
<1>1. act \in ActType /\ ActorsOK
    BY DEF CdrInv, TypeOK, ActType, Places
<1>m. \A m \in Msgs : m[1] \in Calls
    BY DEF Msgs
<1>2. ASSUME NEW a \in Actors PROVE ActorOK(a)'
    <2>1. CASE a = b
        <3>1. act'[a] = x
            BY <1>1, <2>1 DEF ActType
        <3> QED
            BY <3>1, <1>m DEF ActorOK
    <2>2. CASE a # b
        <3>1. act'[a] = act[a]
            BY <1>1, <2>2 DEF ActType
        <3>2. ActorOK(a)
            BY <1>1 DEF ActorsOK
        <3>3. act[a].msg \in Msgs \cup {None}
            BY <1>1 DEF ActType
        <3> QED
            BY <3>1, <3>2, <3>3, <1>m DEF ActorOK
    <2> QED
        BY <2>1, <2>2
<1> QED
    BY <1>2 DEF ActorsOK

(* The same when nobody moves.                                               *)
LEMMA NobodyMoves ==
    ASSUME CdrInv, processed' = processed, lock' = lock, act' = act,
           \A c \in Calls : Started(c) => Started(c)'
    PROVE  ActorsOK'
<1>1. \A a \in Actors : act[a].msg = None \/ act[a].msg[1] \in Calls
    BY DEF CdrInv, TypeOK, Msgs
<1> QED
    BY <1>1 DEF CdrInv, ActorsOK, ActorOK

(* An actor leaves its transaction: only its own locks go, and what it       *)
(* commits is its own call.                                                  *)
LEMMA TransactionEnds ==
    ASSUME CdrInv, NEW b \in Actors, NEW place \in {"ok", "error"}, GoTo(b, place), Unlock(b),
           start' = start,
           \/ processed' = processed
           \/ act[b].at = "commit" /\ processed' = processed \cup {act[b].call}
    PROVE  ActorsOK' /\ act' \in ActType /\ lock' \in [Calls -> Actors \cup {None}]
<1>1. act \in ActType /\ ActorsOK /\ lock \in [Calls -> Actors \cup {None}]
    BY DEF CdrInv, TypeOK, ActType, Places
<1>2. act' \in ActType
    BY <1>1 DEF GoTo, ActType, Places
<1>3. lock' \in [Calls -> Actors \cup {None}]
    BY <1>1 DEF Unlock
<1>4. ASSUME NEW a \in Actors PROVE ActorOK(a)'
    <2>1. CASE a = b
        <3>1. act'[a].at = place /\ act'[a].msg = act[a].msg
            BY <1>1, <2>1 DEF ActType, GoTo
        <3>2. ActorOK(a)
            BY <1>1 DEF ActorsOK
        <3> QED
            BY <3>1, <3>2 DEF ActorOK, Started
    <2>2. CASE a # b
        <3>1. act'[a] = act[a]
            BY <1>1, <2>2 DEF ActType, GoTo
        <3>2. ActorOK(a) /\ ActorOK(b)
            BY <1>1 DEF ActorsOK
        <3>3. act[a].at = "commit" => lock'[act[a].call] = a /\ act[a].call \notin processed'
            <4> SUFFICES ASSUME act[a].at = "commit"
                         PROVE  lock'[act[a].call] = a /\ act[a].call \notin processed'
                OBVIOUS
            <4>1. lock[act[a].call] = a /\ act[a].call \in Calls /\ act[a].call \notin processed
                BY <3>2 DEF ActorOK
            <4>2. lock'[act[a].call] = a
                BY <4>1, <2>2 DEF Unlock
            <4>3. act[b].at = "commit" => act[a].call # act[b].call
                BY <4>1, <3>2, <2>2 DEF ActorOK
            <4> QED
                BY <4>1, <4>2, <4>3
        <3> QED
            BY <3>1, <3>2, <3>3 DEF ActorOK, Started
    <2> QED
        BY <2>1, <2>2
<1> QED
    BY <1>2, <1>3, <1>4 DEF ActorsOK

(* What Fold does to the committed tables.                                   *)
LEMMA FoldFacts ==
    ASSUME CdrInv, NEW a \in Actors, act[a].at = "commit", Fold(a)
    PROVE  /\ act[a].call \in Calls /\ Started(act[a].call) /\ act[a].call \notin processed
           /\ processed' = processed \cup {act[a].call}
           /\ summary' = [summary EXCEPT ![start[act[a].call]] = @ + 1]
           /\ summary' \in [Days -> Nat]
           /\ Unlock(a)
<1>1. ActorOK(a) /\ summary \in [Days -> Nat]
    BY DEF CdrInv, ActorsOK, TypeOK
<1>2. act[a].call \in Calls /\ start[act[a].call] \in Days /\ act[a].call \notin processed
    BY <1>1 DEF ActorOK, Started
<1>3. summary[start[act[a].call]] + 1 \in Nat
    BY <1>1, <1>2
<1> QED
    BY <1>1, <1>2, <1>3 DEF Fold, Started

-----------------------------------------------------------------------------
(* Every step preserves the invariant.                                       *)
LEMMA NextCdrInv == CdrInv /\ [Next]_vars => CdrInv'
<1> SUFFICES ASSUME CdrInv, [Next]_vars PROVE CdrInv'
    OBVIOUS
<1>0. TypeOK /\ EndingOK /\ StreamOK /\ TodoOK /\ ProcessedOK /\ ActorsOK
    BY DEF CdrInv
<1>t. act \in ActType
    BY <1>0 DEF TypeOK, ActType, Places
<1>w. \A w \in Workers : w \in Actors
    BY DEF Actors
<1>r. Reconciler \in Actors
    BY DEF Actors
<1>1. ASSUME NEW c \in Calls, StartCall(c) PROVE CdrInv'
    <2>1. TypeOK'
        BY <1>1, <1>0 DEF StartCall, TypeOK, natsVars, dbVars
    <2>2. EndingOK' /\ StreamOK' /\ TodoOK' /\ ProcessedOK'
        BY <1>1, <1>0, CdrAssumption DEF StartCall, TypeOK, natsVars, dbVars, Msgs, EndingOK, StreamOK, TodoOK, ProcessedOK, Started
    <2>3. ActorsOK'
        <3>1. \A x \in Calls : Started(x) => Started(x)'
            BY <1>1, <1>0 DEF StartCall, TypeOK, Started
        <3> QED
            BY <3>1, <1>1, NobodyMoves DEF StartCall, dbVars
    <2> QED
        BY <2>1, <2>2, <2>3 DEF CdrInv
<1>2. ASSUME NEW c \in Calls, EndCall(c) PROVE CdrInv'
    <2>1. TypeOK'
        BY <1>2, <1>0 DEF EndCall, TypeOK, natsVars, dbVars
    <2>2. EndingOK' /\ StreamOK' /\ TodoOK' /\ ProcessedOK'
        BY <1>2, <1>0 DEF EndCall, TypeOK, natsVars, dbVars, EndingOK, StreamOK, TodoOK, ProcessedOK, Started
    <2>3. ActorsOK'
        BY <1>2, NobodyMoves DEF EndCall, Started, callVars, natsVars, dbVars
    <2> QED
        BY <2>1, <2>2, <2>3 DEF CdrInv
<1>3. ASSUME NEW c \in Calls, Publish(c) PROVE CdrInv'
    <2>1. TypeOK'
        <3>1. ends[c] < MaxEnds /\ ends[c] \in 0..MaxEnds /\ Started(c)
            BY <1>3, <1>0 DEF Publish, EndingOK, TypeOK
        <3>2. ends[c] + 1 \in 0..MaxEnds
            BY <3>1, CdrAssumption
        <3> QED
            BY <3>2, <1>3, <1>0 DEF Publish, TypeOK, dbVars
    <2>2. EndingOK' /\ StreamOK' /\ TodoOK' /\ ProcessedOK'
        BY <1>3, <1>0 DEF Publish, TypeOK, dbVars, Msgs, EndingOK, StreamOK, TodoOK, ProcessedOK, Started
    <2>3. ActorsOK'
        BY <1>3, NobodyMoves DEF Publish, Started, callVars, natsVars, dbVars
    <2> QED
        BY <2>1, <2>2, <2>3 DEF CdrInv
<1>4. ASSUME NEW c \in Calls, PublishFails(c) PROVE CdrInv'
    <2>1. TypeOK'
        <3>1. ends[c] < MaxEnds /\ ends[c] \in 0..MaxEnds
            BY <1>4, <1>0 DEF PublishFails, EndingOK, TypeOK
        <3>2. ends[c] + 1 \in 0..MaxEnds
            BY <3>1, CdrAssumption
        <3> QED
            BY <3>2, <1>4, <1>0, CdrAssumption DEF PublishFails, TypeOK, dbVars, natsVars, Faulty
    <2>2. EndingOK' /\ StreamOK' /\ TodoOK' /\ ProcessedOK'
        BY <1>4, <1>0 DEF PublishFails, TypeOK, dbVars, natsVars, EndingOK, StreamOK, TodoOK, ProcessedOK, Started
    <2>3. ActorsOK'
        BY <1>4, NobodyMoves DEF PublishFails, Started, callVars, natsVars, dbVars
    <2> QED
        BY <2>1, <2>2, <2>3 DEF CdrInv
<1>5. ASSUME NEW m \in Msgs, AckTimeout(m) PROVE CdrInv'
    <2>1. TypeOK'
        BY <1>5, <1>0 DEF AckTimeout, TypeOK, callVars, dbVars
    <2>2. EndingOK' /\ StreamOK' /\ TodoOK' /\ ProcessedOK'
        BY <1>5, <1>0 DEF AckTimeout, TypeOK, callVars, dbVars, EndingOK, StreamOK, TodoOK, ProcessedOK, Started
    <2>3. ActorsOK'
        BY <1>5, NobodyMoves DEF AckTimeout, Started, callVars, natsVars, dbVars
    <2> QED
        BY <2>1, <2>2, <2>3 DEF CdrInv
<1>6. ASSUME NEW w \in Workers, NEW m \in Msgs, Deliver(w, m) PROVE CdrInv'
    <2>1. TypeOK'
        <3>1. tries[m] + 1 \in 0..MaxDeliver
            BY <1>6, <1>0, CdrAssumption DEF Deliver, TypeOK
        <3> QED
            BY <3>1, <1>6, <1>0, <1>w DEF Deliver, TypeOK, callVars, dbVars, Msgs
    <2>2. EndingOK' /\ StreamOK' /\ TodoOK' /\ ProcessedOK'
        BY <1>6, <1>0 DEF Deliver, TypeOK, callVars, dbVars, EndingOK, StreamOK, TodoOK, ProcessedOK, Started
    <2>3. ActorsOK'
        <3>1. m[1] \in Calls /\ Started(m[1])
            BY <1>6, <1>0 DEF Deliver, StreamOK, Msgs
        <3> DEFINE x == [at |-> "insert", call |-> m[1], msg |-> m]
        <3>2. act' = [act EXCEPT ![w] = x] /\ UNCHANGED <<start, processed, lock>>
            BY <1>6 DEF Deliver, callVars, dbVars
        <3>3. x.at = "insert" /\ x.call = m[1] /\ x.msg = m
            OBVIOUS
        <3> HIDE DEF x
        <3> QED
            BY <3>1, <3>2, <3>3, <1>w, ActorsKept DEF Started
    <2> QED
        BY <2>1, <2>2, <2>3 DEF CdrInv
<1>7. ASSUME NEW w \in Workers, Ack(w) PROVE CdrInv'
    <2>1. TypeOK'
        BY <1>7, <1>0, <1>w DEF Ack, TypeOK, callVars, dbVars, Idle
    <2>2. EndingOK' /\ StreamOK' /\ TodoOK' /\ ProcessedOK'
        <3>1. \A m \in Msgs : stream'[m] # "none" => stream[m] # "none" \/ m = act[w].msg
            BY <1>7, <1>0 DEF Ack, TypeOK
        <3>2. ActorOK(w)
            BY <1>0, <1>w DEF ActorsOK
        <3>3. \A m \in Msgs : m # None
            BY CdrAssumption
        <3>4. StreamOK'
            BY <3>1, <3>2, <3>3, <1>7, <1>0 DEF Ack, callVars, StreamOK, ActorOK, Started
        <3> QED
            BY <3>4, <1>7, <1>0 DEF Ack, callVars, dbVars, EndingOK, TodoOK, ProcessedOK, Started
    <2>3. ActorsOK'
        <3> DEFINE x == Idle
        <3>2. act' = [act EXCEPT ![w] = x] /\ UNCHANGED <<start, processed, lock>>
            BY <1>7 DEF Ack, callVars, dbVars
        <3>3. x.at \in {"idle", "scan"} /\ x.msg = None
            BY DEF Idle
        <3> HIDE DEF x
        <3> QED
            BY <3>2, <3>3, <1>w, <1>r, <1>7, ActorsKept DEF Started
    <2> QED
        BY <2>1, <2>2, <2>3 DEF CdrInv
<1>8. ASSUME NEW w \in Workers, Nak(w) PROVE CdrInv'
    <2>1. TypeOK'
        BY <1>8, <1>0, <1>w DEF Nak, TypeOK, callVars, dbVars, Idle
    <2>2. EndingOK' /\ StreamOK' /\ TodoOK' /\ ProcessedOK'
        <3>1. \A m \in Msgs : stream'[m] # "none" => stream[m] # "none" \/ (m = act[w].msg /\ act[w].at = "ok")
            BY <1>8, <1>0 DEF Nak, TypeOK
        <3> QED
            BY <3>1, <1>8, <1>0 DEF Nak, callVars, dbVars, EndingOK, StreamOK, TodoOK, ProcessedOK, Started
    <2>3. ActorsOK'
        <3> DEFINE x == Idle
        <3>2. act' = [act EXCEPT ![w] = x] /\ UNCHANGED <<start, processed, lock>>
            BY <1>8 DEF Nak, callVars, dbVars
        <3>3. x.at \in {"idle", "scan"} /\ x.msg = None
            BY DEF Idle
        <3> HIDE DEF x
        <3> QED
            BY <3>2, <3>3, <1>w, <1>r, <1>8, ActorsKept DEF Started
    <2> QED
        BY <2>1, <2>2, <2>3 DEF CdrInv
<1>9. ASSUME NEW a \in Actors, InsertProcessed(a) PROVE CdrInv'
    <2>1. TypeOK'
        <3>1. act' \in ActType
            BY <1>9, <1>t DEF InsertProcessed, GoTo, ActType, Places
        <3>2. lock' \in [Calls -> Actors \cup {None}]
            BY <1>9, <1>0 DEF InsertProcessed, TypeOK
        <3> QED
            BY <3>1, <3>2, <1>9, <1>0 DEF InsertProcessed, TypeOK, ActType, Places, callVars, natsVars
    <2>2. EndingOK' /\ StreamOK' /\ TodoOK' /\ ProcessedOK'
        BY <1>9, <1>0 DEF InsertProcessed, callVars, natsVars, EndingOK, StreamOK, TodoOK, ProcessedOK, Started
    <2>3. ActorsOK'
        <3>1. ASSUME NEW b \in Actors PROVE ActorOK(b)'
            <4>1. ActorOK(a) /\ ActorOK(b) /\ act[a].call \in Calls
                BY <1>9, <1>0 DEF ActorsOK, ActorOK, InsertProcessed
            <4>2. CASE b = a
                <5>1. act'[a].at = "commit" /\ act'[a].call = act[a].call /\ act'[a].msg = act[a].msg
                    BY <1>9, <1>t DEF InsertProcessed, GoTo, ActType
                <5>2. lock'[act[a].call] = a
                    BY <1>9, <1>0, <4>1 DEF InsertProcessed, TypeOK
                <5> QED
                    BY <1>9, <4>1, <4>2, <5>1, <5>2 DEF ActorOK, InsertProcessed, Started, callVars
            <4>3. CASE b # a
                <5>1. act'[b] = act[b]
                    BY <1>9, <1>t, <4>3 DEF InsertProcessed, GoTo, ActType
                <5>2. act[b].at = "commit" => act[b].call # act[a].call
                    BY <1>9, <4>1, CdrAssumption DEF InsertProcessed, ActorOK, Actors
                <5>3. act[b].at = "commit" => lock'[act[b].call] = lock[act[b].call]
                    BY <1>9, <5>2, <1>0, <4>1 DEF InsertProcessed, TypeOK, ActorOK
                <5> QED
                    BY <1>9, <4>1, <5>1, <5>3 DEF ActorOK, InsertProcessed, Started, callVars
            <4> QED
                BY <4>2, <4>3
        <3> QED
            BY <3>1 DEF ActorsOK
    <2> QED
        BY <2>1, <2>2, <2>3 DEF CdrInv
<1>10. ASSUME NEW a \in Actors, Duplicate(a) PROVE CdrInv'
    <2>1. TypeOK'
        BY <1>10, <1>0 DEF Duplicate, GoTo, TypeOK, callVars, natsVars, dbVars
    <2>2. EndingOK' /\ StreamOK' /\ TodoOK' /\ ProcessedOK'
        BY <1>10, <1>0 DEF Duplicate, callVars, natsVars, dbVars, EndingOK, StreamOK, TodoOK, ProcessedOK, Started
    <2>3. ActorsOK'
        <3>1. act' = [act EXCEPT ![a] = [act[a] EXCEPT !.at = "ok"]]
            BY <1>10, <1>t DEF Duplicate, GoTo, ActType
        <3>2. [act[a] EXCEPT !.at = "ok"].at = "ok"
            BY <1>t DEF ActType
        <3>3. /\ [act[a] EXCEPT !.at = "ok"].msg = act[a].msg
              /\ act[a].msg = None \/ (act[a].msg \in Msgs /\ Started(act[a].msg[1]))
            BY <1>t, <1>0 DEF ActType, ActorsOK, ActorOK
        <3> QED
            BY <3>1, <3>2, <3>3, <1>10, ActorsKept DEF Duplicate, callVars, dbVars, Started
    <2> QED
        BY <2>1, <2>2, <2>3 DEF CdrInv
<1>11. ASSUME NEW a \in Actors, Commit(a) PROVE CdrInv'
    <2>1. /\ act[a].call \in Calls /\ Started(act[a].call)
          /\ processed' = processed \cup {act[a].call}
          /\ summary' \in [Days -> Nat] /\ Unlock(a)
        BY <1>11, FoldFacts DEF Commit
    <2>2. ActorsOK' /\ act' \in ActType /\ lock' \in [Calls -> Actors \cup {None}]
        BY <1>11, <2>1, TransactionEnds DEF Commit, callVars
    <2>3. EndingOK' /\ StreamOK' /\ TodoOK' /\ ProcessedOK'
        BY <1>11, <2>1, <1>0 DEF Commit, callVars, natsVars, EndingOK, StreamOK, TodoOK, ProcessedOK, Started
    <2> QED
        BY <1>11, <2>1, <2>2, <2>3, <1>0, CdrAssumption DEF Commit, CdrInv, TypeOK, ActType, Places, callVars, natsVars, Faulty
<1>12. ASSUME NEW a \in Actors, CommitAnswerLost(a) PROVE CdrInv'
    <2>1. /\ act[a].call \in Calls /\ Started(act[a].call)
          /\ processed' = processed \cup {act[a].call}
          /\ summary' \in [Days -> Nat] /\ Unlock(a)
        BY <1>12, FoldFacts DEF CommitAnswerLost
    <2>2. ActorsOK' /\ act' \in ActType /\ lock' \in [Calls -> Actors \cup {None}]
        BY <1>12, <2>1, TransactionEnds DEF CommitAnswerLost, callVars
    <2>3. EndingOK' /\ StreamOK' /\ TodoOK' /\ ProcessedOK'
        BY <1>12, <2>1, <1>0 DEF CommitAnswerLost, callVars, natsVars, EndingOK, StreamOK, TodoOK, ProcessedOK, Started
    <2> QED
        BY <1>12, <2>1, <2>2, <2>3, <1>0, CdrAssumption DEF CommitAnswerLost, CdrInv, TypeOK, ActType, Places, callVars, natsVars, Faulty
<1>13. ASSUME NEW a \in Actors, RollBack(a) PROVE CdrInv'
    <2>2. ActorsOK' /\ act' \in ActType /\ lock' \in [Calls -> Actors \cup {None}]
        BY <1>13, TransactionEnds DEF RollBack, callVars
    <2>3. EndingOK' /\ StreamOK' /\ TodoOK' /\ ProcessedOK'
        BY <1>13, <1>0 DEF RollBack, callVars, natsVars, EndingOK, StreamOK, TodoOK, ProcessedOK, Started
    <2> QED
        BY <1>13, <2>2, <2>3, <1>0, CdrAssumption DEF RollBack, CdrInv, TypeOK, ActType, Places, callVars, natsVars, Faulty
<1>14. ASSUME ReconcileQuery PROVE CdrInv'
    <2>1. TypeOK'
        <3>1. act' \in ActType
            BY <1>14, <1>t DEF ReconcileQuery, GoTo, ActType, Places
        <3>2. todo' \subseteq Calls
            BY <1>14 DEF ReconcileQuery, Missing
        <3> QED
            BY <3>1, <3>2, <1>14, <1>0 DEF ReconcileQuery, TypeOK, ActType, Places, callVars, natsVars, dbVars
    <2>2. EndingOK' /\ StreamOK' /\ TodoOK' /\ ProcessedOK'
        <3>1. \A c \in todo' : c \in Missing
            BY <1>14 DEF ReconcileQuery
        <3>2. \A c \in Missing : Started(c)
            BY <1>0, CdrAssumption DEF Missing, Started, TypeOK, Days, callVars
        <3> QED
            BY <3>1, <3>2, <1>14, <1>0 DEF ReconcileQuery, callVars, natsVars, dbVars, EndingOK, StreamOK, TodoOK, ProcessedOK, Started
    <2>3. ActorsOK'
        <3>1. act' = [act EXCEPT ![Reconciler] = [act[Reconciler] EXCEPT !.at = "scan"]]
            BY <1>14, <1>t DEF ReconcileQuery, GoTo, ActType
        <3>2. [act[Reconciler] EXCEPT !.at = "scan"].at = "scan"
            BY <1>t, <1>r DEF ActType
        <3>3. [act[Reconciler] EXCEPT !.at = "scan"].msg = None
            BY <1>14, <1>t, <1>r DEF ReconcileQuery, Idle, ActType
        <3> QED
            BY <3>1, <3>2, <3>3, <1>r, <1>14, ActorsKept DEF ReconcileQuery, callVars, dbVars, Started
    <2> QED
        BY <2>1, <2>2, <2>3 DEF CdrInv
<1>15. ASSUME ReconcileQueryFails PROVE CdrInv'
    <2>1. TypeOK'
        BY <1>15, <1>0, CdrAssumption DEF ReconcileQueryFails, TypeOK, callVars, natsVars, dbVars, Faulty
    <2>2. EndingOK' /\ StreamOK' /\ TodoOK' /\ ProcessedOK'
        BY <1>15, <1>0 DEF ReconcileQueryFails, callVars, natsVars, dbVars, EndingOK, StreamOK, TodoOK, ProcessedOK, Started
    <2>3. ActorsOK'
        BY <1>15, NobodyMoves DEF ReconcileQueryFails, Started, callVars, natsVars, dbVars
    <2> QED
        BY <2>1, <2>2, <2>3 DEF CdrInv
<1>16. ASSUME ReconcileRow PROVE CdrInv'
    <2>0. PICK c \in todo :
            /\ todo' = todo \ {c}
            /\ act' = [act EXCEPT ![Reconciler] =
                        [at |-> "insert", call |-> c, msg |-> None]]
        BY <1>16 DEF ReconcileRow
    <2>t. c \in Calls /\ Started(c)
        BY <1>0 DEF TypeOK, TodoOK
    <2>1. TypeOK'
        BY <1>16, <2>0, <2>t, <1>0, <1>r DEF ReconcileRow, TypeOK, callVars, natsVars, dbVars
    <2>2. EndingOK' /\ StreamOK' /\ TodoOK' /\ ProcessedOK'
        BY <1>16, <2>0, <1>0 DEF ReconcileRow, callVars, natsVars, dbVars, EndingOK, StreamOK, TodoOK, ProcessedOK, Started
    <2>3. ActorsOK'
        <3> DEFINE x == [at |-> "insert", call |-> c, msg |-> None]
        <3>1. act' = [act EXCEPT ![Reconciler] = x] /\ UNCHANGED <<start, processed, lock>>
            BY <1>16, <2>0 DEF ReconcileRow, callVars, dbVars
        <3>2. x.at = "insert" /\ x.call = c /\ x.msg = None
            OBVIOUS
        <3> HIDE DEF x
        <3> QED
            BY <3>1, <3>2, <2>t, <1>r, ActorsKept DEF Started
    <2> QED
        BY <2>1, <2>2, <2>3 DEF CdrInv
<1>17. ASSUME ReconcileNext PROVE CdrInv'
    <2>1. TypeOK'
        BY <1>17, <1>0, <1>r DEF ReconcileNext, TypeOK, callVars, natsVars, dbVars, Idle
    <2>2. EndingOK' /\ StreamOK' /\ TodoOK' /\ ProcessedOK'
        BY <1>17, <1>0 DEF ReconcileNext, callVars, natsVars, dbVars, EndingOK, StreamOK, TodoOK, ProcessedOK, Started
    <2>3. ActorsOK'
        <3> DEFINE x == [Idle EXCEPT !.at = "scan"]
        <3>2. act' = [act EXCEPT ![Reconciler] = x] /\ UNCHANGED <<start, processed, lock>>
            BY <1>17 DEF ReconcileNext, callVars, dbVars
        <3>3. x.at \in {"idle", "scan"} /\ x.msg = None
            BY DEF Idle
        <3> HIDE DEF x
        <3> QED
            BY <3>2, <3>3, <1>w, <1>r, <1>17, ActorsKept DEF Started
    <2> QED
        BY <2>1, <2>2, <2>3 DEF CdrInv
<1>18. ASSUME ReconcileEnd PROVE CdrInv'
    <2>1. TypeOK'
        BY <1>18, <1>0, <1>r DEF ReconcileEnd, TypeOK, callVars, natsVars, dbVars, Idle
    <2>2. EndingOK' /\ StreamOK' /\ TodoOK' /\ ProcessedOK'
        BY <1>18, <1>0 DEF ReconcileEnd, callVars, natsVars, dbVars, EndingOK, StreamOK, TodoOK, ProcessedOK, Started
    <2>3. ActorsOK'
        <3> DEFINE x == Idle
        <3>2. act' = [act EXCEPT ![Reconciler] = x] /\ UNCHANGED <<start, processed, lock>>
            BY <1>18 DEF ReconcileEnd, callVars, dbVars
        <3>3. x.at \in {"idle", "scan"} /\ x.msg = None
            BY DEF Idle
        <3> HIDE DEF x
        <3> QED
            BY <3>2, <3>3, <1>w, <1>r, <1>18, ActorsKept DEF Started
    <2> QED
        BY <2>1, <2>2, <2>3 DEF CdrInv
<1>19. ASSUME NextDay PROVE CdrInv'
    <2>1. TypeOK'
        <3>1. day' \in Days
            BY <1>19, <1>0, CdrAssumption DEF NextDay, TypeOK, Days
        <3> QED
            BY <3>1, <1>19, <1>0 DEF NextDay, TypeOK, callVars, natsVars, dbVars
    <2>2. EndingOK' /\ StreamOK' /\ TodoOK' /\ ProcessedOK'
        BY <1>19, <1>0 DEF NextDay, callVars, natsVars, dbVars, EndingOK, StreamOK, TodoOK, ProcessedOK, Started
    <2>3. ActorsOK'
        BY <1>19, NobodyMoves DEF NextDay, Started, callVars, natsVars, dbVars
    <2> QED
        BY <2>1, <2>2, <2>3 DEF CdrInv
<1>20. ASSUME Restart PROVE CdrInv'
    <2>1. TypeOK'
        <3>1. \A c \in Calls : (IF c \in ending THEN ends[c] + 1 ELSE ends[c]) \in 0..MaxEnds
            BY <1>0, CdrAssumption DEF TypeOK, EndingOK
        <3>2. ends' \in [Calls -> 0..MaxEnds]
            BY <3>1, <1>20 DEF Restart
        <3>3. act' \in ActType
            BY <1>20 DEF Restart, ActType, Places, Idle
        <3>4. faults' \in 0..MaxFaults
            BY <1>20, <1>0, CdrAssumption DEF Restart, Faulty, TypeOK
        <3> QED
            BY <3>2, <3>3, <3>4, <1>20, <1>0 DEF Restart, TypeOK, ActType, Places, natsVars
    <2>2. EndingOK' /\ StreamOK' /\ TodoOK' /\ ProcessedOK'
        BY <1>20, <1>0 DEF Restart, natsVars, EndingOK, StreamOK, TodoOK, ProcessedOK, Started
    <2>3. ActorsOK'
        BY <1>20 DEF Restart, ActorsOK, ActorOK, Idle
    <2> QED
        BY <2>1, <2>2, <2>3 DEF CdrInv
<1>21. CASE UNCHANGED vars
    BY <1>21, <1>0 DEF vars, CdrInv, TypeOK, ActorsOK, ActorOK, EndingOK, StreamOK, TodoOK, ProcessedOK, Started
<1> QED
    BY <1>1, <1>2, <1>3, <1>4, <1>5, <1>6, <1>7, <1>8, <1>9, <1>10, <1>11, <1>12, <1>13, <1>14, <1>15, <1>16, <1>17, <1>18, <1>19, <1>20, <1>21
    DEF Next, WorkerStep, TxStep, TxFault, ReconcileStep

(* CdrInv holds in every reachable state.                                    *)
THEOREM CdrInvariant == Spec => []CdrInv
<1>1. Init => CdrInv
    BY InitCdrInv
<1>2. CdrInv /\ [Next]_vars => CdrInv'
    BY NextCdrInv
<1> QED
    BY <1>1, <1>2, PTL DEF Spec

(* At most one transaction at a time is on a call, and only while the call   *)
(* is not in cdr_processed_calls.                                            *)
THEOREM Exclusive == Spec => []OneTransaction
<1>1. CdrInv => OneTransaction
    BY DEF CdrInv, ActorsOK, ActorOK, OneTransaction
<1> QED
    BY <1>1, CdrInvariant, PTL

(* The state of the post-call pipeline keeps its type.                       *)
THEOREM CdrTypeCorrect == Spec => []TypeOK
<1>1. CdrInv => TypeOK
    BY DEF CdrInv
<1> QED
    BY <1>1, CdrInvariant, PTL

-----------------------------------------------------------------------------
(***************************************************************************)
(* The committed tables change in three ways only.                         *)
(***************************************************************************)
Untouched == UNCHANGED <<start, processed, summary>>
Begins(c) == /\ start[c] = None
             /\ start' = [start EXCEPT ![c] = day]
             /\ UNCHANGED <<processed, summary>>
Folds(c) == /\ Started(c)
            /\ c \notin processed
            /\ processed' = processed \cup {c}
            /\ summary' = [summary EXCEPT ![start[c]] = @ + 1]
            /\ UNCHANGED start

(* Every step starts a call, folds an unprocessed one into its day, or does  *)
(* neither.                                                                  *)
LEMMA TableSteps ==
    ASSUME CdrInv, [Next]_vars
    PROVE  Untouched \/ \E c \in Calls : Begins(c) \/ Folds(c)
<1>1. CASE UNCHANGED vars
    BY <1>1 DEF vars, Untouched
<1>2. CASE \E c \in Calls : StartCall(c) \/ EndCall(c) \/ Publish(c) \/ PublishFails(c)
    BY <1>2 DEF StartCall, EndCall, Publish, PublishFails, dbVars,
                Untouched, Begins
<1>3. CASE \E m \in Msgs : AckTimeout(m)
    BY <1>3 DEF AckTimeout, dbVars, callVars, Untouched
<1>4. CASE \E w \in Workers : WorkerStep(w)
    BY <1>4 DEF WorkerStep, Deliver, Ack, Nak, dbVars, callVars, Untouched
<1>5. ASSUME NEW a \in Actors, TxStep(a) \/ TxFault(a)
      PROVE  Untouched \/ \E c \in Calls : Folds(c)
    <2>1. CASE Commit(a) \/ CommitAnswerLost(a)
        BY <2>1, FoldFacts DEF Commit, CommitAnswerLost, Folds, callVars
    <2>2. CASE InsertProcessed(a) \/ Duplicate(a) \/ RollBack(a)
        BY <2>2 DEF InsertProcessed, Duplicate, RollBack, dbVars, callVars, Untouched
    <2> QED
        BY <1>5, <2>1, <2>2 DEF TxStep, TxFault
<1>6. CASE ReconcileStep \/ ReconcileQueryFails \/ NextDay \/ Restart
    BY <1>6 DEF ReconcileStep, ReconcileQuery, ReconcileRow, ReconcileNext, ReconcileEnd,
                ReconcileQueryFails, NextDay, Restart, dbVars, callVars, Untouched
<1> QED
    BY <1>1, <1>2, <1>3, <1>4, <1>5, <1>6 DEF Next

(* Redelivery, racing workers, lost answers, restarts and the reconciler     *)
(* together implement CdrLedger: each call is folded into the day of its     *)
(* start at most once.                                                       *)
THEOREM Refinement == Spec => ImplementsLedger
<1>1. Init => Ledger!Init
    BY DEF Init, Ledger!Init
<1>2. CdrInv /\ [Next]_vars => [Ledger!Next]_(Ledger!vars)
    <2> SUFFICES ASSUME CdrInv, [Next]_vars PROVE [Ledger!Next]_(Ledger!vars)
        OBVIOUS
    <2>1. CASE Untouched
        BY <2>1 DEF Untouched, Ledger!vars
    <2>2. ASSUME NEW c \in Calls, Begins(c) PROVE Ledger!Begin(c)
        BY <2>2 DEF Begins, Ledger!Begin, CdrInv, TypeOK
    <2>3. ASSUME NEW c \in Calls, Folds(c) PROVE Ledger!Count(c)
        BY <2>3 DEF Folds, Started, Ledger!Count
    <2> QED
        BY <2>1, <2>2, <2>3, TableSteps DEF Ledger!Next
<1> QED
    BY <1>1, <1>2, CdrInvariant, PTL DEF Spec, ImplementsLedger, Ledger!Spec

(* The number of calls that daily_cdr_summary shows for a day is the number  *)
(* of processed calls that started on it: nothing is counted twice or lost   *)
(* between the two tables.                                                   *)
THEOREM Exact == Spec => []CountedOnce
<1> DEFINE Of(d) == {c \in processed : start[c] = d}
<1>1. Init => CountedOnce
    <2> SUFFICES ASSUME Init, NEW d \in Days PROVE summary[d] = Cardinality(Of(d))
        BY DEF CountedOnce
    <2>1. Of(d) = {}
        BY DEF Init
    <2> QED
        BY <2>1, FS_EmptySet DEF Init
<1>2. CdrInv /\ CountedOnce /\ [Next]_vars => CountedOnce'
    <2> SUFFICES ASSUME CdrInv, CountedOnce, [Next]_vars, NEW d \in Days
                 PROVE  (summary[d] = Cardinality(Of(d)))'
        BY DEF CountedOnce
    <2>0. /\ summary[d] = Cardinality(Of(d)) /\ summary \in [Days -> Nat]
          /\ processed \subseteq Calls /\ start \in [Calls -> Days \cup {None}] /\ ProcessedOK
        BY DEF CountedOnce, CdrInv, TypeOK
    <2>1. CASE Untouched
        BY <2>0, <2>1 DEF Untouched
    <2>2. ASSUME NEW c \in Calls, Begins(c) PROVE (summary[d] = Cardinality(Of(d)))'
        <3>0. None \notin Days
            BY CdrAssumption DEF Days
        <3>1. c \notin processed
            BY <2>0, <2>2, <3>0 DEF Begins, ProcessedOK, Started
        <3>2. Of(d)' = Of(d)
            BY <2>0, <2>2, <3>1 DEF Begins
        <3> QED
            BY <2>0, <2>2, <3>2 DEF Begins
    <2>3. ASSUME NEW c \in Calls, Folds(c) PROVE (summary[d] = Cardinality(Of(d)))'
        <3>1. IsFiniteSet(Of(d))
            BY <2>0, CdrAssumption, FS_Subset
        <3>2. c \notin Of(d)
            BY <2>3 DEF Folds
        <3>3. CASE start[c] = d
            <4>1. Of(d)' = Of(d) \cup {c}
                BY <2>3, <3>3 DEF Folds
            <4>2. Cardinality(Of(d) \cup {c}) = Cardinality(Of(d)) + 1
                BY <3>1, <3>2, FS_AddElement
            <4>3. summary'[d] = summary[d] + 1
                BY <2>0, <2>3, <3>3 DEF Folds
            <4> QED
                BY <2>0, <4>1, <4>2, <4>3
        <3>4. CASE start[c] # d
            <4>1. Of(d)' = Of(d)
                BY <2>3, <3>4 DEF Folds
            <4>2. summary'[d] = summary[d]
                BY <2>0, <2>3, <3>4 DEF Folds, Started
            <4> QED
                BY <2>0, <4>1, <4>2
        <3> QED
            BY <3>3, <3>4
    <2> QED
        BY <2>1, <2>2, <2>3, TableSteps
<1> QED
    BY <1>1, <1>2, CdrInvariant, PTL DEF Spec
=============================================================================
