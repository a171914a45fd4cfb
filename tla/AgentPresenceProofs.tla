------------------------ MODULE AgentPresenceProofs ------------------------
(***************************************************************************)
(* Proofs about AgentPresence, for any number of sessions, timers and      *)
(* faults: no stop channel is closed twice, and an agent in ACW always has *)
(* somebody who ends it. The inductive invariant adds what each goroutine  *)
(* can be doing, and that a registered timer runs and was not stopped.     *)
(***************************************************************************)
EXTENDS AgentPresence, TLAPS

ActRec == [at : Places, op : {"none", "move", "break", "acw", "put"}, new : Row]

\* What goroutine a can be doing.
ShapeOK(a, x) ==
    /\ a \in Timers => x.at \notin {"rewrite", "schedule"} /\ x.op \in {"none", "move"}
    /\ a \notin Timers => x.at \notin {"wait", "read", "cleanup"}
    /\ x.at \in {"wait", "read"} => x.op = "none"
    /\ x.at = "cancel" => x.op \in {"move", "break", "acw"}
    /\ x.at = "write" => x.op # "none"
    /\ x.at = "rewrite" => x.op \in {"break", "acw"}
    /\ x.at = "schedule" => x.op = "acw"
    /\ x.op = "acw" => x.new.status = "acw"
    /\ x.op = "break" => x.new.status = "break"
ActorsOK == \A a \in Actors : ShapeOK(a, act[a])

\* The registered timer runs and was not told to stop.
StopsOK ==
    /\ reg # None => closes[reg] = 0 /\ act[reg].at # "idle"
    /\ \A t \in Timers : closes[t] <= 1 /\ (act[t].at = "idle" => closes[t] = 0)

(* The inductive invariant.                                                  *)
PresenceInv == TypeOK /\ ActorsOK /\ StopsOK /\ ACWTimed

-----------------------------------------------------------------------------
LEMMA InitPresenceInv == Init => PresenceInv
<1> SUFFICES ASSUME Init PROVE PresenceInv
    OBVIOUS
<1>1. TypeOK
    <2>1. NoRow \in Row
        BY DEF NoRow, Row
    <2>2. Idle \in ActRec
        BY <2>1 DEF Idle, ActRec, Places
    <2>3. act \in [Actors -> ActRec]
        BY <2>2 DEF Init
    <2>4. closes \in [Timers -> Nat] /\ faults \in 0..MaxFaults
        BY PresenceAssumption DEF Init
    <2> QED
        BY <2>1, <2>3, <2>4 DEF Init, TypeOK, ActRec
<1>2. ActorsOK
    BY DEF Init, ActorsOK, ShapeOK, Idle
<1>3. StopsOK
    BY DEF Init, StopsOK, Idle
<1>4. ACWTimed
    BY DEF Init, ACWTimed, InACW, NoRow
<1> QED
    BY <1>1, <1>2, <1>3, <1>4 DEF PresenceInv

(* One goroutine moves.                                                      *)
LEMMA OneMoves ==
    ASSUME TypeOK, ActorsOK, NEW a \in Actors, NEW x \in ActRec, ShapeOK(a, x),
           act' = [act EXCEPT ![a] = x]
    PROVE  /\ act' \in [Actors -> ActRec]
           /\ ActorsOK'
           /\ act'[a] = x
           /\ \A b \in Actors : b # a => act'[b] = act[b]
<1>1. act \in [Actors -> ActRec]
    BY DEF TypeOK, ActRec
<1>2. act'[a] = x /\ \A b \in Actors : b # a => act'[b] = act[b]
    BY <1>1
<1>3. act' \in [Actors -> ActRec]
    BY <1>1
<1>4. ASSUME NEW b \in Actors PROVE ShapeOK(b, act'[b])
    BY <1>2 DEF ActorsOK
<1>5. ActorsOK'
    BY <1>4 DEF ActorsOK, ShapeOK
<1> QED
    BY <1>2, <1>3, <1>5

(* Somebody else who ends the ACW still does.                                *)
LEMMA OthersEnd ==
    ASSUME NEW b \in Actors, EndsACW(b), act'[b] = act[b], b \in Timers => closes'[b] = closes[b]
    PROVE  EndsACW(b)'
BY DEF EndsACW

(* Going to another place changes nothing else.                              *)
LEMMA Moving ==
    ASSUME TypeOK, NEW a \in Actors, NEW place \in Places, GoTo(a, place)
    PROVE  /\ act' = [act EXCEPT ![a] = [act[a] EXCEPT !.at = place]]
           /\ [act[a] EXCEPT !.at = place] \in ActRec
           /\ [act[a] EXCEPT !.at = place].at = place
           /\ [act[a] EXCEPT !.at = place].op = act[a].op
           /\ [act[a] EXCEPT !.at = place].new = act[a].new
<1>1. act \in [Actors -> ActRec]
    BY DEF TypeOK, ActRec
<1> QED
    BY <1>1 DEF GoTo, ActRec

LEMMA Resting ==
    /\ Idle \in ActRec
    /\ Idle.at = "idle"
    /\ Idle.op = "none"
    /\ \A a \in Actors : ShapeOK(a, Idle)
BY DEF Idle, ActRec, Row, NoRow, Places, ShapeOK

\* Rows that operations write.
LEMMA NowIsRow == \A status \in Status : Now(status) \in Row /\ Now(status).status = status
BY DEF Now, Row

(* A session begins an operation.                                            *)
LEMMA Begins ==
    ASSUME PresenceInv, NEW a \in Actors \ Timers, act[a].at = "idle",
           NEW place \in {"write", "cancel"},
           NEW op \in {"move", "break", "acw", "put"}, place = "cancel" => op # "put",
           NEW new \in Row,
           op = "acw" => new.status = "acw", op = "break" => new.status = "break",
           Begin(a, place, op, new), UNCHANGED <<row, reg, closes, noTimer, faults>>
    PROVE  PresenceInv'
<1> DEFINE x == [at |-> place, op |-> op, new |-> new]
<1>1. x \in ActRec /\ ShapeOK(a, x) /\ act' = [act EXCEPT ![a] = x]
    BY DEF ActRec, Places, ShapeOK, Begin
<1> HIDE DEF x
<1>2. /\ act' \in [Actors -> ActRec]
      /\ ActorsOK'
      /\ \A b \in Actors : b # a => act'[b] = act[b]
    BY <1>1, OneMoves DEF PresenceInv
<1>3. TypeOK'
    BY <1>2 DEF PresenceInv, TypeOK, ActRec
<1>4. StopsOK'
    <2>1. \A t \in Timers : t \in Actors /\ t # a
        BY DEF Actors
    <2>2. reg # None => reg \in Timers
        BY DEF PresenceInv, TypeOK
    <2> QED
        BY <1>2, <2>1, <2>2 DEF PresenceInv, StopsOK
<1>5. ACWTimed'
    <2> SUFFICES ASSUME InACW, ~noTimer PROVE \E b \in Actors : EndsACW(b)'
        BY DEF ACWTimed, InACW
    <2>1. PICK b \in Actors : EndsACW(b)
        BY DEF PresenceInv, ACWTimed
    <2>2. b # a
        BY <2>1 DEF EndsACW
    <2> QED
        BY <1>2, <2>1, <2>2, OthersEnd
<1> QED
    BY <1>2, <1>3, <1>4, <1>5 DEF PresenceInv

-----------------------------------------------------------------------------
(* Every step preserves the invariant.                                       *)
LEMMA NextPresenceInv == PresenceInv /\ [Next]_vars => PresenceInv'
<1> SUFFICES ASSUME PresenceInv, [Next]_vars PROVE PresenceInv'
    OBVIOUS
<1>0. TypeOK /\ ActorsOK /\ StopsOK /\ ACWTimed
    BY DEF PresenceInv
<1>t. act \in [Actors -> ActRec]
    BY <1>0 DEF TypeOK, ActRec
<1>s. \A s \in Sessions : s \in Actors \ Timers
    BY PresenceAssumption DEF Actors
<1>w. Sweeper \in Actors \ Timers
    BY PresenceAssumption DEF Actors
<1>T. \A t \in Timers : t \in Actors /\ t # None
    BY PresenceAssumption DEF Actors
<1>CheckIn. ASSUME NEW s \in Sessions, CheckIn(s) PROVE PresenceInv'
    <2>1. Now("online") \in Row
        BY NowIsRow DEF Status
    <2> QED
        BY <1>CheckIn, <1>s, <2>1, Begins DEF CheckIn
<1>CheckOut. ASSUME NEW s \in Sessions, CheckOut(s) PROVE PresenceInv'
    <2>1. Now("offline") \in Row
        BY NowIsRow DEF Status
    <2> QED
        BY <1>CheckOut, <1>s, <2>1, Begins DEF CheckOut
<1>TransitionTo. ASSUME NEW s \in Sessions, NEW status \in Status, NEW op \in {"move", "break", "acw"},
                     op = "acw" => status = "acw", op = "break" => status = "break",
                     TransitionTo(s, status, op)
              PROVE  PresenceInv'
    <2>1. Now(status) \in Row /\ Now(status).status = status
        BY NowIsRow
    <2> QED
        BY <1>TransitionTo, <1>s, <2>1, Begins DEF TransitionTo
<1>SetBreak. ASSUME NEW s \in Sessions, SetBreak(s) PROVE PresenceInv'
    BY <1>SetBreak, <1>TransitionTo DEF SetBreak, Status
<1>SetACW. ASSUME NEW s \in Sessions, SetACW(s) PROVE PresenceInv'
    BY <1>SetACW, <1>TransitionTo DEF SetACW, Status
<1>SwitchWorkMode. ASSUME NEW s \in Sessions, SwitchWorkMode(s) PROVE PresenceInv'
    <2> DEFINE new == [row EXCEPT !.old = @ /\ row.status \in {"talking", "dialing"}]
    <2>1. new \in Row
        <3>1. row \in Row
            BY <1>0 DEF TypeOK
        <3>2. (row.old /\ row.status \in {"talking", "dialing"}) \in BOOLEAN
            OBVIOUS
        <3> QED
            BY <3>1, <3>2 DEF Row
    <2>2. Begin(s, "write", "put", new) /\ act[s].at = "idle" /\ UNCHANGED <<row, reg, closes, noTimer, faults>>
        BY <1>SwitchWorkMode DEF SwitchWorkMode
    <2> HIDE DEF new
    <2> QED
        BY <2>1, <2>2, <1>s, Begins
<1>ResetGhostAgents. ASSUME ResetGhostAgents PROVE PresenceInv'
    <2>1. Now("idle") \in Row /\ Now("offline") \in Row
        BY NowIsRow DEF Status
    <2>2. /\ act[Sweeper].at = "idle" /\ UNCHANGED <<row, reg, closes, noTimer, faults>>
          /\ Begin(Sweeper, "write", "put", Now("idle")) \/ Begin(Sweeper, "write", "put", Now("offline"))
        BY <1>ResetGhostAgents DEF ResetGhostAgents
    <2>3. CASE Begin(Sweeper, "write", "put", Now("idle"))
        BY <2>1, <2>2, <2>3, <1>w, Begins
    <2>4. CASE Begin(Sweeper, "write", "put", Now("offline"))
        BY <2>1, <2>2, <2>4, <1>w, Begins
    <2> QED
        BY <2>2, <2>3, <2>4
<1>Cancel. ASSUME NEW a \in Actors, cancelACWTimer(a) PROVE PresenceInv'
    <2> DEFINE x == [act[a] EXCEPT !.at = "write"]
    <2>0. ShapeOK(a, act[a]) /\ a \in Actors
        BY <1>0, <1>s, <1>T DEF ActorsOK
    <2>m. GoTo(a, "write") /\ "write" \in Places
        BY <1>Cancel DEF cancelACWTimer, Places
    <2>x. act' = [act EXCEPT ![a] = x] /\ x \in ActRec /\ x.at = "write" /\ x.op = act[a].op /\ x.new = act[a].new
        BY <2>m, <2>0, <1>0, Moving
    <2> HIDE DEF x
    <2>1. a \in Actors /\ x \in ActRec /\ ShapeOK(a, x) /\ act' = [act EXCEPT ![a] = x]
        BY <1>Cancel, <2>0, <2>x DEF cancelACWTimer, ShapeOK
    <2>2. /\ act' \in [Actors -> ActRec]
          /\ ActorsOK'
          /\ act'[a] = x
          /\ \A b \in Actors : b # a => act'[b] = act[b]
        BY <2>1, <1>0, <1>s, <1>T, OneMoves
    <2>3. TypeOK'
        <3>1. Closed \in [Timers -> Nat]
            BY <1>0 DEF Closed, TypeOK
        <3> QED
            BY <2>2, <3>1, <1>Cancel, <1>0 DEF cancelACWTimer, TypeOK, ActRec
    <2>4. StopsOK'
        <3> SUFFICES ASSUME NEW t \in Timers
                     PROVE  closes'[t] <= 1 /\ (act'[t].at = "idle" => closes'[t] = 0)
            BY <1>Cancel DEF StopsOK, cancelACWTimer
        <3>1. closes \in [Timers -> Nat] /\ closes' = Closed /\ act[a].at = "cancel"
            BY <1>Cancel, <1>0 DEF cancelACWTimer, TypeOK
        <3>2. CASE t = reg
            <4>1. closes[t] = 0 /\ act[t].at # "idle" /\ reg # None
                BY <3>2, <1>0, <1>T DEF StopsOK
            <4>2. closes'[t] = 1
                BY <3>1, <3>2, <4>1 DEF Closed
            <4>3. act'[t].at # "idle"
                BY <2>2, <2>x, <4>1, <1>T
            <4> QED
                BY <4>2, <4>3
        <3>3. CASE t # reg
            <4>1. closes'[t] = closes[t]
                BY <3>1, <3>3 DEF Closed
            <4>2. act'[t].at = "idle" => act[t].at = "idle"
                BY <2>2, <2>x, <1>T
            <4> QED
                BY <4>1, <4>2, <1>0 DEF StopsOK
        <3> QED
            BY <3>2, <3>3
    <2>5. ACWTimed'
        <3>1. EndsACW(a)'
            BY <1>Cancel, <2>0, <2>2, <2>x DEF EndsACW, ShapeOK, cancelACWTimer
        <3> QED
            BY <3>1, <2>0 DEF ACWTimed
    <2> QED
        BY <2>2, <2>3, <2>4, <2>5 DEF PresenceInv
<1>Upsert. ASSUME NEW a \in Actors, Upsert(a) PROVE PresenceInv'
    <2>0. ShapeOK(a, act[a]) /\ act[a] \in ActRec /\ act[a].at = "write"
        BY <1>Upsert, <1>0, <1>t DEF ActorsOK, Upsert
    <2>x. \E y \in ActRec :
            /\ ShapeOK(a, y) /\ act' = [act EXCEPT ![a] = y]
            /\ a \in Timers => y.at # "idle"
            /\ act[a].op = "acw" => y.at = "rewrite" /\ y.op = "acw"
        <3>1. CASE act[a].op \in {"break", "acw"}
            <4> DEFINE y == [act[a] EXCEPT !.at = "rewrite"]
            <4>1. GoTo(a, "rewrite") /\ "rewrite" \in Places
                BY <1>Upsert, <3>1 DEF Upsert, Places
            <4>2. act' = [act EXCEPT ![a] = y] /\ y \in ActRec /\ y.at = "rewrite" /\ y.op = act[a].op /\ y.new = act[a].new
                BY <4>1, <1>0, Moving
            <4> HIDE DEF y
            <4>3. ShapeOK(a, y)
                BY <2>0, <3>1, <4>2 DEF ShapeOK
            <4> QED
                BY <4>2, <4>3
        <3>2. CASE act[a].op \notin {"break", "acw"} /\ a \in Timers
            <4> DEFINE y == [act[a] EXCEPT !.at = "cleanup"]
            <4>1. GoTo(a, "cleanup") /\ "cleanup" \in Places
                BY <1>Upsert, <3>2 DEF Upsert, Leave, Places
            <4>2. act' = [act EXCEPT ![a] = y] /\ y \in ActRec /\ y.at = "cleanup" /\ y.op = act[a].op /\ y.new = act[a].new
                BY <4>1, <1>0, Moving
            <4> HIDE DEF y
            <4>3. ShapeOK(a, y)
                BY <2>0, <3>2, <4>2 DEF ShapeOK
            <4> QED
                BY <3>2, <4>2, <4>3
        <3>3. CASE act[a].op \notin {"break", "acw"} /\ a \notin Timers
            <4>1. act' = [act EXCEPT ![a] = Idle]
                BY <1>Upsert, <3>3 DEF Upsert, Leave
            <4> QED
                BY <3>3, <4>1, Resting
        <3> QED
            BY <3>1, <3>2, <3>3
    <2>1. PICK y \in ActRec :
            /\ ShapeOK(a, y) /\ act' = [act EXCEPT ![a] = y]
            /\ a \in Timers => y.at # "idle"
            /\ act[a].op = "acw" => y.at = "rewrite" /\ y.op = "acw"
        BY <2>x
    <2>2. /\ act' \in [Actors -> ActRec]
          /\ ActorsOK'
          /\ act'[a] = y
          /\ \A b \in Actors : b # a => act'[b] = act[b]
        BY <2>1, <1>0, OneMoves
    <2>3. TypeOK'
        <3>1. row' \in Row
            BY <1>Upsert, <2>0 DEF Upsert, ActRec
        <3>2. noTimer' \in BOOLEAN
            BY <1>Upsert DEF Upsert, WithoutTimer
        <3> QED
            BY <2>2, <3>1, <3>2, <1>Upsert, <1>0 DEF Upsert, TypeOK, ActRec
    <2>4. StopsOK'
        <3>1. \A t \in Timers : act'[t].at = "idle" => act[t].at = "idle"
            BY <2>1, <2>2, <1>T
        <3> QED
            BY <3>1, <1>Upsert, <1>0, <1>T DEF Upsert, StopsOK, TypeOK
    <2>5. ACWTimed'
        <3> SUFFICES ASSUME InACW', ~noTimer' PROVE \E b \in Actors : EndsACW(b)'
            BY DEF ACWTimed
        <3>1. act[a].new.status = "acw" /\ ~WithoutTimer(act[a].op, act[a].new)
            BY <1>Upsert DEF InACW, Upsert
        <3>2. act[a].op \in {"none", "move", "break", "acw", "put"}
            BY <2>0 DEF ActRec
        <3>3. CASE act[a].op = "acw"
            <4>1. EndsACW(a)'
                BY <2>1, <2>2, <3>3 DEF EndsACW
            <4> QED
                BY <4>1
        <3>4. CASE act[a].op = "put"
            <4>1. InACW /\ ~noTimer
                BY <3>1, <3>4 DEF WithoutTimer, InACW
            <4>2. PICK b \in Actors : EndsACW(b)
                BY <4>1, <1>0 DEF ACWTimed
            <4>3. b # a
                BY <4>2, <3>4, <2>0 DEF EndsACW
            <4>4. closes' = closes
                BY <1>Upsert DEF Upsert
            <4> QED
                BY <4>2, <4>3, <4>4, <2>2, OthersEnd
        <3> QED
            BY <3>1, <3>2, <3>3, <3>4, <2>0 DEF WithoutTimer, ShapeOK
    <2> QED
        BY <2>2, <2>3, <2>4, <2>5 DEF PresenceInv
<1>UpsertAgain. ASSUME NEW s \in Sessions, UpsertAgain(s) PROVE PresenceInv'
    <2>0. ShapeOK(s, act[s]) /\ act[s] \in ActRec /\ act[s].at = "rewrite" /\ s \in Actors /\ s \notin Timers
        BY <1>UpsertAgain, <1>0, <1>t, <1>s DEF ActorsOK, UpsertAgain
    <2>x. \E y \in ActRec :
            /\ ShapeOK(s, y) /\ act' = [act EXCEPT ![s] = y]
            /\ act[s].op = "acw" => y.at = "schedule" /\ y.op = "acw"
        <3>1. CASE act[s].op = "acw"
            <4> DEFINE y == [act[s] EXCEPT !.at = "schedule"]
            <4>1. GoTo(s, "schedule") /\ "schedule" \in Places
                BY <1>UpsertAgain, <3>1 DEF UpsertAgain, Places
            <4>2. act' = [act EXCEPT ![s] = y] /\ y \in ActRec /\ y.at = "schedule" /\ y.op = act[s].op /\ y.new = act[s].new
                BY <4>1, <2>0, <1>0, Moving
            <4> HIDE DEF y
            <4>3. ShapeOK(s, y)
                BY <2>0, <3>1, <4>2 DEF ShapeOK
            <4> QED
                BY <3>1, <4>2, <4>3
        <3>2. CASE act[s].op # "acw"
            <4>1. act' = [act EXCEPT ![s] = Idle]
                BY <1>UpsertAgain, <3>2, <2>0 DEF UpsertAgain, Leave
            <4> QED
                BY <3>2, <4>1, <2>0, Resting
        <3> QED
            BY <3>1, <3>2
    <2>1. PICK y \in ActRec :
            /\ ShapeOK(s, y) /\ act' = [act EXCEPT ![s] = y]
            /\ act[s].op = "acw" => y.at = "schedule" /\ y.op = "acw"
        BY <2>x
    <2>2. /\ act' \in [Actors -> ActRec]
          /\ ActorsOK'
          /\ act'[s] = y
          /\ \A b \in Actors : b # s => act'[b] = act[b]
        BY <2>0, <2>1, <1>0, OneMoves
    <2>3. TypeOK'
        <3>1. row' \in Row
            BY <1>UpsertAgain, <2>0 DEF UpsertAgain, ActRec
        <3>2. noTimer' \in BOOLEAN
            BY <1>UpsertAgain DEF UpsertAgain, WithoutTimer
        <3> QED
            BY <2>2, <3>1, <3>2, <1>UpsertAgain, <1>0 DEF UpsertAgain, TypeOK, ActRec
    <2>4. StopsOK'
        <3>1. \A t \in Timers : act'[t] = act[t]
            BY <2>0, <2>2, <1>T
        <3> QED
            BY <3>1, <1>UpsertAgain, <1>0, <1>T DEF UpsertAgain, StopsOK, TypeOK
    <2>5. ACWTimed'
        <3>1. CASE act[s].op = "acw"
            <4>1. EndsACW(s)'
                BY <2>1, <2>2, <3>1 DEF EndsACW
            <4> QED
                BY <4>1, <2>0 DEF ACWTimed
        <3>2. CASE act[s].op = "break"
            BY <3>2, <2>0, <1>UpsertAgain DEF ACWTimed, InACW, UpsertAgain, ShapeOK
        <3> QED
            BY <3>1, <3>2, <2>0 DEF ShapeOK
    <2> QED
        BY <2>2, <2>3, <2>4, <2>5 DEF PresenceInv
<1>Schedule. ASSUME NEW s \in Sessions, NEW t \in Timers, scheduleACWTimeout(s, t) PROVE PresenceInv'
    <2> DEFINE x == [Idle EXCEPT !.at = "wait"]
    <2>0. s \in Actors /\ t \in Actors /\ s # t /\ t # None /\ s \notin Timers
        BY <1>s, <1>T
    <2>1. x \in ActRec /\ ShapeOK(t, x) /\ x.at = "wait"
        <3>1. x = [at |-> "wait", op |-> "none", new |-> NoRow]
            BY DEF Idle
        <3>2. NoRow \in Row
            BY DEF NoRow, Row
        <3>3. x \in ActRec
            BY <3>1, <3>2 DEF ActRec, Places
        <3>4. ShapeOK(t, x)
            BY <3>1 DEF ShapeOK
        <3> QED
            BY <3>1, <3>3, <3>4
    <2>2. act' = [act EXCEPT ![s] = Idle, ![t] = x] /\ act[t].at = "idle" /\ closes' = Closed /\ reg' = t
        BY <1>Schedule DEF scheduleACWTimeout
    <2> HIDE DEF x
    <2>3. act'[s] = Idle /\ act'[t] = x /\ (\A b \in Actors : b # s /\ b # t => act'[b] = act[b])
        BY <2>0, <2>2, <1>t
    <2>4. act' \in [Actors -> ActRec]
        BY <2>0, <2>1, <2>2, <1>t, Resting
    <2>5. ActorsOK'
        <3> SUFFICES ASSUME NEW b \in Actors PROVE ShapeOK(b, act'[b])
            BY DEF ActorsOK, ShapeOK
        <3> QED
            BY <2>0, <2>1, <2>3, <1>0, Resting DEF ActorsOK
    <2>6. TypeOK'
        <3>1. Closed \in [Timers -> Nat]
            BY <1>0 DEF Closed, TypeOK
        <3> QED
            BY <2>2, <2>4, <3>1, <1>Schedule, <1>0 DEF scheduleACWTimeout, TypeOK, ActRec
    <2>7. closes'[t] = 0
        <3>1. t # reg /\ closes[t] = 0
            BY <2>0, <2>2, <1>0 DEF StopsOK
        <3> QED
            BY <2>2, <3>1, <1>0 DEF Closed, TypeOK
    <2>8. StopsOK'
        <3>1. closes'[t] = 0 /\ act'[t].at # "idle" /\ reg' = t
            BY <2>1, <2>2, <2>3, <2>7
        <3>2. ASSUME NEW u \in Timers, u # t
              PROVE  closes'[u] <= 1 /\ (act'[u].at = "idle" => closes'[u] = 0)
            <4>1. act'[u] = act[u]
                BY <2>0, <2>3, <3>2, <1>T, <1>s
            <4>2. CASE u = reg
                BY <2>2, <4>1, <4>2, <1>0, <1>T DEF Closed, TypeOK, StopsOK
            <4>3. CASE u # reg
                BY <2>2, <4>1, <4>3, <1>0 DEF Closed, TypeOK, StopsOK
            <4> QED
                BY <4>2, <4>3
        <3> QED
            BY <3>1, <3>2 DEF StopsOK
    <2>9. ACWTimed'
        <3>1. EndsACW(t)'
            BY <2>1, <2>3, <2>7 DEF EndsACW
        <3> QED
            BY <3>1, <2>0 DEF ACWTimed
    <2> QED
        BY <2>5, <2>6, <2>8, <2>9 DEF PresenceInv
<1>Expires. ASSUME NEW t \in Timers, TimerExpires(t) PROVE PresenceInv'
    <2> DEFINE x == [act[t] EXCEPT !.at = "read"]
    <2>0. ShapeOK(t, act[t]) /\ t \in Actors
        BY <1>0, <1>s, <1>T DEF ActorsOK
    <2>m. GoTo(t, "read") /\ "read" \in Places
        BY <1>Expires DEF TimerExpires, Places
    <2>x. act' = [act EXCEPT ![t] = x] /\ x \in ActRec /\ x.at = "read" /\ x.op = act[t].op /\ x.new = act[t].new
        BY <2>m, <2>0, <1>0, Moving
    <2> HIDE DEF x
    <2>1. t \in Actors /\ x \in ActRec /\ ShapeOK(t, x) /\ act' = [act EXCEPT ![t] = x]
        BY <1>Expires, <2>0, <2>x DEF TimerExpires, ShapeOK
    <2>2. /\ act' \in [Actors -> ActRec]
          /\ ActorsOK'
          /\ act'[t] = x
          /\ \A b \in Actors : b # t => act'[b] = act[b]
        BY <2>1, <1>0, <1>s, <1>T, OneMoves
    <2>3. TypeOK'
        BY <2>2, <1>Expires, <1>0 DEF TimerExpires, TypeOK, ActRec
    <2>4. StopsOK'
        <3>1. \A u \in Timers : act'[u].at = "idle" => act[u].at = "idle"
            BY <2>2, <2>x, <1>T
        <3>2. \A u \in Timers : act[u].at # "idle" => act'[u].at # "idle"
            BY <2>2, <2>x, <1>T
        <3> QED
            BY <3>1, <3>2, <1>Expires, <1>0, <1>T DEF TimerExpires, StopsOK, TypeOK
    <2>5. ACWTimed'
        <3>1. EndsACW(t)'
            BY <2>2, <2>x DEF EndsACW
        <3> QED
            BY <3>1, <2>0 DEF ACWTimed
    <2> QED
        BY <2>2, <2>3, <2>4, <2>5 DEF PresenceInv
<1>Stopped. ASSUME NEW t \in Timers, TimerStopped(t) PROVE PresenceInv'
    <2> DEFINE x == [act[t] EXCEPT !.at = "cleanup"]
    <2>0. ShapeOK(t, act[t]) /\ t \in Actors
        BY <1>0, <1>s, <1>T DEF ActorsOK
    <2>m. GoTo(t, "cleanup") /\ "cleanup" \in Places
        BY <1>Stopped DEF TimerStopped, Places
    <2>x. act' = [act EXCEPT ![t] = x] /\ x \in ActRec /\ x.at = "cleanup" /\ x.op = act[t].op /\ x.new = act[t].new
        BY <2>m, <2>0, <1>0, Moving
    <2> HIDE DEF x
    <2>1. t \in Actors /\ x \in ActRec /\ ShapeOK(t, x) /\ act' = [act EXCEPT ![t] = x]
        BY <1>Stopped, <2>0, <2>x DEF TimerStopped, ShapeOK
    <2>2. /\ act' \in [Actors -> ActRec]
          /\ ActorsOK'
          /\ act'[t] = x
          /\ \A b \in Actors : b # t => act'[b] = act[b]
        BY <2>1, <1>0, <1>s, <1>T, OneMoves
    <2>3. TypeOK'
        BY <2>2, <1>Stopped, <1>0 DEF TimerStopped, TypeOK, ActRec
    <2>4. StopsOK'
        <3>1. \A u \in Timers : act'[u].at = "idle" => act[u].at = "idle"
            BY <2>2, <2>x, <1>T
        <3>2. \A u \in Timers : act[u].at # "idle" => act'[u].at # "idle"
            BY <2>2, <2>x, <1>T
        <3> QED
            BY <3>1, <3>2, <1>Stopped, <1>0, <1>T DEF TimerStopped, StopsOK, TypeOK
    <2>5. ACWTimed'
        <3> SUFFICES ASSUME InACW, ~noTimer PROVE \E b \in Actors : EndsACW(b)'
            BY <1>Stopped DEF ACWTimed, InACW, TimerStopped
        <3>1. PICK b \in Actors : EndsACW(b)
            BY <1>0 DEF ACWTimed
        <3>2. b # t
            BY <1>Stopped, <3>1, <1>0 DEF EndsACW, TimerStopped, TypeOK
        <3> QED
            BY <3>1, <3>2, <2>2, <1>Stopped, OthersEnd DEF TimerStopped
    <2> QED
        BY <2>2, <2>3, <2>4, <2>5 DEF PresenceInv
<1>TimerRead. ASSUME NEW t \in Timers, TimerRead(t) PROVE PresenceInv'
    <2>0. ShapeOK(t, act[t]) /\ act[t].at = "read" /\ t \in Actors
        BY <1>TimerRead, <1>0, <1>T DEF ActorsOK, TimerRead
    <2>x. \E y \in ActRec :
            /\ ShapeOK(t, y) /\ act' = [act EXCEPT ![t] = y] /\ y.at # "idle"
            /\ InACW => y.at = "cancel" /\ y.op = "move"
        <3>1. CASE isValidTransition(row.status, "idle")
            <4> DEFINE y == [at |-> "cancel", op |-> "move", new |-> Now("idle")]
            <4>1. act' = [act EXCEPT ![t] = y]
                BY <1>TimerRead, <3>1 DEF TimerRead, Begin
            <4>2. y \in ActRec /\ ShapeOK(t, y)
                BY <2>0, NowIsRow DEF ActRec, Places, Status, ShapeOK
            <4> QED
                BY <4>1, <4>2
        <3>2. CASE ~isValidTransition(row.status, "idle")
            <4> DEFINE y == [act[t] EXCEPT !.at = "cleanup"]
            <4>1. GoTo(t, "cleanup") /\ "cleanup" \in Places
                BY <1>TimerRead, <3>2 DEF TimerRead, Places
            <4>2. act' = [act EXCEPT ![t] = y] /\ y \in ActRec /\ y.at = "cleanup" /\ y.op = act[t].op /\ y.new = act[t].new
                BY <4>1, <2>0, <1>0, Moving
            <4> HIDE DEF y
            <4>3. ShapeOK(t, y)
                BY <2>0, <4>2 DEF ShapeOK
            <4>4. ~InACW
                BY <3>2 DEF isValidTransition, InACW
            <4> QED
                BY <4>2, <4>3, <4>4
        <3> QED
            BY <3>1, <3>2
    <2>1. PICK y \in ActRec :
            /\ ShapeOK(t, y) /\ act' = [act EXCEPT ![t] = y] /\ y.at # "idle"
            /\ InACW => y.at = "cancel" /\ y.op = "move"
        BY <2>x
    <2>2. /\ act' \in [Actors -> ActRec]
          /\ ActorsOK'
          /\ act'[t] = y
          /\ \A b \in Actors : b # t => act'[b] = act[b]
        BY <2>0, <2>1, <1>0, OneMoves
    <2>3. TypeOK'
        BY <2>2, <1>TimerRead, <1>0 DEF TimerRead, TypeOK, ActRec
    <2>4. StopsOK'
        <3>1. \A u \in Timers : act'[u].at = "idle" => act[u].at = "idle"
            BY <2>1, <2>2, <1>T
        <3>2. \A u \in Timers : act[u].at # "idle" => act'[u].at # "idle"
            BY <2>1, <2>2, <1>T
        <3> QED
            BY <3>1, <3>2, <1>TimerRead, <1>0, <1>T DEF TimerRead, StopsOK, TypeOK
    <2>5. ACWTimed'
        <3> SUFFICES ASSUME InACW PROVE EndsACW(t)'
            BY <1>TimerRead, <2>0 DEF ACWTimed, InACW, TimerRead
        <3> QED
            BY <2>1, <2>2 DEF EndsACW
    <2> QED
        BY <2>2, <2>3, <2>4, <2>5 DEF PresenceInv
<1>Cleanup. ASSUME NEW t \in Timers, TimerCleanup(t) PROVE PresenceInv'
    <2> DEFINE x == Idle
    <2>1. t \in Actors /\ x \in ActRec /\ ShapeOK(t, x) /\ act' = [act EXCEPT ![t] = x]
        BY <1>Cleanup, <1>T, Resting DEF TimerCleanup
    <2>2. /\ act' \in [Actors -> ActRec]
          /\ ActorsOK'
          /\ act'[t] = x
          /\ \A b \in Actors : b # t => act'[b] = act[b]
        BY <2>1, <1>0, <1>s, <1>T, OneMoves
    <2>3. TypeOK'
        BY <2>2, <1>Cleanup, <1>0 DEF TimerCleanup, TypeOK, ActRec
    <2>4. StopsOK'
        <3> SUFFICES ASSUME NEW u \in Timers
                     PROVE  closes'[u] <= 1 /\ (act'[u].at = "idle" => closes'[u] = 0)
            BY <1>Cleanup DEF StopsOK, TimerCleanup
        <3>1. CASE u = t
            BY <3>1, <1>Cleanup, <1>0 DEF TimerCleanup, TypeOK
        <3>2. CASE u # t
            BY <3>2, <2>2, <1>Cleanup, <1>0, <1>T DEF TimerCleanup, TypeOK, StopsOK
        <3> QED
            BY <3>1, <3>2
    <2>5. ACWTimed'
        <3> SUFFICES ASSUME InACW, ~noTimer PROVE \E b \in Actors : EndsACW(b)'
            BY <1>Cleanup DEF ACWTimed, InACW, TimerCleanup
        <3>1. PICK b \in Actors : EndsACW(b)
            BY <1>0 DEF ACWTimed
        <3>2. b # t
            BY <1>Cleanup, <3>1 DEF EndsACW, TimerCleanup
        <3>3. b \in Timers => closes'[b] = closes[b]
            BY <3>2, <1>Cleanup, <1>0 DEF TimerCleanup, TypeOK
        <3> QED
            BY <3>1, <3>2, <3>3, <2>2, OthersEnd
    <2> QED
        BY <2>2, <2>3, <2>4, <2>5 DEF PresenceInv
<1>DbFails. ASSUME NEW a \in Actors, DbFails(a) PROVE PresenceInv'
    <2>0. ShapeOK(a, act[a]) /\ act[a] \in ActRec
        BY <1>0, <1>t DEF ActorsOK
    <2>x. \E y \in ActRec : ShapeOK(a, y) /\ act' = [act EXCEPT ![a] = y] /\ (a \in Timers => y.at # "idle")
        <3>1. CASE a \in Timers
            <4> DEFINE y == [act[a] EXCEPT !.at = "cleanup"]
            <4>1. GoTo(a, "cleanup") /\ "cleanup" \in Places
                BY <1>DbFails, <3>1 DEF DbFails, Leave, Places
            <4>2. act' = [act EXCEPT ![a] = y] /\ y \in ActRec /\ y.at = "cleanup" /\ y.op = act[a].op /\ y.new = act[a].new
                BY <4>1, <1>0, Moving
            <4> HIDE DEF y
            <4>3. ShapeOK(a, y)
                BY <2>0, <3>1, <4>2 DEF ShapeOK
            <4> QED
                BY <4>2, <4>3
        <3>2. CASE a \notin Timers
            <4>1. act' = [act EXCEPT ![a] = Idle]
                BY <1>DbFails, <3>2 DEF DbFails, Leave
            <4> QED
                BY <3>2, <4>1, Resting
        <3> QED
            BY <3>1, <3>2
    <2>1. PICK y \in ActRec : ShapeOK(a, y) /\ act' = [act EXCEPT ![a] = y] /\ (a \in Timers => y.at # "idle")
        BY <2>x
    <2>2. /\ act' \in [Actors -> ActRec]
          /\ ActorsOK'
          /\ act'[a] = y
          /\ \A b \in Actors : b # a => act'[b] = act[b]
        BY <2>1, <1>0, OneMoves
    <2>3. TypeOK'
        <3>1. noTimer' \in BOOLEAN
            BY <1>DbFails, <1>0 DEF DbFails, TypeOK, InACW
        <3> QED
            BY <2>2, <3>1, <1>DbFails, <1>0, PresenceAssumption DEF DbFails, Faulty, TypeOK, ActRec
    <2>4. StopsOK'
        <3>1. \A u \in Timers : act'[u].at = "idle" => act[u].at = "idle"
            BY <2>1, <2>2, <1>T
        <3>2. \A u \in Timers : act[u].at # "idle" => act'[u].at # "idle"
            BY <2>1, <2>2, <1>T
        <3> QED
            BY <3>1, <3>2, <1>DbFails, <1>0, <1>T DEF DbFails, StopsOK, TypeOK
    <2>5. ACWTimed'
        <3> SUFFICES ASSUME InACW', ~noTimer' PROVE \E b \in Actors : EndsACW(b)'
            BY DEF ACWTimed
        <3>1. InACW
            BY <1>DbFails DEF DbFails, InACW
        <3>2. act[a].op = "put" /\ ~noTimer
            BY <1>DbFails, <3>1 DEF DbFails
        <3>3. PICK b \in Actors : EndsACW(b)
            BY <1>0, <3>1, <3>2 DEF ACWTimed
        <3>4. b # a
            BY <3>2, <3>3, <2>0, <1>DbFails DEF EndsACW, ShapeOK, DbFails
        <3> QED
            BY <3>3, <3>4, <2>2, <1>DbFails, OthersEnd DEF DbFails
    <2> QED
        BY <2>2, <2>3, <2>4, <2>5 DEF PresenceInv
<1>ResolverFails. ASSUME NEW s \in Sessions, ResolverFails(s) PROVE PresenceInv'
    <2>1. s \in Actors /\ s \notin Timers /\ act' = [act EXCEPT ![s] = Idle]
        BY <1>ResolverFails, <1>s DEF ResolverFails, Leave
    <2>2. /\ act' \in [Actors -> ActRec]
          /\ ActorsOK'
          /\ \A b \in Actors : b # s => act'[b] = act[b]
        BY <2>1, <1>0, OneMoves, Resting
    <2>3. TypeOK'
        <3>1. noTimer' \in BOOLEAN
            BY <1>ResolverFails DEF ResolverFails, InACW
        <3> QED
            BY <2>2, <3>1, <1>ResolverFails, <1>0, PresenceAssumption DEF ResolverFails, Faulty, TypeOK, ActRec
    <2>4. StopsOK'
        <3>1. \A u \in Timers : act'[u] = act[u]
            BY <2>1, <2>2, <1>T
        <3> QED
            BY <3>1, <1>ResolverFails, <1>0, <1>T DEF ResolverFails, StopsOK, TypeOK
    <2>5. ACWTimed'
        BY <1>ResolverFails DEF ACWTimed, InACW, ResolverFails
    <2> QED
        BY <2>2, <2>3, <2>4, <2>5 DEF PresenceInv
<1>Restart. ASSUME Restart PROVE PresenceInv'
    <2>1. TypeOK'
        <3>1. act' \in [Actors -> ActRec]
            BY <1>Restart, Resting DEF Restart
        <3>2. noTimer' \in BOOLEAN
            BY <1>Restart DEF Restart, InACW
        <3> QED
            BY <3>1, <3>2, <1>Restart, <1>0, PresenceAssumption DEF Restart, Faulty, TypeOK, ActRec
    <2>2. ActorsOK'
        <3> SUFFICES ASSUME NEW b \in Actors PROVE ShapeOK(b, act'[b])
            BY DEF ActorsOK, ShapeOK
        <3> QED
            BY <1>Restart, Resting DEF Restart
    <2>3. StopsOK'
        BY <1>Restart DEF Restart, StopsOK
    <2>4. ACWTimed'
        BY <1>Restart DEF Restart, ACWTimed, InACW
    <2> QED
        BY <2>1, <2>2, <2>3, <2>4 DEF PresenceInv
<1>Age. ASSUME Age PROVE PresenceInv'
    <2>1. row' \in Row /\ row'.status = row.status
        BY <1>Age, <1>0 DEF Age, TypeOK, Row
    <2>2. TypeOK'
        BY <2>1, <1>Age, <1>0 DEF Age, TypeOK
    <2>3. ActorsOK' /\ StopsOK' /\ ACWTimed'
        BY <2>1, <1>Age, <1>0 DEF Age, ActorsOK, ShapeOK, StopsOK, ACWTimed, InACW, EndsACW
    <2> QED
        BY <2>2, <2>3 DEF PresenceInv
<1>Stutter. CASE UNCHANGED vars
    BY <1>Stutter, <1>0 DEF vars, PresenceInv, TypeOK, ActorsOK, ShapeOK, StopsOK, ACWTimed, InACW, EndsACW
<1>R. ASSUME NEW s \in Sessions, Request(s) PROVE PresenceInv'
    BY <1>R, <1>CheckIn, <1>CheckOut, <1>SetBreak, <1>SetACW, <1>SwitchWorkMode, <1>TransitionTo DEF Request
<1>C. ASSUME NEW s \in Sessions, ContinueSession(s) PROVE PresenceInv'
    BY <1>C, <1>UpsertAgain, <1>Schedule DEF ContinueSession
<1>S. ASSUME NEW t \in Timers, TimerStep(t) PROVE PresenceInv'
    BY <1>S, <1>Expires, <1>Stopped, <1>TimerRead, <1>Cleanup DEF TimerStep
<1>A. ASSUME NEW a \in Actors, Continue(a) PROVE PresenceInv'
    BY <1>A, <1>Cancel, <1>Upsert DEF Continue
<1> QED
    BY <1>R, <1>C, <1>S, <1>A, <1>ResolverFails, <1>DbFails, <1>ResetGhostAgents, <1>Restart, <1>Age, <1>Stutter
    DEF Next

(* PresenceInv holds in every reachable state.                               *)
THEOREM PresenceInvariant == Spec => []PresenceInv
<1>1. Init => PresenceInv
    BY InitPresenceInv
<1>2. PresenceInv /\ [Next]_vars => PresenceInv'
    BY NextPresenceInv
<1> QED
    BY <1>1, <1>2, PTL DEF Spec

(* No stop channel of an ACW timer is ever closed twice: cancelACWTimer and  *)
(* scheduleACWTimeout cannot panic.                                          *)
THEOREM NoPanic == Spec => []StopClosedOnce
<1>1. PresenceInv => StopClosedOnce
    BY DEF PresenceInv, StopsOK, StopClosedOnce
<1> QED
    BY <1>1, PresenceInvariant, PTL

(* An agent in ACW has a running timer, or somebody who is about to start    *)
(* one or to change the status, however transitions, timers and the ghost    *)
(* sweep interleave.                                                         *)
THEOREM SomebodyEndsACW == Spec => []ACWTimed
<1>1. PresenceInv => ACWTimed
    BY DEF PresenceInv
<1> QED
    BY <1>1, PresenceInvariant, PTL

(* The state of the presence service keeps its type.                         *)
THEOREM PresenceTypeCorrect == Spec => []TypeOK
<1>1. PresenceInv => TypeOK
    BY DEF PresenceInv
<1> QED
    BY <1>1, PresenceInvariant, PTL
=============================================================================
