------------------------- MODULE AcdDispatchProofs -------------------------
(***************************************************************************)
(* Proofs about AcdDispatch, for any calls, agents, groups, instances and  *)
(* faults. The invariant has two halves that no action mixes: where each   *)
(* call is (QueueInv) and who may give an agent a call (AgentInv).         *)
(***************************************************************************)
EXTENDS AcdDispatch, FiniteSetTheorems, TLAPS

DispRec == [at : Places, left : SUBSET Groups, group : Groups \cup {None},
            todo : SUBSET Calls, call : Calls \cup {None}, agent : Agents \cup {None}]

\* What a dispatcher knows at each place.
Shape(x) ==
    /\ x.at # "idle" => x.group \in Groups
    /\ x.at \in {"end", "pick", "claim", "remove", "ring", "write", "presence", "requeue"}
          => x.call \in Calls
    /\ x.at \in {"claim", "remove", "ring", "write", "presence", "release", "requeue"}
          => x.agent \in Agents
ShapeOK == \A d \in Dispatchers : Shape(disp[d])

\* A call is in one place at most; before EnqueueAdd and after RingWrite in none;
\* afterwards, respectively until then, in exactly one.
QueueInv ==
    \A c \in Calls :
        /\ \A g \in Groups : c \in queue[g] => g = ivr[c].group
        /\ \A d \in Dispatchers : Holds(d, c) =>
              /\ disp[d].group = ivr[c].group
              /\ c \notin queue[ivr[c].group]
              /\ \A e \in Dispatchers : Holds(e, c) => e = d
        /\ (ivr[c].at \in {"check", "add"} \/ c \in rung) =>
              /\ c \notin queue[ivr[c].group]
              /\ \A d \in Dispatchers : ~Holds(d, c)
        /\ ivr[c].at \in {"check", "add"} => c \notin rung
        /\ ivr[c].at = "queued" => ivr[c].group \in active
        /\ ivr[c].at \in {"register", "queued"} /\ call[c] = "ivr" /\ c \notin lost =>
              \/ c \in queue[ivr[c].group]
              \/ \E d \in Dispatchers : Holds(d, c)

\* Dispatcher d has picked agent a, has claimed it, has put a call through.
Wants(d, a) == disp[d].at = "claim" /\ disp[d].agent = a
Owns(d, a) == disp[d].at \in {"remove", "ring", "write", "release"} /\ disp[d].agent = a
Rung(d, a) == disp[d].at = "presence" /\ disp[d].agent = a

\* A claim has one owner, and an agent that has its call is not idle, or will
\* not be when its claim can be made again.
AgentInv ==
    \A a \in Agents :
        /\ \A d \in Dispatchers : Owns(d, a) \/ Rung(d, a) =>
              /\ a \in claim
              /\ \A e \in Dispatchers : Owns(e, a) \/ Rung(e, a) => e = d
        /\ a \notin unseen =>
              /\ rings[a] <= 1
              /\ rings[a] # 0 /\ a \in idle => \E d \in Dispatchers : Rung(d, a)
              /\ \A d \in Dispatchers : Wants(d, a) => rings[a] = 0 \/ a \in claim
              /\ \A d \in Dispatchers : Owns(d, a) => rings[a] = 0

(* The inductive invariant.                                                  *)
AcdInv == TypeOK /\ ShapeOK /\ QueueInv /\ AgentInv

-----------------------------------------------------------------------------
LEMMA InitAcdInv == Init => AcdInv
<1> SUFFICES ASSUME Init PROVE AcdInv
    OBVIOUS
<1>1. /\ Idle({}) \in DispRec
      /\ Idle({}).at = "idle"
    BY DEF Idle, DispRec, Places
<1>2. /\ disp \in [Dispatchers -> DispRec]
      /\ \A d \in Dispatchers : disp[d].at = "idle"
    BY <1>1 DEF Init
<1>3. TypeOK
    <2>1. ivr \in [Calls -> [at : {"check", "add", "register", "queued", "refused"}, group : Groups]]
        BY AcdAssumption DEF Init
    <2> QED
        BY <1>2, <2>1, AcdAssumption DEF Init, TypeOK, DispRec, Status
<1>4. ShapeOK
    BY <1>2 DEF ShapeOK, Shape
<1>5. QueueInv
    BY <1>2, AcdAssumption DEF Init, QueueInv, Holds
<1>6. AgentInv
    BY <1>2 DEF Init, AgentInv, Owns, Rung, Wants
<1> QED
    BY <1>3, <1>4, <1>5, <1>6 DEF AcdInv

(* Going to another place changes nothing else.                              *)
LEMMA GoesTo ==
    ASSUME TypeOK, NEW d \in Dispatchers, NEW place \in Places, GoTo(d, place)
    PROVE  /\ disp' \in [Dispatchers -> DispRec]
           /\ \A e \in Dispatchers : e # d => disp'[e] = disp[e]
           /\ disp'[d].at = place
           /\ disp'[d].group = disp[d].group
           /\ disp'[d].call = disp[d].call
           /\ disp'[d].agent = disp[d].agent
BY DEF GoTo, TypeOK, DispRec

(* Taking or leaving a call on the way.                                      *)
LEMMA GoesWith ==
    ASSUME TypeOK, NEW d \in Dispatchers, NEW place \in Places, NEW c \in Calls \cup {None},
           disp' = [disp EXCEPT ![d].at = place, ![d].call = c]
    PROVE  /\ disp' \in [Dispatchers -> DispRec]
           /\ \A e \in Dispatchers : e # d => disp'[e] = disp[e]
           /\ disp'[d].at = place
           /\ disp'[d].group = disp[d].group
           /\ disp'[d].call = c
           /\ disp'[d].agent = disp[d].agent
<1>1. disp \in [Dispatchers -> DispRec]
    BY DEF TypeOK, DispRec
<1> DEFINE x == [disp[d] EXCEPT !.at = place, !.call = c]
<1>2. x \in DispRec /\ x.at = place /\ x.group = disp[d].group /\ x.call = c /\ x.agent = disp[d].agent
    BY <1>1 DEF DispRec
<1>3. disp' = [disp EXCEPT ![d] = x]
    BY <1>1 DEF DispRec
<1> HIDE DEF x
<1> QED
    BY <1>1, <1>2, <1>3

(* A dispatcher is done with a group.                                        *)
LEMMA Finishes ==
    ASSUME TypeOK, NEW d \in Dispatchers, GroupDone(d)
    PROVE  /\ disp' \in [Dispatchers -> DispRec]
           /\ \A e \in Dispatchers : e # d => disp'[e] = disp[e]
           /\ disp'[d].at = "idle"
<1>1. disp[d].left \in SUBSET Groups
    BY DEF TypeOK
<1>2. Idle(disp[d].left) \in DispRec /\ Idle(disp[d].left).at = "idle"
    BY <1>1 DEF Idle, DispRec, Places
<1>3. disp \in [Dispatchers -> DispRec] /\ disp' = [disp EXCEPT ![d] = Idle(disp[d].left)]
    BY DEF TypeOK, GroupDone, DispRec
<1> QED
    BY <1>2, <1>3

LEMMA FaultCounted == ASSUME TypeOK, Fault PROVE faults' \in 0..MaxFaults
BY AcdAssumption DEF TypeOK, Fault

(* Nobody takes or loses a call; a call may end.                             *)
LEMMA CallsStay ==
    ASSUME QueueInv,
           UNCHANGED <<ivr, queue, active, lost>>,
           \A c \in Calls : /\ c \in rung' <=> c \in rung
                            /\ call'[c] = "ivr" => call[c] = "ivr",
           \A e \in Dispatchers, c \in Calls : Holds(e, c)' <=> Holds(e, c),
           \A e \in Dispatchers, c \in Calls : Holds(e, c) => disp'[e].group = disp[e].group
    PROVE  QueueInv'
BY DEF QueueInv

(* Nobody gains an agent, except one that picks an idle agent.               *)
LEMMA AgentsStay ==
    ASSUME AgentInv,
           UNCHANGED <<claim, idle, rings, unseen>>,
           \A e \in Dispatchers, a \in Agents :
               /\ Owns(e, a)' => Owns(e, a)
               /\ Rung(e, a)' <=> Rung(e, a)
               /\ Wants(e, a)' => Wants(e, a) \/ a \in idle
    PROVE  AgentInv'
<1> SUFFICES ASSUME NEW a \in Agents
             PROVE  /\ \A d \in Dispatchers : (Owns(d, a) \/ Rung(d, a))' =>
                          /\ a \in claim
                          /\ \A e \in Dispatchers : (Owns(e, a) \/ Rung(e, a))' => e = d
                    /\ a \notin unseen =>
                          /\ rings[a] <= 1
                          /\ rings[a] # 0 /\ a \in idle => \E d \in Dispatchers : Rung(d, a)'
                          /\ \A d \in Dispatchers : Wants(d, a)' => rings[a] = 0 \/ a \in claim
                          /\ \A d \in Dispatchers : Owns(d, a)' => rings[a] = 0
    BY DEF AgentInv
<1> QED
    BY DEF AgentInv

(* A dispatcher takes a call from the queue.                                 *)
LEMMA CallTaken ==
    ASSUME QueueInv, TypeOK, NEW c \in Calls, NEW d \in Dispatchers, c \in queue[ivr[c].group],
           UNCHANGED <<call, ivr, active, rung, lost>>,
           \A g \in Groups, b \in Calls : b \in queue'[g] <=> b \in queue[g] /\ b # c,
           \A e \in Dispatchers, b \in Calls : Holds(e, b)' <=> Holds(e, b) \/ (e = d /\ b = c),
           disp'[d].group = ivr[c].group,
           \A e \in Dispatchers, b \in Calls : Holds(e, b) => disp'[e].group = disp[e].group
    PROVE  QueueInv'
<1>1. \A b \in Calls : ivr[b].group \in Groups
    BY DEF TypeOK
<1>2. \A e \in Dispatchers : ~Holds(e, c)
    BY DEF QueueInv
<1>3. ivr[c].at \notin {"check", "add"} /\ c \notin rung
    BY DEF QueueInv
<1> SUFFICES ASSUME NEW b \in Calls
             PROVE  /\ \A g \in Groups : b \in queue'[g] => g = ivr[b].group
                    /\ \A e \in Dispatchers : Holds(e, b)' =>
                          /\ disp'[e].group = ivr[b].group
                          /\ b \notin queue'[ivr[b].group]
                          /\ \A f \in Dispatchers : Holds(f, b)' => f = e
                    /\ (ivr[b].at \in {"check", "add"} \/ b \in rung) =>
                          /\ b \notin queue'[ivr[b].group]
                          /\ \A e \in Dispatchers : ~Holds(e, b)'
                    /\ ivr[b].at \in {"check", "add"} => b \notin rung
                    /\ ivr[b].at = "queued" => ivr[b].group \in active
                    /\ ivr[b].at \in {"register", "queued"} /\ call[b] = "ivr" /\ b \notin lost =>
                          \/ b \in queue'[ivr[b].group]
                          \/ \E e \in Dispatchers : Holds(e, b)'
    BY DEF QueueInv
<1>4. CASE b = c
    BY <1>1, <1>2, <1>3, <1>4 DEF QueueInv
<1>5. CASE b # c
    BY <1>1, <1>5 DEF QueueInv
<1> QED
    BY <1>4, <1>5

(* Dispatchers let calls go that are put through, ended or lost.             *)
LEMMA CallsLeft ==
    ASSUME QueueInv, TypeOK,
           UNCHANGED <<ivr, queue, active>>, lost \subseteq lost', rung \subseteq rung',
           \A e \in Dispatchers, b \in Calls :
               /\ Holds(e, b)' => Holds(e, b) /\ disp'[e].group = disp[e].group
               /\ Holds(e, b) /\ ~Holds(e, b)' => call'[b] # "ivr" \/ b \in lost',
           \A b \in Calls :
               /\ call'[b] = "ivr" => call[b] = "ivr"
               /\ b \in rung' /\ b \notin rung =>
                     \E e \in Dispatchers : Holds(e, b) /\ ~Holds(e, b)'
    PROVE  QueueInv'
<1> SUFFICES ASSUME NEW b \in Calls
             PROVE  /\ \A g \in Groups : b \in queue[g] => g = ivr[b].group
                    /\ \A e \in Dispatchers : Holds(e, b)' =>
                          /\ disp'[e].group = ivr[b].group
                          /\ b \notin queue[ivr[b].group]
                          /\ \A f \in Dispatchers : Holds(f, b)' => f = e
                    /\ (ivr[b].at \in {"check", "add"} \/ b \in rung') =>
                          /\ b \notin queue[ivr[b].group]
                          /\ \A e \in Dispatchers : ~Holds(e, b)'
                    /\ ivr[b].at \in {"check", "add"} => b \notin rung'
                    /\ ivr[b].at = "queued" => ivr[b].group \in active
                    /\ ivr[b].at \in {"register", "queued"} /\ call'[b] = "ivr" /\ b \notin lost' =>
                          \/ b \in queue[ivr[b].group]
                          \/ \E e \in Dispatchers : Holds(e, b)'
    BY DEF QueueInv
<1> QED
    BY DEF QueueInv

LEMMA TickInv ==
    ASSUME AcdInv, NEW d \in Dispatchers, Tick(d)
    PROVE  AcdInv'
<1>1. /\ disp' \in [Dispatchers -> DispRec]
      /\ \A e \in Dispatchers : e # d => disp'[e] = disp[e]
      /\ disp[d].at = "idle"
      /\ disp'[d].at = "idle"
    BY DEF AcdInv, TypeOK, ShapeOK, Shape, DispRec, Places, Tick, Idle
<1>2. TypeOK'
    BY <1>1 DEF AcdInv, TypeOK, DispRec, Tick, queueVars, agentVars
<1>3. ShapeOK'
    BY <1>1, AcdAssumption DEF AcdInv, ShapeOK, Shape, TypeOK
<1>4. QueueInv'
    <2>1. \A e \in Dispatchers, c \in Calls :
              /\ Holds(e, c)' <=> Holds(e, c)
              /\ Holds(e, c) => disp'[e].group = disp[e].group
        BY <1>1, AcdAssumption DEF Holds, AcdInv, TypeOK
    <2>2. \A c \in Calls : /\ c \in rung' <=> c \in rung
                           /\ call'[c] = "ivr" => call[c] = "ivr"
        BY DEF Tick, agentVars
    <2> QED
        BY <2>1, <2>2, CallsStay DEF AcdInv, Tick, queueVars
<1>5. AgentInv'
    <2>1. \A e \in Dispatchers, a \in Agents :
              /\ Owns(e, a)' => Owns(e, a)
              /\ Rung(e, a)' <=> Rung(e, a)
              /\ Wants(e, a)' => Wants(e, a) \/ a \in idle
        BY <1>1, AcdAssumption DEF Owns, Rung, Wants
    <2> QED
        BY <2>1, AgentsStay DEF AcdInv, Tick, agentVars
<1> QED
    BY <1>2, <1>3, <1>4, <1>5 DEF AcdInv

LEMMA ExpireScanInv ==
    ASSUME AcdInv, NEW d \in Dispatchers, NEW g \in Groups, ExpireScan(d, g)
    PROVE  AcdInv'
<1>1. /\ disp' \in [Dispatchers -> DispRec]
      /\ \A e \in Dispatchers : e # d => disp'[e] = disp[e]
      /\ disp[d].at = "idle"
      /\ disp'[d].at = "expire"
      /\ disp'[d].group = g
    BY DEF AcdInv, TypeOK, ShapeOK, Shape, DispRec, Places, ExpireScan
<1>2. TypeOK'
    BY <1>1 DEF AcdInv, TypeOK, DispRec, ExpireScan, queueVars, agentVars
<1>3. ShapeOK'
    BY <1>1, AcdAssumption DEF AcdInv, ShapeOK, Shape, TypeOK
<1>4. QueueInv'
    <2>1. \A e \in Dispatchers, c \in Calls :
              /\ Holds(e, c)' <=> Holds(e, c)
              /\ Holds(e, c) => disp'[e].group = disp[e].group
        BY <1>1, AcdAssumption DEF Holds, AcdInv, TypeOK
    <2>2. \A c \in Calls : /\ c \in rung' <=> c \in rung
                           /\ call'[c] = "ivr" => call[c] = "ivr"
        BY DEF ExpireScan, agentVars
    <2> QED
        BY <2>1, <2>2, CallsStay DEF AcdInv, ExpireScan, queueVars
<1>5. AgentInv'
    <2>1. \A e \in Dispatchers, a \in Agents :
              /\ Owns(e, a)' => Owns(e, a)
              /\ Rung(e, a)' <=> Rung(e, a)
              /\ Wants(e, a)' => Wants(e, a) \/ a \in idle
        BY <1>1, AcdAssumption DEF Owns, Rung, Wants
    <2> QED
        BY <2>1, AgentsStay DEF AcdInv, ExpireScan, agentVars
<1> QED
    BY <1>2, <1>3, <1>4, <1>5 DEF AcdInv

LEMMA GroupLookupFailsInv ==
    ASSUME AcdInv, NEW d \in Dispatchers, GroupLookupFails(d)
    PROVE  AcdInv'
<1>1. /\ disp' \in [Dispatchers -> DispRec]
      /\ \A e \in Dispatchers : e # d => disp'[e] = disp[e]
      /\ disp[d].at = "idle"
      /\ disp'[d].at = "idle"
    <2>1. PICK g \in disp[d].left : disp' = [disp EXCEPT ![d].left = @ \ {g}]
        BY DEF GroupLookupFails
    <2> QED
        BY <2>1 DEF AcdInv, TypeOK, DispRec, GroupLookupFails
<1>2. TypeOK'
    BY <1>1, FaultCounted DEF AcdInv, TypeOK, DispRec, GroupLookupFails, queueVars, agentVars
<1>3. ShapeOK'
    BY <1>1, AcdAssumption DEF AcdInv, ShapeOK, Shape, TypeOK
<1>4. QueueInv'
    <2>1. \A e \in Dispatchers, c \in Calls :
              /\ Holds(e, c)' <=> Holds(e, c)
              /\ Holds(e, c) => disp'[e].group = disp[e].group
        BY <1>1, AcdAssumption DEF Holds, AcdInv, TypeOK
    <2>2. \A c \in Calls : /\ c \in rung' <=> c \in rung
                           /\ call'[c] = "ivr" => call[c] = "ivr"
        BY DEF GroupLookupFails, agentVars
    <2> QED
        BY <2>1, <2>2, CallsStay DEF AcdInv, GroupLookupFails, queueVars
<1>5. AgentInv'
    <2>1. \A e \in Dispatchers, a \in Agents :
              /\ Owns(e, a)' => Owns(e, a)
              /\ Rung(e, a)' <=> Rung(e, a)
              /\ Wants(e, a)' => Wants(e, a) \/ a \in idle
        BY <1>1, AcdAssumption DEF Owns, Rung, Wants
    <2> QED
        BY <2>1, AgentsStay DEF AcdInv, GroupLookupFails, agentVars
<1> QED
    BY <1>2, <1>3, <1>4, <1>5 DEF AcdInv

LEMMA ExpireSkipsInv ==
    ASSUME AcdInv, NEW d \in Dispatchers, ExpireSkips(d)
    PROVE  AcdInv'
<1>1. /\ disp' \in [Dispatchers -> DispRec]
      /\ \A e \in Dispatchers : e # d => disp'[e] = disp[e]
      /\ disp[d].at = "expire"
      /\ disp'[d].at = "expire"
      /\ disp'[d].group = disp[d].group
    <2>1. PICK rest \in SUBSET disp[d].todo : disp' = [disp EXCEPT ![d].todo = rest]
        BY DEF ExpireSkips
    <2>2. rest \in SUBSET Calls
        BY DEF AcdInv, TypeOK
    <2>3. disp \in [Dispatchers -> DispRec] /\ disp[d].at = "expire"
        BY DEF AcdInv, TypeOK, DispRec, ExpireSkips
    <2> DEFINE x == [disp[d] EXCEPT !.todo = rest]
    <2>4. x \in DispRec /\ x.at = "expire" /\ x.group = disp[d].group
        BY <2>2, <2>3 DEF DispRec
    <2>5. disp' = [disp EXCEPT ![d] = x]
        BY <2>1, <2>3
    <2> HIDE DEF x
    <2> QED
        BY <2>3, <2>4, <2>5
<1>2. TypeOK'
    BY <1>1, FaultCounted DEF AcdInv, TypeOK, DispRec, ExpireSkips, queueVars, agentVars
<1>3. ShapeOK'
    BY <1>1, AcdAssumption DEF AcdInv, ShapeOK, Shape, TypeOK
<1>4. QueueInv'
    <2>1. \A e \in Dispatchers, c \in Calls :
              /\ Holds(e, c)' <=> Holds(e, c)
              /\ Holds(e, c) => disp'[e].group = disp[e].group
        BY <1>1, AcdAssumption DEF Holds, AcdInv, TypeOK
    <2>2. \A c \in Calls : /\ c \in rung' <=> c \in rung
                           /\ call'[c] = "ivr" => call[c] = "ivr"
        BY DEF ExpireSkips, agentVars
    <2> QED
        BY <2>1, <2>2, CallsStay DEF AcdInv, ExpireSkips, queueVars
<1>5. AgentInv'
    <2>1. \A e \in Dispatchers, a \in Agents :
              /\ Owns(e, a)' => Owns(e, a)
              /\ Rung(e, a)' <=> Rung(e, a)
              /\ Wants(e, a)' => Wants(e, a) \/ a \in idle
        BY <1>1, AcdAssumption DEF Owns, Rung, Wants
    <2> QED
        BY <2>1, AgentsStay DEF AcdInv, ExpireSkips, agentVars
<1> QED
    BY <1>2, <1>3, <1>4, <1>5 DEF AcdInv

LEMMA ExpireDoneInv ==
    ASSUME AcdInv, NEW d \in Dispatchers, ExpireDone(d)
    PROVE  AcdInv'
<1>1. /\ disp' \in [Dispatchers -> DispRec]
      /\ \A e \in Dispatchers : e # d => disp'[e] = disp[e]
      /\ disp[d].at = "expire"
      /\ disp'[d].at = "head"
      /\ disp'[d].group = disp[d].group
    BY GoesTo DEF AcdInv, Places, ExpireDone
<1>2. TypeOK'
    BY <1>1 DEF AcdInv, TypeOK, DispRec, ExpireDone, queueVars, agentVars
<1>3. ShapeOK'
    BY <1>1, AcdAssumption DEF AcdInv, ShapeOK, Shape, TypeOK
<1>4. QueueInv'
    <2>1. \A e \in Dispatchers, c \in Calls :
              /\ Holds(e, c)' <=> Holds(e, c)
              /\ Holds(e, c) => disp'[e].group = disp[e].group
        BY <1>1, AcdAssumption DEF Holds, AcdInv, TypeOK
    <2>2. \A c \in Calls : /\ c \in rung' <=> c \in rung
                           /\ call'[c] = "ivr" => call[c] = "ivr"
        BY DEF ExpireDone, agentVars
    <2> QED
        BY <2>1, <2>2, CallsStay DEF AcdInv, ExpireDone, queueVars
<1>5. AgentInv'
    <2>1. \A e \in Dispatchers, a \in Agents :
              /\ Owns(e, a)' => Owns(e, a)
              /\ Rung(e, a)' <=> Rung(e, a)
              /\ Wants(e, a)' => Wants(e, a) \/ a \in idle
        BY <1>1, AcdAssumption DEF Owns, Rung, Wants
    <2> QED
        BY <2>1, AgentsStay DEF AcdInv, ExpireDone, agentVars
<1> QED
    BY <1>2, <1>3, <1>4, <1>5 DEF AcdInv

LEMMA DispatchHeadInv ==
    ASSUME AcdInv, NEW d \in Dispatchers, DispatchHead(d)
    PROVE  AcdInv'
<1>1. /\ disp' \in [Dispatchers -> DispRec]
      /\ \A e \in Dispatchers : e # d => disp'[e] = disp[e]
      /\ disp[d].at = "head"
      /\ \/ disp'[d].at = "idle"
         \/ /\ disp'[d].at = "pick"
            /\ disp'[d].call \in Calls /\ disp'[d].group = disp[d].group
    <2>1. CASE GroupDone(d)
        <3>1. disp[d].at = "head"
            BY DEF DispatchHead
        <3> QED
            BY <2>1, <3>1, Finishes DEF AcdInv
    <2>2. CASE \E c \in queue[disp[d].group] : disp' = [disp EXCEPT ![d].at = "pick", ![d].call = c]
        <3>1. PICK c \in queue[disp[d].group] : disp' = [disp EXCEPT ![d].at = "pick", ![d].call = c]
            BY <2>2
        <3>2. disp[d].at = "head" /\ disp[d].group \in Groups
            BY DEF DispatchHead, AcdInv, ShapeOK, Shape
        <3>3. c \in Calls
            BY <3>1, <3>2 DEF AcdInv, TypeOK
        <3>4. "pick" \in Places /\ c \in Calls \cup {None}
            BY <3>3 DEF Places
        <3>5. /\ disp' \in [Dispatchers -> DispRec]
              /\ \A e \in Dispatchers : e # d => disp'[e] = disp[e]
              /\ disp'[d].at = "pick" /\ disp'[d].call = c /\ disp'[d].group = disp[d].group
            <4>1. disp \in [Dispatchers -> DispRec]
                BY DEF AcdInv, TypeOK, DispRec
            <4> DEFINE x == [disp[d] EXCEPT !.at = "pick", !.call = c]
            <4>2. x \in DispRec /\ x.at = "pick" /\ x.group = disp[d].group /\ x.call = c
                BY <3>4, <4>1 DEF DispRec
            <4>3. disp' = [disp EXCEPT ![d] = x]
                BY <3>1, <4>1 DEF DispRec
            <4> HIDE DEF x
            <4> QED
                BY <4>1, <4>2, <4>3
        <3> QED
            BY <3>2, <3>3, <3>5
    <2> QED
        BY <2>1, <2>2 DEF DispatchHead
<1>2. TypeOK'
    BY <1>1 DEF AcdInv, TypeOK, DispRec, DispatchHead, queueVars, agentVars
<1>3. ShapeOK'
    BY <1>1, AcdAssumption DEF AcdInv, ShapeOK, Shape, TypeOK
<1>4. QueueInv'
    <2>1. \A e \in Dispatchers, c \in Calls :
              /\ Holds(e, c)' <=> Holds(e, c)
              /\ Holds(e, c) => disp'[e].group = disp[e].group
        BY <1>1, AcdAssumption DEF Holds, AcdInv, TypeOK
    <2>2. \A c \in Calls : /\ c \in rung' <=> c \in rung
                           /\ call'[c] = "ivr" => call[c] = "ivr"
        BY DEF DispatchHead, agentVars
    <2> QED
        BY <2>1, <2>2, CallsStay DEF AcdInv, DispatchHead, queueVars
<1>5. AgentInv'
    <2>1. \A e \in Dispatchers, a \in Agents :
              /\ Owns(e, a)' => Owns(e, a)
              /\ Rung(e, a)' <=> Rung(e, a)
              /\ Wants(e, a)' => Wants(e, a) \/ a \in idle
        BY <1>1, AcdAssumption DEF Owns, Rung, Wants
    <2> QED
        BY <2>1, AgentsStay DEF AcdInv, DispatchHead, agentVars
<1> QED
    BY <1>2, <1>3, <1>4, <1>5 DEF AcdInv

LEMMA PickAgentInv ==
    ASSUME AcdInv, NEW d \in Dispatchers, pickAgent(d)
    PROVE  AcdInv'
<1>1. /\ disp' \in [Dispatchers -> DispRec]
      /\ \A e \in Dispatchers : e # d => disp'[e] = disp[e]
      /\ disp[d].at = "pick"
      /\ \/ disp'[d].at = "idle"
         \/ /\ disp'[d].at = "claim" /\ disp'[d].agent \in idle /\ disp'[d].agent \in Agents
            /\ disp'[d].call = disp[d].call /\ disp'[d].group = disp[d].group
    BY DEF AcdInv, TypeOK, ShapeOK, Shape, DispRec, Places, pickAgent, GroupDone, Idle
<1>2. TypeOK'
    BY <1>1 DEF AcdInv, TypeOK, DispRec, pickAgent, queueVars, agentVars
<1>3. ShapeOK'
    BY <1>1, AcdAssumption DEF AcdInv, ShapeOK, Shape, TypeOK
<1>4. QueueInv'
    <2>1. \A e \in Dispatchers, c \in Calls :
              /\ Holds(e, c)' <=> Holds(e, c)
              /\ Holds(e, c) => disp'[e].group = disp[e].group
        BY <1>1, AcdAssumption DEF Holds, AcdInv, TypeOK
    <2>2. \A c \in Calls : /\ c \in rung' <=> c \in rung
                           /\ call'[c] = "ivr" => call[c] = "ivr"
        BY DEF pickAgent, agentVars
    <2> QED
        BY <2>1, <2>2, CallsStay DEF AcdInv, pickAgent, queueVars
<1>5. AgentInv'
    <2>1. \A e \in Dispatchers, a \in Agents :
              /\ Owns(e, a)' => Owns(e, a)
              /\ Rung(e, a)' <=> Rung(e, a)
              /\ Wants(e, a)' => Wants(e, a) \/ a \in idle
        BY <1>1, AcdAssumption DEF Owns, Rung, Wants
    <2> QED
        BY <2>1, AgentsStay DEF AcdInv, pickAgent, agentVars
<1> QED
    BY <1>2, <1>3, <1>4, <1>5 DEF AcdInv

LEMMA DispatchFailsInv ==
    ASSUME AcdInv, NEW d \in Dispatchers, DispatchFails(d)
    PROVE  AcdInv'
<1>1. /\ disp' \in [Dispatchers -> DispRec]
      /\ \A e \in Dispatchers : e # d => disp'[e] = disp[e]
      /\ disp[d].at \in {"head", "pick", "claim", "remove"}
      /\ \/ disp'[d].at = "idle"
         \/ /\ disp[d].at = "remove" /\ disp'[d].at = "release" /\ disp'[d].call = None
            /\ disp'[d].agent = disp[d].agent /\ disp'[d].group = disp[d].group
    <2>1. CASE disp[d].at = "remove"
        <3>1. disp' = [disp EXCEPT ![d].at = "release", ![d].call = None]
            BY <2>1 DEF DispatchFails
        <3> QED
            BY <2>1, <3>1, GoesWith DEF AcdInv, Places
    <2>2. CASE disp[d].at # "remove"
        BY <2>2, Finishes DEF AcdInv, DispatchFails
    <2> QED
        BY <2>1, <2>2
<1>2. TypeOK'
    BY <1>1, FaultCounted DEF AcdInv, TypeOK, DispRec, DispatchFails, queueVars, agentVars
<1>3. ShapeOK'
    BY <1>1, AcdAssumption DEF AcdInv, ShapeOK, Shape, TypeOK
<1>4. QueueInv'
    <2>1. \A e \in Dispatchers, c \in Calls :
              /\ Holds(e, c)' <=> Holds(e, c)
              /\ Holds(e, c) => disp'[e].group = disp[e].group
        BY <1>1, AcdAssumption DEF Holds, AcdInv, TypeOK
    <2>2. \A c \in Calls : /\ c \in rung' <=> c \in rung
                           /\ call'[c] = "ivr" => call[c] = "ivr"
        BY DEF DispatchFails, agentVars
    <2> QED
        BY <2>1, <2>2, CallsStay DEF AcdInv, DispatchFails, queueVars
<1>5. AgentInv'
    <2>1. \A e \in Dispatchers, a \in Agents :
              /\ Owns(e, a)' => Owns(e, a)
              /\ Rung(e, a)' <=> Rung(e, a)
              /\ Wants(e, a)' => Wants(e, a) \/ a \in idle
        BY <1>1, AcdAssumption DEF Owns, Rung, Wants
    <2> QED
        BY <2>1, AgentsStay DEF AcdInv, DispatchFails, agentVars
<1> QED
    BY <1>2, <1>3, <1>4, <1>5 DEF AcdInv

LEMMA RingReadInv ==
    ASSUME AcdInv, NEW d \in Dispatchers, RingRead(d)
    PROVE  AcdInv'
<1>1. /\ disp' \in [Dispatchers -> DispRec]
      /\ \A e \in Dispatchers : e # d => disp'[e] = disp[e]
      /\ disp[d].at = "ring"
      /\ disp'[d].at \in {"write", "release"}
      /\ disp'[d].group = disp[d].group
      /\ disp'[d].call = disp[d].call
      /\ disp'[d].agent = disp[d].agent
    BY GoesTo DEF AcdInv, Places, RingRead
<1>2. TypeOK'
    BY <1>1 DEF AcdInv, TypeOK, DispRec, RingRead, queueVars, agentVars
<1>3. ShapeOK'
    BY <1>1, AcdAssumption DEF AcdInv, ShapeOK, Shape, TypeOK
<1>4. QueueInv'
    <2>1. \A e \in Dispatchers, c \in Calls :
              /\ Holds(e, c)' <=> Holds(e, c)
              /\ Holds(e, c) => disp'[e].group = disp[e].group
        BY <1>1, AcdAssumption DEF Holds, AcdInv, TypeOK
    <2>2. \A c \in Calls : /\ c \in rung' <=> c \in rung
                           /\ call'[c] = "ivr" => call[c] = "ivr"
        BY DEF RingRead, agentVars
    <2> QED
        BY <2>1, <2>2, CallsStay DEF AcdInv, RingRead, queueVars
<1>5. AgentInv'
    <2>1. \A e \in Dispatchers, a \in Agents :
              /\ Owns(e, a)' => Owns(e, a)
              /\ Rung(e, a)' <=> Rung(e, a)
              /\ Wants(e, a)' => Wants(e, a) \/ a \in idle
        BY <1>1, AcdAssumption DEF Owns, Rung, Wants
    <2> QED
        BY <2>1, AgentsStay DEF AcdInv, RingRead, agentVars
<1> QED
    BY <1>2, <1>3, <1>4, <1>5 DEF AcdInv

LEMMA RingFailsInv ==
    ASSUME AcdInv, NEW d \in Dispatchers, RingFails(d)
    PROVE  AcdInv'
<1>1. /\ disp' \in [Dispatchers -> DispRec]
      /\ \A e \in Dispatchers : e # d => disp'[e] = disp[e]
      /\ disp[d].at \in {"ring", "write"}
      /\ disp'[d].at = "release"
      /\ disp'[d].group = disp[d].group
      /\ disp'[d].call = disp[d].call
      /\ disp'[d].agent = disp[d].agent
    BY GoesTo DEF AcdInv, Places, RingFails
<1>2. TypeOK'
    BY <1>1, FaultCounted DEF AcdInv, TypeOK, DispRec, RingFails, queueVars, agentVars
<1>3. ShapeOK'
    BY <1>1, AcdAssumption DEF AcdInv, ShapeOK, Shape, TypeOK
<1>4. QueueInv'
    <2>1. \A e \in Dispatchers, c \in Calls :
              /\ Holds(e, c)' <=> Holds(e, c)
              /\ Holds(e, c) => disp'[e].group = disp[e].group
        BY <1>1, AcdAssumption DEF Holds, AcdInv, TypeOK
    <2>2. \A c \in Calls : /\ c \in rung' <=> c \in rung
                           /\ call'[c] = "ivr" => call[c] = "ivr"
        BY DEF RingFails, agentVars
    <2> QED
        BY <2>1, <2>2, CallsStay DEF AcdInv, RingFails, queueVars
<1>5. AgentInv'
    <2>1. \A e \in Dispatchers, a \in Agents :
              /\ Owns(e, a)' => Owns(e, a)
              /\ Rung(e, a)' <=> Rung(e, a)
              /\ Wants(e, a)' => Wants(e, a) \/ a \in idle
        BY <1>1, AcdAssumption DEF Owns, Rung, Wants
    <2> QED
        BY <2>1, AgentsStay DEF AcdInv, RingFails, agentVars
<1> QED
    BY <1>2, <1>3, <1>4, <1>5 DEF AcdInv

LEMMA ExpireRemoveInv ==
    ASSUME AcdInv, NEW d \in Dispatchers, NEW c \in Calls, ExpireRemove(d, c)
    PROVE  AcdInv'
<1>1. /\ disp' \in [Dispatchers -> DispRec]
      /\ \A e \in Dispatchers : e # d => disp'[e] = disp[e]
      /\ disp[d].at = "expire"
      /\ disp'[d].group = disp[d].group
      /\ IF c \in queue[disp[d].group]
         THEN disp'[d].at = "end" /\ disp'[d].call = c
         ELSE disp'[d].at = "expire"
    <2>1. disp \in [Dispatchers -> DispRec] /\ disp[d].at = "expire"
        BY DEF AcdInv, TypeOK, DispRec, ExpireRemove
    <2> DEFINE mine == c \in queue[disp[d].group]
               x == [disp[d] EXCEPT !.todo = @ \ {c}, !.call = IF mine THEN c ELSE None,
                                    !.at = IF mine THEN "end" ELSE "expire"]
    <2>2. /\ x \in DispRec
          /\ x.group = disp[d].group
          /\ IF mine THEN x.at = "end" /\ x.call = c ELSE x.at = "expire"
        BY <2>1 DEF DispRec, Places
    <2>3. disp' = [disp EXCEPT ![d] = x]
        BY <2>1 DEF ExpireRemove, DispRec
    <2> HIDE DEF x
    <2> QED
        BY <2>1, <2>2, <2>3
<1>2. TypeOK'
    BY <1>1 DEF AcdInv, TypeOK, DispRec, ExpireRemove, Take, agentVars
<1>3. ShapeOK'
    BY <1>1, AcdAssumption DEF AcdInv, ShapeOK, Shape, TypeOK
<1>4. QueueInv'
    <2>1. disp[d].group \in Groups
        BY <1>1 DEF AcdInv, ShapeOK, Shape
    <2>2. \A g \in Groups : queue'[g] = IF g = disp[d].group THEN queue[g] \ {c} ELSE queue[g]
        BY <2>1 DEF AcdInv, TypeOK, ExpireRemove, Take
    <2>3. CASE c \in queue[disp[d].group]
        <3>1. disp[d].group = ivr[c].group
            BY <2>1, <2>3 DEF AcdInv, QueueInv
        <3>a. \A g \in Groups : c \in queue[g] => g = disp[d].group
            BY <3>1 DEF AcdInv, QueueInv
        <3>2. \A g \in Groups, b \in Calls : b \in queue'[g] <=> b \in queue[g] /\ b # c
            BY <2>2, <3>a
        <3>3. \A e \in Dispatchers, b \in Calls :
                 /\ Holds(e, b)' <=> Holds(e, b) \/ (e = d /\ b = c)
                 /\ Holds(e, b) => disp'[e].group = disp[e].group
            BY <1>1, <2>3 DEF Holds
        <3>4. UNCHANGED <<call, ivr, active, rung, lost>>
            BY DEF ExpireRemove, agentVars
        <3> QED
            BY <1>1, <2>3, <3>1, <3>2, <3>3, <3>4, CallTaken DEF AcdInv, agentVars
    <2>4. CASE c \notin queue[disp[d].group]
        <3>1. queue' = queue
            BY <2>1, <2>4 DEF AcdInv, TypeOK, ExpireRemove, Take
        <3>2. \A e \in Dispatchers, b \in Calls :
                 /\ Holds(e, b)' <=> Holds(e, b)
                 /\ Holds(e, b) => disp'[e].group = disp[e].group
            BY <1>1, <2>4 DEF Holds
        <3> QED
            BY <3>1, <3>2, CallsStay DEF AcdInv, ExpireRemove, agentVars
    <2> QED
        BY <2>3, <2>4
<1>5. AgentInv'
    <2>1. \A e \in Dispatchers, a \in Agents :
              /\ Owns(e, a)' => Owns(e, a)
              /\ Rung(e, a)' <=> Rung(e, a)
              /\ Wants(e, a)' => Wants(e, a) \/ a \in idle
        BY <1>1, AcdAssumption DEF Owns, Rung, Wants
    <2> QED
        BY <2>1, AgentsStay DEF AcdInv, ExpireRemove, agentVars
<1> QED
    BY <1>2, <1>3, <1>4, <1>5 DEF AcdInv

LEMMA ExpireEndInv ==
    ASSUME AcdInv, NEW d \in Dispatchers, ExpireEnd(d)
    PROVE  AcdInv'
<1>1. /\ disp' \in [Dispatchers -> DispRec]
      /\ \A e \in Dispatchers : e # d => disp'[e] = disp[e]
      /\ disp[d].at = "end"
      /\ disp'[d].at = "expire"
      /\ disp'[d].call = None
      /\ disp'[d].group = disp[d].group
      /\ disp[d].call \in Calls
    BY GoesWith DEF AcdInv, Places, ExpireEnd, ShapeOK, Shape
<1>2. TypeOK'
    <2>1. call' \in [Calls -> Status]
        BY <1>1 DEF AcdInv, TypeOK, Status, ExpireEnd
    <2> QED
        BY <1>1, <2>1 DEF AcdInv, TypeOK, DispRec, ExpireEnd, queueVars, agentVars
<1>3. ShapeOK'
    BY <1>1, AcdAssumption DEF AcdInv, ShapeOK, Shape, TypeOK
<1>4. QueueInv'
    <2>1. \A e \in Dispatchers, b \in Calls :
              /\ Holds(e, b)' => Holds(e, b) /\ disp'[e].group = disp[e].group
              /\ Holds(e, b) /\ ~Holds(e, b)' => e = d /\ b = disp[d].call
        BY <1>1, AcdAssumption DEF Holds
    <2>2. /\ call'[disp[d].call] = "completed"
          /\ \A b \in Calls : /\ call'[b] = "ivr" => call[b] = "ivr"
                              /\ b \in rung' <=> b \in rung
        BY <1>1 DEF AcdInv, TypeOK, Status, ExpireEnd, agentVars
    <2> QED
        BY <1>1, <2>1, <2>2, CallsLeft DEF AcdInv, ExpireEnd, queueVars, agentVars
<1>5. AgentInv'
    <2>1. \A e \in Dispatchers, a \in Agents :
              /\ Owns(e, a)' => Owns(e, a)
              /\ Rung(e, a)' <=> Rung(e, a)
              /\ Wants(e, a)' => Wants(e, a) \/ a \in idle
        BY <1>1, AcdAssumption DEF Owns, Rung, Wants
    <2> QED
        BY <2>1, AgentsStay DEF AcdInv, ExpireEnd, agentVars
<1> QED
    BY <1>2, <1>3, <1>4, <1>5 DEF AcdInv

LEMMA ExpireEndFailsInv ==
    ASSUME AcdInv, NEW d \in Dispatchers, ExpireEndFails(d)
    PROVE  AcdInv'
<1>1. /\ disp' \in [Dispatchers -> DispRec]
      /\ \A e \in Dispatchers : e # d => disp'[e] = disp[e]
      /\ disp[d].at = "end"
      /\ disp'[d].at = "expire"
      /\ disp'[d].call = None
      /\ disp'[d].group = disp[d].group
      /\ disp[d].call \in Calls
    BY GoesWith DEF AcdInv, Places, ExpireEndFails, ShapeOK, Shape
<1>2. TypeOK'
    BY <1>1, FaultCounted DEF AcdInv, TypeOK, DispRec, ExpireEndFails, queueVars, agentVars
<1>3. ShapeOK'
    BY <1>1, AcdAssumption DEF AcdInv, ShapeOK, Shape, TypeOK
<1>4. QueueInv'
    <2>1. \A e \in Dispatchers, b \in Calls :
              /\ Holds(e, b)' => Holds(e, b) /\ disp'[e].group = disp[e].group
              /\ Holds(e, b) /\ ~Holds(e, b)' => e = d /\ b = disp[d].call
        BY <1>1, AcdAssumption DEF Holds
    <2>2. disp[d].call \in lost' /\ lost \subseteq lost'
        BY DEF ExpireEndFails
    <2> QED
        BY <1>1, <2>1, <2>2, CallsLeft DEF AcdInv, ExpireEndFails, queueVars, agentVars
<1>5. AgentInv'
    <2>1. \A e \in Dispatchers, a \in Agents :
              /\ Owns(e, a)' => Owns(e, a)
              /\ Rung(e, a)' <=> Rung(e, a)
              /\ Wants(e, a)' => Wants(e, a) \/ a \in idle
        BY <1>1, AcdAssumption DEF Owns, Rung, Wants
    <2> QED
        BY <2>1, AgentsStay DEF AcdInv, ExpireEndFails, agentVars
<1> QED
    BY <1>2, <1>3, <1>4, <1>5 DEF AcdInv

LEMMA TryClaimInv ==
    ASSUME AcdInv, NEW d \in Dispatchers, tryClaim(d)
    PROVE  AcdInv'
<1>1. /\ disp' \in [Dispatchers -> DispRec]
      /\ \A e \in Dispatchers : e # d => disp'[e] = disp[e]
      /\ disp[d].at = "claim"
      /\ disp'[d].group = disp[d].group \/ disp'[d].at = "idle"
      /\ IF disp[d].agent \in claim THEN disp'[d].at = "idle"
         ELSE disp'[d].at = "remove" /\ disp'[d].call = disp[d].call /\ disp'[d].agent = disp[d].agent
      /\ disp[d].agent \in Agents
    <2>1. disp[d].at = "claim" /\ disp[d].agent \in Agents
        BY DEF AcdInv, ShapeOK, Shape, tryClaim
    <2>2. CASE disp[d].agent \in claim
        BY <2>1, <2>2, Finishes DEF AcdInv, tryClaim
    <2>3. CASE disp[d].agent \notin claim
        BY <2>1, <2>3, GoesTo DEF AcdInv, Places, tryClaim
    <2> QED
        BY <2>2, <2>3
<1>2. TypeOK'
    BY <1>1 DEF AcdInv, TypeOK, DispRec, tryClaim, queueVars, agentVars
<1>3. ShapeOK'
    BY <1>1, AcdAssumption DEF AcdInv, ShapeOK, Shape, TypeOK
<1>4. QueueInv'
    <2>1. \A e \in Dispatchers, c \in Calls :
              /\ Holds(e, c)' <=> Holds(e, c)
              /\ Holds(e, c) => disp'[e].group = disp[e].group
        BY <1>1, AcdAssumption DEF Holds, AcdInv, TypeOK
    <2>2. \A c \in Calls : /\ c \in rung' <=> c \in rung
                           /\ call'[c] = "ivr" => call[c] = "ivr"
        BY DEF tryClaim, agentVars
    <2> QED
        BY <2>1, <2>2, CallsStay DEF AcdInv, tryClaim, queueVars
<1>5. AgentInv'
    <2>1. CASE disp[d].agent \in claim
        <3>1. claim' = claim
            BY <2>1 DEF tryClaim
        <3>2. \A e \in Dispatchers, a \in Agents :
                 /\ Owns(e, a)' => Owns(e, a)
                 /\ Rung(e, a)' <=> Rung(e, a)
                 /\ Wants(e, a)' => Wants(e, a) \/ a \in idle
            BY <1>1, <2>1 DEF Owns, Rung, Wants
        <3> QED
            BY <3>1, <3>2, AgentsStay DEF AcdInv, tryClaim, agentVars
    <2>2. CASE disp[d].agent \notin claim
        <3>1. \A e \in Dispatchers, a \in Agents :
                 /\ Owns(e, a)' <=> Owns(e, a) \/ (e = d /\ a = disp[d].agent)
                 /\ Rung(e, a)' <=> Rung(e, a)
                 /\ Wants(e, a)' => Wants(e, a)
            BY <1>1, <2>2 DEF Owns, Rung, Wants
        <3>2. Wants(d, disp[d].agent)
            BY <1>1 DEF Wants
        <3>3. claim' = claim \cup {disp[d].agent} /\ UNCHANGED <<idle, rings, unseen>>
            BY DEF tryClaim, agentVars
        <3>4. disp[d].agent \in unseen \/ rings[disp[d].agent] = 0
            BY <1>1, <2>2, <3>2 DEF AcdInv, AgentInv
        <3> SUFFICES ASSUME NEW a \in Agents
                     PROVE  /\ \A e \in Dispatchers : (Owns(e, a) \/ Rung(e, a))' =>
                                  /\ a \in claim'
                                  /\ \A f \in Dispatchers : (Owns(f, a) \/ Rung(f, a))' => f = e
                            /\ a \notin unseen =>
                                  /\ rings[a] <= 1
                                  /\ rings[a] # 0 /\ a \in idle => \E e \in Dispatchers : Rung(e, a)'
                                  /\ \A e \in Dispatchers : Wants(e, a)' => rings[a] = 0 \/ a \in claim'
                                  /\ \A e \in Dispatchers : Owns(e, a)' => rings[a] = 0
            BY <3>3 DEF AgentInv
        <3>5. CASE a = disp[d].agent
            BY <2>2, <3>1, <3>3, <3>4, <3>5 DEF AcdInv, AgentInv
        <3>6. CASE a # disp[d].agent
            BY <3>1, <3>3, <3>6 DEF AcdInv, AgentInv
        <3> QED
            BY <3>5, <3>6
    <2> QED
        BY <2>1, <2>2
<1> QED
    BY <1>2, <1>3, <1>4, <1>5 DEF AcdInv

LEMMA DispatchRemoveInv ==
    ASSUME AcdInv, NEW d \in Dispatchers, DispatchRemove(d)
    PROVE  AcdInv'
<1>1. /\ disp' \in [Dispatchers -> DispRec]
      /\ \A e \in Dispatchers : e # d => disp'[e] = disp[e]
      /\ disp[d].at = "remove"
      /\ disp[d].call \in Calls
      /\ disp'[d].group = disp[d].group
      /\ disp'[d].agent = disp[d].agent
      /\ IF disp[d].call \in queue[disp[d].group]
         THEN disp'[d].at = "ring" /\ disp'[d].call = disp[d].call
         ELSE disp'[d].at = "release" /\ disp'[d].call = None
    <2>1. disp \in [Dispatchers -> DispRec] /\ disp[d].at = "remove" /\ disp[d].call \in Calls
        BY DEF AcdInv, TypeOK, ShapeOK, Shape, DispRec, DispatchRemove
    <2> DEFINE mine == disp[d].call \in queue[disp[d].group]
               x == [disp[d] EXCEPT !.at = IF mine THEN "ring" ELSE "release",
                                    !.call = IF mine THEN @ ELSE None]
    <2>2. /\ x \in DispRec
          /\ x.group = disp[d].group /\ x.agent = disp[d].agent
          /\ IF mine THEN x.at = "ring" /\ x.call = disp[d].call
                     ELSE x.at = "release" /\ x.call = None
        BY <2>1 DEF DispRec, Places
    <2>3. disp' = [disp EXCEPT ![d] = x]
        BY <2>1 DEF DispatchRemove, DispRec
    <2> HIDE DEF x
    <2> QED
        BY <2>1, <2>2, <2>3
<1>2. TypeOK'
    BY <1>1 DEF AcdInv, TypeOK, DispRec, DispatchRemove, Take, agentVars
<1>3. ShapeOK'
    BY <1>1, AcdAssumption DEF AcdInv, ShapeOK, Shape, TypeOK
<1>4. QueueInv'
    <2> DEFINE c == disp[d].call
    <2>1. disp[d].group \in Groups
        BY <1>1 DEF AcdInv, ShapeOK, Shape
    <2>2. \A g \in Groups : queue'[g] = IF g = disp[d].group THEN queue[g] \ {c} ELSE queue[g]
        BY <2>1 DEF AcdInv, TypeOK, DispatchRemove, Take
    <2>3. CASE c \in queue[disp[d].group]
        <3>1. disp[d].group = ivr[c].group
            BY <1>1, <2>1, <2>3 DEF AcdInv, QueueInv
        <3>2. \A g \in Groups : c \in queue[g] => g = disp[d].group
            BY <1>1, <3>1 DEF AcdInv, QueueInv
        <3>3. \A g \in Groups, b \in Calls : b \in queue'[g] <=> b \in queue[g] /\ b # c
            BY <2>2, <3>2
        <3>4. \A e \in Dispatchers, b \in Calls :
                 /\ Holds(e, b)' <=> Holds(e, b) \/ (e = d /\ b = c)
                 /\ Holds(e, b) => disp'[e].group = disp[e].group
            BY <1>1, <2>3 DEF Holds
        <3>5. UNCHANGED <<call, ivr, active, rung, lost>>
            BY DEF DispatchRemove, agentVars
        <3> HIDE DEF c
        <3>6. c \in Calls
            BY <1>1 DEF c
        <3> QED
            BY <1>1, <2>3, <3>1, <3>3, <3>4, <3>5, <3>6, CallTaken DEF AcdInv, agentVars
    <2>4. CASE c \notin queue[disp[d].group]
        <3>1. queue' = queue
            BY <2>1, <2>4 DEF AcdInv, TypeOK, DispatchRemove, Take
        <3>2. \A e \in Dispatchers, b \in Calls :
                 /\ Holds(e, b)' <=> Holds(e, b)
                 /\ Holds(e, b) => disp'[e].group = disp[e].group
            BY <1>1, <2>4, AcdAssumption DEF Holds
        <3> QED
            BY <3>1, <3>2, CallsStay DEF AcdInv, DispatchRemove, agentVars
    <2> QED
        BY <2>3, <2>4
<1>5. AgentInv'
    <2>1. \A e \in Dispatchers, a \in Agents :
              /\ Owns(e, a)' => Owns(e, a)
              /\ Rung(e, a)' <=> Rung(e, a)
              /\ Wants(e, a)' => Wants(e, a) \/ a \in idle
        BY <1>1, AcdAssumption DEF Owns, Rung, Wants
    <2> QED
        BY <2>1, AgentsStay DEF AcdInv, DispatchRemove, agentVars
<1> QED
    BY <1>2, <1>3, <1>4, <1>5 DEF AcdInv

LEMMA RingWriteInv ==
    ASSUME AcdInv, NEW d \in Dispatchers, RingWrite(d)
    PROVE  AcdInv'
<1>1. /\ disp' \in [Dispatchers -> DispRec]
      /\ \A e \in Dispatchers : e # d => disp'[e] = disp[e]
      /\ disp[d].at = "write"
      /\ disp'[d].at = "presence"
      /\ disp'[d].group = disp[d].group
      /\ disp'[d].call = disp[d].call
      /\ disp'[d].agent = disp[d].agent
      /\ disp[d].call \in Calls /\ disp[d].agent \in Agents
    BY GoesTo DEF AcdInv, Places, RingWrite, ShapeOK, Shape
<1>2. TypeOK'
    <2>1. call' \in [Calls -> Status]
        BY <1>1 DEF AcdInv, TypeOK, Status, RingWrite
    <2>2. rings' \in [Agents -> Nat]
        BY <1>1 DEF AcdInv, TypeOK, RingWrite
    <2> QED
        BY <1>1, <2>1, <2>2 DEF AcdInv, TypeOK, DispRec, RingWrite, queueVars
<1>3. ShapeOK'
    BY <1>1, AcdAssumption DEF AcdInv, ShapeOK, Shape, TypeOK
<1>4. QueueInv'
    <2>1. \A e \in Dispatchers, b \in Calls :
              /\ Holds(e, b)' => Holds(e, b) /\ disp'[e].group = disp[e].group
              /\ Holds(e, b) /\ ~Holds(e, b)' => e = d /\ b = disp[d].call
        BY <1>1, AcdAssumption DEF Holds
    <2>2. /\ call'[disp[d].call] = "served"
          /\ \A b \in Calls : b # disp[d].call => call'[b] = call[b]
          /\ Holds(d, disp[d].call) /\ ~Holds(d, disp[d].call)'
        BY <1>1 DEF AcdInv, TypeOK, Status, RingWrite, Holds
    <2>3. rung' = rung \cup {disp[d].call} /\ UNCHANGED <<ivr, queue, active, lost>>
        BY DEF RingWrite, queueVars
    <2> QED
        BY <1>1, <2>1, <2>2, <2>3, CallsLeft DEF AcdInv
<1>5. AgentInv'
    <2>1. \A e \in Dispatchers, a \in Agents :
              /\ Owns(e, a)' <=> Owns(e, a) /\ ~(e = d /\ a = disp[d].agent)
              /\ Rung(e, a)' <=> Rung(e, a) \/ (e = d /\ a = disp[d].agent)
              /\ Wants(e, a)' => Wants(e, a)
        BY <1>1 DEF Owns, Rung, Wants
    <2>2. Owns(d, disp[d].agent)
        BY <1>1 DEF Owns
    <2>3. /\ UNCHANGED <<claim, idle, unseen>>
          /\ rings'[disp[d].agent] = rings[disp[d].agent] + 1
          /\ \A a \in Agents : a # disp[d].agent => rings'[a] = rings[a]
        BY <1>1 DEF RingWrite, AcdInv, TypeOK
    <2>4. disp[d].agent \in unseen \/ rings[disp[d].agent] = 0
        BY <1>1, <2>2 DEF AcdInv, AgentInv
    <2> SUFFICES ASSUME NEW a \in Agents
                 PROVE  /\ \A e \in Dispatchers : (Owns(e, a) \/ Rung(e, a))' =>
                              /\ a \in claim'
                              /\ \A f \in Dispatchers : (Owns(f, a) \/ Rung(f, a))' => f = e
                        /\ a \notin unseen' =>
                              /\ rings'[a] <= 1
                              /\ rings'[a] # 0 /\ a \in idle' => \E e \in Dispatchers : Rung(e, a)'
                              /\ \A e \in Dispatchers : Wants(e, a)' => rings'[a] = 0 \/ a \in claim'
                              /\ \A e \in Dispatchers : Owns(e, a)' => rings'[a] = 0
        BY DEF AgentInv
    <2>5. CASE a = disp[d].agent
        BY <2>1, <2>2, <2>3, <2>4, <2>5 DEF AcdInv, AgentInv
    <2>6. CASE a # disp[d].agent
        BY <2>1, <2>3, <2>6 DEF AcdInv, AgentInv
    <2> QED
        BY <2>5, <2>6
<1> QED
    BY <1>2, <1>3, <1>4, <1>5 DEF AcdInv

LEMMA RingPresenceInv ==
    ASSUME AcdInv, NEW d \in Dispatchers, RingPresence(d)
    PROVE  AcdInv'
<1>1. /\ disp' \in [Dispatchers -> DispRec]
      /\ \A e \in Dispatchers : e # d => disp'[e] = disp[e]
      /\ disp[d].at = "presence"
      /\ disp'[d].at = "idle"
      /\ disp[d].agent \in Agents
    BY Finishes DEF AcdInv, RingPresence, ShapeOK, Shape
<1>2. TypeOK'
    BY <1>1 DEF AcdInv, TypeOK, DispRec, RingPresence, queueVars, agentVars
<1>3. ShapeOK'
    BY <1>1, AcdAssumption DEF AcdInv, ShapeOK, Shape, TypeOK
<1>4. QueueInv'
    <2>1. \A e \in Dispatchers, c \in Calls :
              /\ Holds(e, c)' <=> Holds(e, c)
              /\ Holds(e, c) => disp'[e].group = disp[e].group
        BY <1>1, AcdAssumption DEF Holds, AcdInv, TypeOK
    <2>2. \A c \in Calls : /\ c \in rung' <=> c \in rung
                           /\ call'[c] = "ivr" => call[c] = "ivr"
        BY DEF RingPresence
    <2> QED
        BY <2>1, <2>2, CallsStay DEF AcdInv, RingPresence, queueVars
<1>5. AgentInv'
    <2>1. \A e \in Dispatchers, a \in Agents :
              /\ Owns(e, a)' <=> Owns(e, a)
              /\ Rung(e, a)' <=> Rung(e, a) /\ e # d
              /\ Wants(e, a)' => Wants(e, a)
              /\ Rung(d, a) => a = disp[d].agent
        BY <1>1 DEF Owns, Rung, Wants
    <2>2. UNCHANGED <<claim, rings, unseen>> /\ idle' = idle \ {disp[d].agent}
        BY DEF RingPresence
    <2> SUFFICES ASSUME NEW a \in Agents
                 PROVE  /\ \A e \in Dispatchers : (Owns(e, a) \/ Rung(e, a))' =>
                              /\ a \in claim'
                              /\ \A f \in Dispatchers : (Owns(f, a) \/ Rung(f, a))' => f = e
                        /\ a \notin unseen' =>
                              /\ rings'[a] <= 1
                              /\ rings'[a] # 0 /\ a \in idle' => \E e \in Dispatchers : Rung(e, a)'
                              /\ \A e \in Dispatchers : Wants(e, a)' => rings'[a] = 0 \/ a \in claim'
                              /\ \A e \in Dispatchers : Owns(e, a)' => rings'[a] = 0
        BY DEF AgentInv
    <2> QED
        BY <2>1, <2>2 DEF AcdInv, AgentInv
<1> QED
    BY <1>2, <1>3, <1>4, <1>5 DEF AcdInv

LEMMA RingPresenceFailsInv ==
    ASSUME AcdInv, NEW d \in Dispatchers, RingPresenceFails(d)
    PROVE  AcdInv'
<1>1. /\ disp' \in [Dispatchers -> DispRec]
      /\ \A e \in Dispatchers : e # d => disp'[e] = disp[e]
      /\ disp[d].at = "presence"
      /\ disp'[d].at = "idle"
      /\ disp[d].agent \in Agents
    BY Finishes DEF AcdInv, RingPresenceFails, ShapeOK, Shape
<1>2. TypeOK'
    BY <1>1, FaultCounted DEF AcdInv, TypeOK, DispRec, RingPresenceFails, queueVars, agentVars
<1>3. ShapeOK'
    BY <1>1, AcdAssumption DEF AcdInv, ShapeOK, Shape, TypeOK
<1>4. QueueInv'
    <2>1. \A e \in Dispatchers, c \in Calls :
              /\ Holds(e, c)' <=> Holds(e, c)
              /\ Holds(e, c) => disp'[e].group = disp[e].group
        BY <1>1, AcdAssumption DEF Holds, AcdInv, TypeOK
    <2>2. \A c \in Calls : /\ c \in rung' <=> c \in rung
                           /\ call'[c] = "ivr" => call[c] = "ivr"
        BY DEF RingPresenceFails
    <2> QED
        BY <2>1, <2>2, CallsStay DEF AcdInv, RingPresenceFails, queueVars
<1>5. AgentInv'
    <2>1. \A e \in Dispatchers, a \in Agents :
              /\ Owns(e, a)' <=> Owns(e, a)
              /\ Rung(e, a)' <=> Rung(e, a) /\ e # d
              /\ Wants(e, a)' => Wants(e, a)
              /\ Rung(d, a) => a = disp[d].agent
        BY <1>1 DEF Owns, Rung, Wants
    <2>2. UNCHANGED <<claim, rings, idle>> /\ unseen' = unseen \cup {disp[d].agent}
        BY DEF RingPresenceFails
    <2> SUFFICES ASSUME NEW a \in Agents
                 PROVE  /\ \A e \in Dispatchers : (Owns(e, a) \/ Rung(e, a))' =>
                              /\ a \in claim'
                              /\ \A f \in Dispatchers : (Owns(f, a) \/ Rung(f, a))' => f = e
                        /\ a \notin unseen' =>
                              /\ rings'[a] <= 1
                              /\ rings'[a] # 0 /\ a \in idle' => \E e \in Dispatchers : Rung(e, a)'
                              /\ \A e \in Dispatchers : Wants(e, a)' => rings'[a] = 0 \/ a \in claim'
                              /\ \A e \in Dispatchers : Owns(e, a)' => rings'[a] = 0
        BY DEF AgentInv
    <2> QED
        BY <2>1, <2>2 DEF AcdInv, AgentInv
<1> QED
    BY <1>2, <1>3, <1>4, <1>5 DEF AcdInv

LEMMA ReleaseClaimInv ==
    ASSUME AcdInv, NEW d \in Dispatchers, releaseClaim(d)
    PROVE  AcdInv'
<1>1. /\ disp' \in [Dispatchers -> DispRec]
      /\ \A e \in Dispatchers : e # d => disp'[e] = disp[e]
      /\ disp[d].at = "release"
      /\ disp[d].agent \in Agents
      /\ IF disp[d].call = None THEN disp'[d].at = "idle"
         ELSE /\ disp'[d].at = "requeue" /\ disp'[d].group = disp[d].group
              /\ disp'[d].call = disp[d].call /\ disp'[d].agent = disp[d].agent
              /\ disp[d].call \in Calls
    <2>1. disp[d].at = "release" /\ disp[d].agent \in Agents /\ disp[d].call \in Calls \cup {None}
        BY DEF AcdInv, ShapeOK, Shape, releaseClaim, TypeOK
    <2>2. CASE disp[d].call = None
        BY <2>1, <2>2, Finishes DEF AcdInv, releaseClaim
    <2>3. CASE disp[d].call # None
        BY <2>1, <2>3, GoesTo DEF AcdInv, Places, releaseClaim
    <2> QED
        BY <2>2, <2>3
<1>2. TypeOK'
    <2>1. faults' \in 0..MaxFaults
        BY FaultCounted DEF AcdInv, TypeOK, releaseClaim
    <2> QED
        BY <1>1, <2>1 DEF AcdInv, TypeOK, DispRec, releaseClaim, queueVars, agentVars
<1>3. ShapeOK'
    BY <1>1, AcdAssumption DEF AcdInv, ShapeOK, Shape, TypeOK
<1>4. QueueInv'
    <2>1. \A e \in Dispatchers, c \in Calls :
              /\ Holds(e, c)' <=> Holds(e, c)
              /\ Holds(e, c) => disp'[e].group = disp[e].group
        BY <1>1, AcdAssumption DEF Holds, AcdInv, TypeOK
    <2>2. \A c \in Calls : /\ c \in rung' <=> c \in rung
                           /\ call'[c] = "ivr" => call[c] = "ivr"
        BY DEF releaseClaim, agentVars
    <2> QED
        BY <2>1, <2>2, CallsStay DEF AcdInv, releaseClaim, queueVars
<1>5. AgentInv'
    <2>1. \A e \in Dispatchers, a \in Agents :
              /\ Owns(e, a)' <=> Owns(e, a) /\ e # d
              /\ Rung(e, a)' <=> Rung(e, a)
              /\ Wants(e, a)' => Wants(e, a)
        BY <1>1 DEF Owns, Rung, Wants
    <2>2. Owns(d, disp[d].agent)
        BY <1>1 DEF Owns
    <2>3. UNCHANGED <<idle, rings, unseen>> /\ (claim' = claim \/ claim' = claim \ {disp[d].agent})
        BY DEF releaseClaim, agentVars
    <2> SUFFICES ASSUME NEW a \in Agents
                 PROVE  /\ \A e \in Dispatchers : (Owns(e, a) \/ Rung(e, a))' =>
                              /\ a \in claim'
                              /\ \A f \in Dispatchers : (Owns(f, a) \/ Rung(f, a))' => f = e
                        /\ a \notin unseen' =>
                              /\ rings'[a] <= 1
                              /\ rings'[a] # 0 /\ a \in idle' => \E e \in Dispatchers : Rung(e, a)'
                              /\ \A e \in Dispatchers : Wants(e, a)' => rings'[a] = 0 \/ a \in claim'
                              /\ \A e \in Dispatchers : Owns(e, a)' => rings'[a] = 0
        BY DEF AgentInv
    <2>4. CASE a = disp[d].agent
        <3>1. \A e \in Dispatchers : Owns(e, a) \/ Rung(e, a) => e = d
            BY <2>2, <2>4 DEF AcdInv, AgentInv
        <3>2. ~Rung(d, a)
            BY <1>1 DEF Rung
        <3>3. \A e \in Dispatchers : ~Owns(e, a)' /\ ~Rung(e, a)' /\ ~Rung(e, a)
            BY <2>1, <3>1, <3>2
        <3>4. a \notin unseen => rings[a] = 0
            BY <2>2, <2>4 DEF AcdInv, AgentInv
        <3> QED
            BY <2>3, <3>3, <3>4
    <2>5. CASE a # disp[d].agent
        BY <2>1, <2>3, <2>5 DEF AcdInv, AgentInv
    <2> QED
        BY <2>4, <2>5
<1> QED
    BY <1>2, <1>3, <1>4, <1>5 DEF AcdInv

LEMMA RequeueInv ==
    ASSUME AcdInv, NEW d \in Dispatchers, Requeue(d)
    PROVE  AcdInv'
<1>1. /\ disp' \in [Dispatchers -> DispRec]
      /\ \A e \in Dispatchers : e # d => disp'[e] = disp[e]
      /\ disp[d].at = "requeue"
      /\ disp'[d].at = "idle"
      /\ disp[d].call \in Calls /\ disp[d].group \in Groups
    BY Finishes DEF AcdInv, Requeue, ShapeOK, Shape
<1>2. TypeOK'
    BY <1>1 DEF AcdInv, TypeOK, DispRec, Requeue, agentVars
<1>3. ShapeOK'
    BY <1>1, AcdAssumption DEF AcdInv, ShapeOK, Shape, TypeOK
<1>4. QueueInv'
    <2> DEFINE c == disp[d].call
    <2>1. Holds(d, c) /\ disp[d].group = ivr[c].group
        BY <1>1 DEF Holds, AcdInv, QueueInv
    <2>2. \A e \in Dispatchers, b \in Calls :
              /\ Holds(e, b)' <=> Holds(e, b) /\ b # c
              /\ Holds(e, b)' => disp'[e].group = disp[e].group
        <3>1. \A e \in Dispatchers : Holds(e, c) => e = d
            BY <1>1, <2>1 DEF AcdInv, QueueInv
        <3>2. \A b \in Calls : ~Holds(d, b)' /\ (Holds(d, b) => b = c)
            BY <1>1 DEF Holds
        <3>3. \A e \in Dispatchers, b \in Calls : e # d => (Holds(e, b)' <=> Holds(e, b))
            BY <1>1 DEF Holds
        <3> HIDE DEF c
        <3> QED
            BY <1>1, <3>1, <3>2, <3>3
    <2>3. \A g \in Groups, b \in Calls : b \in queue'[g] <=> b \in queue[g] \/ (b = c /\ g = ivr[c].group)
        BY <1>1, <2>1 DEF AcdInv, TypeOK, Requeue
    <2>4. UNCHANGED <<call, ivr, active, rung, lost>>
        BY DEF Requeue, agentVars
    <2>5. \A b \in Calls : ivr[b].group \in Groups
        BY DEF AcdInv, TypeOK
    <2>6. c \in Calls
        BY <1>1
    <2> HIDE DEF c
    <2> SUFFICES ASSUME NEW b \in Calls
                 PROVE  /\ \A g \in Groups : b \in queue'[g] => g = ivr[b].group
                        /\ \A e \in Dispatchers : Holds(e, b)' =>
                              /\ disp'[e].group = ivr[b].group
                              /\ b \notin queue'[ivr[b].group]
                              /\ \A f \in Dispatchers : Holds(f, b)' => f = e
                        /\ (ivr[b].at \in {"check", "add"} \/ b \in rung) =>
                              /\ b \notin queue'[ivr[b].group]
                              /\ \A e \in Dispatchers : ~Holds(e, b)'
                        /\ ivr[b].at \in {"check", "add"} => b \notin rung
                        /\ ivr[b].at = "queued" => ivr[b].group \in active
                        /\ ivr[b].at \in {"register", "queued"} /\ call[b] = "ivr" /\ b \notin lost =>
                              \/ b \in queue'[ivr[b].group]
                              \/ \E e \in Dispatchers : Holds(e, b)'
        BY <2>4 DEF QueueInv
    <2>7. CASE b = c
        BY <2>1, <2>2, <2>3, <2>5, <2>7 DEF AcdInv, QueueInv
    <2>8. CASE b # c
        BY <2>2, <2>3, <2>5, <2>8 DEF AcdInv, QueueInv
    <2> QED
        BY <2>7, <2>8
<1>5. AgentInv'
    <2>1. \A e \in Dispatchers, a \in Agents :
              /\ Owns(e, a)' => Owns(e, a)
              /\ Rung(e, a)' <=> Rung(e, a)
              /\ Wants(e, a)' => Wants(e, a) \/ a \in idle
        BY <1>1, AcdAssumption DEF Owns, Rung, Wants
    <2> QED
        BY <2>1, AgentsStay DEF AcdInv, Requeue, agentVars
<1> QED
    BY <1>2, <1>3, <1>4, <1>5 DEF AcdInv

LEMMA RequeueFailsInv ==
    ASSUME AcdInv, NEW d \in Dispatchers, RequeueFails(d)
    PROVE  AcdInv'
<1>1. /\ disp' \in [Dispatchers -> DispRec]
      /\ \A e \in Dispatchers : e # d => disp'[e] = disp[e]
      /\ disp[d].at = "requeue"
      /\ disp'[d].at = "idle"
      /\ disp[d].call \in Calls
    BY Finishes DEF AcdInv, RequeueFails, ShapeOK, Shape
<1>2. TypeOK'
    BY <1>1, FaultCounted DEF AcdInv, TypeOK, DispRec, RequeueFails, queueVars, agentVars
<1>3. ShapeOK'
    BY <1>1, AcdAssumption DEF AcdInv, ShapeOK, Shape, TypeOK
<1>4. QueueInv'
    <2>1. \A e \in Dispatchers, b \in Calls :
              /\ Holds(e, b)' => Holds(e, b) /\ disp'[e].group = disp[e].group
              /\ Holds(e, b) /\ ~Holds(e, b)' => e = d /\ b = disp[d].call
        BY <1>1, AcdAssumption DEF Holds
    <2>2. disp[d].call \in lost' /\ lost \subseteq lost'
        BY DEF RequeueFails
    <2> QED
        BY <1>1, <2>1, <2>2, CallsLeft DEF AcdInv, RequeueFails, queueVars, agentVars
<1>5. AgentInv'
    <2>1. \A e \in Dispatchers, a \in Agents :
              /\ Owns(e, a)' => Owns(e, a)
              /\ Rung(e, a)' <=> Rung(e, a)
              /\ Wants(e, a)' => Wants(e, a) \/ a \in idle
        BY <1>1, AcdAssumption DEF Owns, Rung, Wants
    <2> QED
        BY <2>1, AgentsStay DEF AcdInv, RequeueFails, agentVars
<1> QED
    BY <1>2, <1>3, <1>4, <1>5 DEF AcdInv

LEMMA RestartInv ==
    ASSUME AcdInv, NEW d \in Dispatchers, Restart(d)
    PROVE  AcdInv'
<1>1. /\ disp' \in [Dispatchers -> DispRec]
      /\ \A e \in Dispatchers : e # d => disp'[e] = disp[e]
      /\ disp'[d].at = "idle"
    <2>1. Idle({}) \in DispRec /\ Idle({}).at = "idle"
        BY DEF Idle, DispRec, Places
    <2>2. disp \in [Dispatchers -> DispRec]
        BY DEF AcdInv, TypeOK, DispRec
    <2> QED
        BY <2>1, <2>2 DEF Restart
<1>2. TypeOK'
    BY <1>1, FaultCounted DEF AcdInv, TypeOK, DispRec, Restart, queueVars, agentVars
<1>3. ShapeOK'
    BY <1>1, AcdAssumption DEF AcdInv, ShapeOK, Shape, TypeOK
<1>4. QueueInv'
    <2>1. \A e \in Dispatchers, b \in Calls :
              /\ Holds(e, b)' => Holds(e, b) /\ disp'[e].group = disp[e].group
              /\ Holds(e, b) /\ ~Holds(e, b)' => e = d
        BY <1>1 DEF Holds
    <2>2. /\ lost \subseteq lost'
          /\ \A b \in Calls : Holds(d, b) => b \in lost'
        BY DEF Restart
    <2>3. UNCHANGED <<call, ivr, queue, active, rung>>
        BY DEF Restart, queueVars, agentVars
    <2> QED
        BY <2>1, <2>2, <2>3, CallsLeft DEF AcdInv
<1>5. AgentInv'
    <2>1. \A e \in Dispatchers, a \in Agents :
              /\ Owns(e, a)' => Owns(e, a)
              /\ Rung(e, a)' => Rung(e, a)
              /\ Rung(e, a) => Rung(e, a)' \/ e = d
              /\ Wants(e, a)' => Wants(e, a)
        BY <1>1 DEF Owns, Rung, Wants
    <2>2. \A a \in Agents : Rung(d, a) => a \in unseen'
        BY DEF Restart, Rung
    <2>3. UNCHANGED <<claim, idle, rings>> /\ unseen \subseteq unseen'
        BY DEF Restart
    <2> SUFFICES ASSUME NEW a \in Agents
                 PROVE  /\ \A e \in Dispatchers : (Owns(e, a) \/ Rung(e, a))' =>
                              /\ a \in claim'
                              /\ \A f \in Dispatchers : (Owns(f, a) \/ Rung(f, a))' => f = e
                        /\ a \notin unseen' =>
                              /\ rings'[a] <= 1
                              /\ rings'[a] # 0 /\ a \in idle' => \E e \in Dispatchers : Rung(e, a)'
                              /\ \A e \in Dispatchers : Wants(e, a)' => rings'[a] = 0 \/ a \in claim'
                              /\ \A e \in Dispatchers : Owns(e, a)' => rings'[a] = 0
        BY DEF AgentInv
    <2> QED
        BY <2>1, <2>2, <2>3 DEF AcdInv, AgentInv
<1> QED
    BY <1>2, <1>3, <1>4, <1>5 DEF AcdInv

-----------------------------------------------------------------------------
(* The surroundings.                                                         *)
LEMMA ClaimExpiresInv ==
    ASSUME AcdInv, NEW a \in Agents, ClaimExpires(a)
    PROVE  AcdInv'
<1>1. TypeOK'
    BY DEF AcdInv, TypeOK, ClaimExpires, queueVars, agentVars
<1>2. ShapeOK'
    BY DEF AcdInv, ShapeOK, ClaimExpires
<1>3. QueueInv'
    <2>1. UNCHANGED <<disp, call, ivr, queue, active, rung, lost>>
        BY DEF ClaimExpires, queueVars, agentVars
    <2>2. \A e \in Dispatchers, c \in Calls : Holds(e, c)' <=> Holds(e, c)
        BY <2>1 DEF Holds
    <2> QED
        BY <2>1, <2>2, CallsStay DEF AcdInv
<1>4. AgentInv'
    <2>1. \A e \in Dispatchers : ~Owns(e, a) /\ ~Rung(e, a) /\ ~Wants(e, a)
        BY DEF ClaimExpires, Owns, Rung, Wants
    <2>2. UNCHANGED <<disp, idle, rings, unseen>> /\ claim' = claim \ {a}
        BY DEF ClaimExpires, agentVars
    <2>3. \A e \in Dispatchers, b \in Agents :
              /\ Owns(e, b)' <=> Owns(e, b)
              /\ Rung(e, b)' <=> Rung(e, b)
              /\ Wants(e, b)' <=> Wants(e, b)
        BY <2>2 DEF Owns, Rung, Wants
    <2> SUFFICES ASSUME NEW b \in Agents
                 PROVE  /\ \A e \in Dispatchers : (Owns(e, b) \/ Rung(e, b))' =>
                              /\ b \in claim'
                              /\ \A f \in Dispatchers : (Owns(f, b) \/ Rung(f, b))' => f = e
                        /\ b \notin unseen' =>
                              /\ rings'[b] <= 1
                              /\ rings'[b] # 0 /\ b \in idle' => \E e \in Dispatchers : Rung(e, b)'
                              /\ \A e \in Dispatchers : Wants(e, b)' => rings'[b] = 0 \/ b \in claim'
                              /\ \A e \in Dispatchers : Owns(e, b)' => rings'[b] = 0
        BY DEF AgentInv
    <2>4. CASE b = a
        BY <2>1, <2>2, <2>3, <2>4 DEF AcdInv, AgentInv
    <2>5. CASE b # a
        BY <2>2, <2>3, <2>5 DEF AcdInv, AgentInv
    <2> QED
        BY <2>4, <2>5
<1> QED
    BY <1>1, <1>2, <1>3, <1>4 DEF AcdInv

LEMMA LeaveIdleInv ==
    ASSUME AcdInv, NEW a \in Agents, LeaveIdle(a)
    PROVE  AcdInv'
<1>1. TypeOK'
    BY DEF AcdInv, TypeOK, LeaveIdle, queueVars, agentVars
<1>2. ShapeOK'
    BY DEF AcdInv, ShapeOK, LeaveIdle
<1>3. QueueInv'
    <2>1. UNCHANGED <<disp, call, ivr, queue, active, rung, lost>>
        BY DEF LeaveIdle, queueVars, agentVars
    <2>2. \A e \in Dispatchers, c \in Calls : Holds(e, c)' <=> Holds(e, c)
        BY <2>1 DEF Holds
    <2> QED
        BY <2>1, <2>2, CallsStay DEF AcdInv
<1>4. AgentInv'
    <2>2. UNCHANGED <<disp, claim, rings, unseen>> /\ idle' = idle \ {a}
        BY DEF LeaveIdle
    <2>3. \A e \in Dispatchers, b \in Agents :
              /\ Owns(e, b)' <=> Owns(e, b)
              /\ Rung(e, b)' <=> Rung(e, b)
              /\ Wants(e, b)' <=> Wants(e, b)
        BY <2>2 DEF Owns, Rung, Wants
    <2> SUFFICES ASSUME NEW b \in Agents
                 PROVE  /\ \A e \in Dispatchers : (Owns(e, b) \/ Rung(e, b))' =>
                              /\ b \in claim'
                              /\ \A f \in Dispatchers : (Owns(f, b) \/ Rung(f, b))' => f = e
                        /\ b \notin unseen' =>
                              /\ rings'[b] <= 1
                              /\ rings'[b] # 0 /\ b \in idle' => \E e \in Dispatchers : Rung(e, b)'
                              /\ \A e \in Dispatchers : Wants(e, b)' => rings'[b] = 0 \/ b \in claim'
                              /\ \A e \in Dispatchers : Owns(e, b)' => rings'[b] = 0
        BY DEF AgentInv
    <2>4. CASE b = a
        BY <2>2, <2>3, <2>4 DEF AcdInv, AgentInv
    <2>5. CASE b # a
        BY <2>2, <2>3, <2>5 DEF AcdInv, AgentInv
    <2> QED
        BY <2>4, <2>5
<1> QED
    BY <1>1, <1>2, <1>3, <1>4 DEF AcdInv

LEMMA BecomeIdleInv ==
    ASSUME AcdInv, NEW a \in Agents, BecomeIdle(a)
    PROVE  AcdInv'
<1>1. TypeOK'
    BY DEF AcdInv, TypeOK, BecomeIdle, queueVars, agentVars
<1>2. ShapeOK'
    BY DEF AcdInv, ShapeOK, BecomeIdle
<1>3. QueueInv'
    <2>1. UNCHANGED <<disp, call, ivr, queue, active, rung, lost>>
        BY DEF BecomeIdle, queueVars, agentVars
    <2>2. \A e \in Dispatchers, c \in Calls : Holds(e, c)' <=> Holds(e, c)
        BY <2>1 DEF Holds
    <2> QED
        BY <2>1, <2>2, CallsStay DEF AcdInv
<1>4. AgentInv'
    <2>2. /\ UNCHANGED <<disp, claim>> /\ unseen' = unseen \ {a}
          /\ idle' = idle \cup {a}
          /\ \A b \in Agents : rings'[b] = IF b = a THEN 0 ELSE rings[b]
        BY DEF BecomeIdle, AcdInv, TypeOK
    <2>3. \A e \in Dispatchers, b \in Agents :
              /\ Owns(e, b)' <=> Owns(e, b)
              /\ Rung(e, b)' <=> Rung(e, b)
              /\ Wants(e, b)' <=> Wants(e, b)
        BY <2>2 DEF Owns, Rung, Wants
    <2> SUFFICES ASSUME NEW b \in Agents
                 PROVE  /\ \A e \in Dispatchers : (Owns(e, b) \/ Rung(e, b))' =>
                              /\ b \in claim'
                              /\ \A f \in Dispatchers : (Owns(f, b) \/ Rung(f, b))' => f = e
                        /\ b \notin unseen' =>
                              /\ rings'[b] <= 1
                              /\ rings'[b] # 0 /\ b \in idle' => \E e \in Dispatchers : Rung(e, b)'
                              /\ \A e \in Dispatchers : Wants(e, b)' => rings'[b] = 0 \/ b \in claim'
                              /\ \A e \in Dispatchers : Owns(e, b)' => rings'[b] = 0
        BY DEF AgentInv
    <2>4. CASE b = a
        BY <2>2, <2>3, <2>4 DEF AcdInv, AgentInv
    <2>5. CASE b # a
        BY <2>2, <2>3, <2>5 DEF AcdInv, AgentInv
    <2> QED
        BY <2>4, <2>5
<1> QED
    BY <1>1, <1>2, <1>3, <1>4 DEF AcdInv

LEMMA WaitTooLongInv ==
    ASSUME AcdInv, NEW c \in Calls, WaitTooLong(c)
    PROVE  AcdInv'
<1>1. TypeOK'
    BY DEF AcdInv, TypeOK, WaitTooLong, queueVars, agentVars, Status
<1>2. ShapeOK'
    BY DEF AcdInv, ShapeOK, WaitTooLong
<1>3. QueueInv'
    <2>1. UNCHANGED <<disp, ivr, queue, active, rung, lost>>
        BY DEF WaitTooLong, queueVars, agentVars
    <2>2. \A b \in Calls : /\ b \in rung' <=> b \in rung
                           /\ call'[b] = "ivr" => call[b] = "ivr"
        BY DEF WaitTooLong, AcdInv, TypeOK, Status, agentVars
    <2>3. \A e \in Dispatchers, b \in Calls : Holds(e, b)' <=> Holds(e, b)
        BY <2>1 DEF Holds
    <2> QED
        BY <2>1, <2>2, <2>3, CallsStay DEF AcdInv
<1>4. AgentInv'
    <2>1. UNCHANGED <<disp, claim, idle, rings, unseen>>
        BY DEF WaitTooLong, agentVars
    <2>2. \A e \in Dispatchers, a \in Agents :
              /\ Owns(e, a)' <=> Owns(e, a)
              /\ Rung(e, a)' <=> Rung(e, a)
              /\ Wants(e, a)' <=> Wants(e, a)
        BY <2>1 DEF Owns, Rung, Wants
    <2> QED
        BY <2>1, <2>2, AgentsStay DEF AcdInv
<1> QED
    BY <1>1, <1>2, <1>3, <1>4 DEF AcdInv

LEMMA HangupInv ==
    ASSUME AcdInv, NEW c \in Calls, Hangup(c)
    PROVE  AcdInv'
<1>1. TypeOK'
    BY DEF AcdInv, TypeOK, Hangup, queueVars, agentVars, Status
<1>2. ShapeOK'
    BY DEF AcdInv, ShapeOK, Hangup
<1>3. QueueInv'
    <2>1. UNCHANGED <<disp, ivr, queue, active, rung, lost>>
        BY DEF Hangup, queueVars, agentVars
    <2>2. \A b \in Calls : /\ b \in rung' <=> b \in rung
                           /\ call'[b] = "ivr" => call[b] = "ivr"
        BY DEF Hangup, AcdInv, TypeOK, Status, agentVars
    <2>3. \A e \in Dispatchers, b \in Calls : Holds(e, b)' <=> Holds(e, b)
        BY <2>1 DEF Holds
    <2> QED
        BY <2>1, <2>2, <2>3, CallsStay DEF AcdInv
<1>4. AgentInv'
    <2>1. UNCHANGED <<disp, claim, idle, rings, unseen>>
        BY DEF Hangup, agentVars
    <2>2. \A e \in Dispatchers, a \in Agents :
              /\ Owns(e, a)' <=> Owns(e, a)
              /\ Rung(e, a)' <=> Rung(e, a)
              /\ Wants(e, a)' <=> Wants(e, a)
        BY <2>1 DEF Owns, Rung, Wants
    <2> QED
        BY <2>1, <2>2, AgentsStay DEF AcdInv
<1> QED
    BY <1>1, <1>2, <1>3, <1>4 DEF AcdInv

LEMMA AnswerQueuedInv ==
    ASSUME AcdInv, NEW c \in Calls, NEW a \in Agents, AnswerQueued(c, a)
    PROVE  AcdInv'
<1>1. TypeOK'
    BY DEF AcdInv, TypeOK, AnswerQueued, queueVars, Status
<1>2. ShapeOK'
    BY DEF AcdInv, ShapeOK, AnswerQueued
<1>3. QueueInv'
    <2>1. UNCHANGED <<disp, ivr, queue, active, rung, lost>>
        BY DEF AnswerQueued, queueVars
    <2>2. \A b \in Calls : /\ b \in rung' <=> b \in rung
                           /\ call'[b] = "ivr" => call[b] = "ivr"
        BY <2>1 DEF AnswerQueued, AcdInv, TypeOK, Status
    <2>3. \A e \in Dispatchers, b \in Calls : Holds(e, b)' <=> Holds(e, b)
        BY <2>1 DEF Holds
    <2> QED
        BY <2>1, <2>2, <2>3, CallsStay DEF AcdInv
<1>4. AgentInv'
    <2>1. UNCHANGED <<disp, claim, rings, unseen>> /\ idle' \subseteq idle
        BY DEF AnswerQueued
    <2>2. \A e \in Dispatchers, b \in Agents :
              /\ Owns(e, b)' <=> Owns(e, b)
              /\ Rung(e, b)' <=> Rung(e, b)
              /\ Wants(e, b)' <=> Wants(e, b)
        BY <2>1 DEF Owns, Rung, Wants
    <2> SUFFICES ASSUME NEW b \in Agents
                 PROVE  /\ \A e \in Dispatchers : (Owns(e, b) \/ Rung(e, b))' =>
                              /\ b \in claim'
                              /\ \A f \in Dispatchers : (Owns(f, b) \/ Rung(f, b))' => f = e
                        /\ b \notin unseen' =>
                              /\ rings'[b] <= 1
                              /\ rings'[b] # 0 /\ b \in idle' => \E e \in Dispatchers : Rung(e, b)'
                              /\ \A e \in Dispatchers : Wants(e, b)' => rings'[b] = 0 \/ b \in claim'
                              /\ \A e \in Dispatchers : Owns(e, b)' => rings'[b] = 0
        BY DEF AgentInv
    <2> QED
        BY <2>1, <2>2 DEF AcdInv, AgentInv
<1> QED
    BY <1>1, <1>2, <1>3, <1>4 DEF AcdInv

LEMMA EnqueueCheckInv ==
    ASSUME AcdInv, NEW c \in Calls, EnqueueCheck(c)
    PROVE  AcdInv'
<1>1. TypeOK'
    <2>1. ivr' \in [Calls -> [at : {"check", "add", "register", "queued", "refused"}, group : Groups]]
        <3>1. ivr[c].group \in Groups
            BY DEF AcdInv, TypeOK
        <3>2. OverflowGroup[ivr[c].group] \in Groups \cup {None}
            BY <3>1, AcdAssumption
        <3> QED
            BY <3>1, <3>2 DEF AcdInv, TypeOK, EnqueueCheck
    <2> QED
        BY <2>1 DEF AcdInv, TypeOK, EnqueueCheck, agentVars
<1>2. ShapeOK'
    BY DEF AcdInv, ShapeOK, EnqueueCheck
<1>3. QueueInv'
    <2>1. \A e \in Dispatchers, b \in Calls : Holds(e, b)' <=> Holds(e, b)
        BY DEF Holds, EnqueueCheck
    <2>2. /\ ivr[c].at = "check" /\ ivr'[c].at \in {"check", "add", "refused"}
          /\ \A b \in Calls : b # c => ivr'[b] = ivr[b]
          /\ UNCHANGED <<call, queue, active, rung, lost>>
        BY DEF EnqueueCheck, AcdInv, TypeOK, agentVars
    <2>3. UNCHANGED disp /\ \A b \in Calls : ivr[b].group \in Groups
        BY DEF AcdInv, TypeOK, EnqueueCheck
    <2>4. \A b \in Calls : b # c => ivr'[b].group = ivr[b].group /\ ivr'[b].at = ivr[b].at
        BY <2>2
    <2> SUFFICES ASSUME NEW b \in Calls
                 PROVE  /\ \A g \in Groups : b \in queue'[g] => g = ivr'[b].group
                        /\ \A e \in Dispatchers : Holds(e, b)' =>
                              /\ disp'[e].group = ivr'[b].group
                              /\ b \notin queue'[ivr'[b].group]
                              /\ \A f \in Dispatchers : Holds(f, b)' => f = e
                        /\ (ivr'[b].at \in {"check", "add"} \/ b \in rung') =>
                              /\ b \notin queue'[ivr'[b].group]
                              /\ \A e \in Dispatchers : ~Holds(e, b)'
                        /\ ivr'[b].at \in {"check", "add"} => b \notin rung'
                        /\ ivr'[b].at = "queued" => ivr'[b].group \in active'
                        /\ ivr'[b].at \in {"register", "queued"} /\ call'[b] = "ivr" /\ b \notin lost' =>
                              \/ b \in queue'[ivr'[b].group]
                              \/ \E e \in Dispatchers : Holds(e, b)'
        BY DEF QueueInv
    <2>5. CASE b = c
        <3>1. \A g \in Groups : c \notin queue[g]
            BY <2>2, <2>3 DEF AcdInv, QueueInv
        <3>2. ivr'[c].group \in Groups
            BY <1>1 DEF TypeOK
        <3>3. c \notin rung /\ \A e \in Dispatchers : ~Holds(e, c)
            BY <2>2 DEF AcdInv, QueueInv
        <3> QED
            BY <2>1, <2>2, <2>5, <3>1, <3>2, <3>3
    <2>6. CASE b # c
        BY <2>1, <2>2, <2>3, <2>4, <2>6 DEF AcdInv, QueueInv
    <2> QED
        BY <2>5, <2>6
<1>4. AgentInv'
    <2>1. UNCHANGED <<disp, claim, idle, rings, unseen>>
        BY DEF EnqueueCheck, agentVars
    <2>2. \A e \in Dispatchers, a \in Agents :
              /\ Owns(e, a)' <=> Owns(e, a)
              /\ Rung(e, a)' <=> Rung(e, a)
              /\ Wants(e, a)' <=> Wants(e, a)
        BY <2>1 DEF Owns, Rung, Wants
    <2> QED
        BY <2>1, <2>2, AgentsStay DEF AcdInv
<1> QED
    BY <1>1, <1>2, <1>3, <1>4 DEF AcdInv

LEMMA EnqueueCheckFailsInv ==
    ASSUME AcdInv, NEW c \in Calls, EnqueueCheckFails(c)
    PROVE  AcdInv'
<1>1. TypeOK'
    <2>1. ivr' \in [Calls -> [at : {"check", "add", "register", "queued", "refused"}, group : Groups]]
        BY DEF AcdInv, TypeOK, EnqueueCheckFails
    <2>2. faults' \in 0..MaxFaults
        BY FaultCounted DEF AcdInv, EnqueueCheckFails
    <2> QED
        BY <2>1, <2>2 DEF AcdInv, TypeOK, EnqueueCheckFails, agentVars
<1>2. ShapeOK'
    BY DEF AcdInv, ShapeOK, EnqueueCheckFails
<1>3. QueueInv'
    <2>1. \A e \in Dispatchers, b \in Calls : Holds(e, b)' <=> Holds(e, b)
        BY DEF Holds, EnqueueCheckFails
    <2>2. /\ ivr[c].at = "check" /\ ivr'[c].at = "add" /\ ivr'[c].group = ivr[c].group
          /\ \A b \in Calls : b # c => ivr'[b] = ivr[b]
          /\ UNCHANGED <<call, queue, active, rung, lost>>
        BY DEF EnqueueCheckFails, AcdInv, TypeOK, agentVars
    <2>3. UNCHANGED disp /\ \A b \in Calls : ivr[b].group \in Groups
        BY DEF AcdInv, TypeOK, EnqueueCheckFails
    <2>4. \A b \in Calls : b # c => ivr'[b].group = ivr[b].group /\ ivr'[b].at = ivr[b].at
        BY <2>2
    <2> SUFFICES ASSUME NEW b \in Calls
                 PROVE  /\ \A g \in Groups : b \in queue'[g] => g = ivr'[b].group
                        /\ \A e \in Dispatchers : Holds(e, b)' =>
                              /\ disp'[e].group = ivr'[b].group
                              /\ b \notin queue'[ivr'[b].group]
                              /\ \A f \in Dispatchers : Holds(f, b)' => f = e
                        /\ (ivr'[b].at \in {"check", "add"} \/ b \in rung') =>
                              /\ b \notin queue'[ivr'[b].group]
                              /\ \A e \in Dispatchers : ~Holds(e, b)'
                        /\ ivr'[b].at \in {"check", "add"} => b \notin rung'
                        /\ ivr'[b].at = "queued" => ivr'[b].group \in active'
                        /\ ivr'[b].at \in {"register", "queued"} /\ call'[b] = "ivr" /\ b \notin lost' =>
                              \/ b \in queue'[ivr'[b].group]
                              \/ \E e \in Dispatchers : Holds(e, b)'
        BY DEF QueueInv
    <2>5. CASE b = c
        BY <2>1, <2>2, <2>3, <2>5 DEF AcdInv, QueueInv
    <2>6. CASE b # c
        BY <2>1, <2>2, <2>3, <2>4, <2>6 DEF AcdInv, QueueInv
    <2> QED
        BY <2>5, <2>6
<1>4. AgentInv'
    <2>1. UNCHANGED <<disp, claim, idle, rings, unseen>>
        BY DEF EnqueueCheckFails, agentVars
    <2>2. \A e \in Dispatchers, a \in Agents :
              /\ Owns(e, a)' <=> Owns(e, a)
              /\ Rung(e, a)' <=> Rung(e, a)
              /\ Wants(e, a)' <=> Wants(e, a)
        BY <2>1 DEF Owns, Rung, Wants
    <2> QED
        BY <2>1, <2>2, AgentsStay DEF AcdInv
<1> QED
    BY <1>1, <1>2, <1>3, <1>4 DEF AcdInv

LEMMA EnqueueFailsInv ==
    ASSUME AcdInv, NEW c \in Calls, EnqueueFails(c)
    PROVE  AcdInv'
<1>1. TypeOK'
    <2>1. ivr' \in [Calls -> [at : {"check", "add", "register", "queued", "refused"}, group : Groups]]
        BY DEF AcdInv, TypeOK, EnqueueFails
    <2>2. faults' \in 0..MaxFaults
        BY FaultCounted DEF AcdInv, EnqueueFails
    <2> QED
        BY <2>1, <2>2 DEF AcdInv, TypeOK, EnqueueFails, agentVars
<1>2. ShapeOK'
    BY DEF AcdInv, ShapeOK, EnqueueFails
<1>3. QueueInv'
    <2>1. \A e \in Dispatchers, b \in Calls : Holds(e, b)' <=> Holds(e, b)
        BY DEF Holds, EnqueueFails
    <2>2. /\ ivr'[c].at = "refused" /\ ivr'[c].group = ivr[c].group
          /\ \A b \in Calls : b # c => ivr'[b] = ivr[b]
          /\ UNCHANGED <<call, queue, active, rung, lost>>
        BY DEF EnqueueFails, AcdInv, TypeOK, agentVars
    <2>3. UNCHANGED disp /\ \A b \in Calls : ivr[b].group \in Groups
        BY DEF AcdInv, TypeOK, EnqueueFails
    <2>4. \A b \in Calls : b # c => ivr'[b].group = ivr[b].group /\ ivr'[b].at = ivr[b].at
        BY <2>2
    <2> SUFFICES ASSUME NEW b \in Calls
                 PROVE  /\ \A g \in Groups : b \in queue'[g] => g = ivr'[b].group
                        /\ \A e \in Dispatchers : Holds(e, b)' =>
                              /\ disp'[e].group = ivr'[b].group
                              /\ b \notin queue'[ivr'[b].group]
                              /\ \A f \in Dispatchers : Holds(f, b)' => f = e
                        /\ (ivr'[b].at \in {"check", "add"} \/ b \in rung') =>
                              /\ b \notin queue'[ivr'[b].group]
                              /\ \A e \in Dispatchers : ~Holds(e, b)'
                        /\ ivr'[b].at \in {"check", "add"} => b \notin rung'
                        /\ ivr'[b].at = "queued" => ivr'[b].group \in active'
                        /\ ivr'[b].at \in {"register", "queued"} /\ call'[b] = "ivr" /\ b \notin lost' =>
                              \/ b \in queue'[ivr'[b].group]
                              \/ \E e \in Dispatchers : Holds(e, b)'
        BY DEF QueueInv
    <2>5. CASE b = c
        BY <2>1, <2>2, <2>3, <2>5 DEF AcdInv, QueueInv
    <2>6. CASE b # c
        BY <2>1, <2>2, <2>3, <2>4, <2>6 DEF AcdInv, QueueInv
    <2> QED
        BY <2>5, <2>6
<1>4. AgentInv'
    <2>1. UNCHANGED <<disp, claim, idle, rings, unseen>>
        BY DEF EnqueueFails, agentVars
    <2>2. \A e \in Dispatchers, a \in Agents :
              /\ Owns(e, a)' <=> Owns(e, a)
              /\ Rung(e, a)' <=> Rung(e, a)
              /\ Wants(e, a)' <=> Wants(e, a)
        BY <2>1 DEF Owns, Rung, Wants
    <2> QED
        BY <2>1, <2>2, AgentsStay DEF AcdInv
<1> QED
    BY <1>1, <1>2, <1>3, <1>4 DEF AcdInv

LEMMA EnqueueRegisterInv ==
    ASSUME AcdInv, NEW c \in Calls, EnqueueRegister(c)
    PROVE  AcdInv'
<1>1. TypeOK'
    <2>1. ivr' \in [Calls -> [at : {"check", "add", "register", "queued", "refused"}, group : Groups]]
        BY DEF AcdInv, TypeOK, EnqueueRegister
    <2> QED
        BY <2>1 DEF AcdInv, TypeOK, EnqueueRegister, agentVars
<1>2. ShapeOK'
    BY DEF AcdInv, ShapeOK, EnqueueRegister
<1>3. QueueInv'
    <2>1. \A e \in Dispatchers, b \in Calls : Holds(e, b)' <=> Holds(e, b)
        BY DEF Holds, EnqueueRegister
    <2>2. /\ ivr[c].at = "register" /\ ivr'[c].at = "queued" /\ ivr'[c].group = ivr[c].group
          /\ \A b \in Calls : b # c => ivr'[b] = ivr[b]
          /\ UNCHANGED <<call, queue, lost, rung>> /\ active' = active \cup {ivr[c].group}
        BY DEF EnqueueRegister, AcdInv, TypeOK, agentVars
    <2>3. UNCHANGED disp /\ \A b \in Calls : ivr[b].group \in Groups
        BY DEF AcdInv, TypeOK, EnqueueRegister
    <2>4. \A b \in Calls : b # c => ivr'[b].group = ivr[b].group /\ ivr'[b].at = ivr[b].at
        BY <2>2
    <2> SUFFICES ASSUME NEW b \in Calls
                 PROVE  /\ \A g \in Groups : b \in queue'[g] => g = ivr'[b].group
                        /\ \A e \in Dispatchers : Holds(e, b)' =>
                              /\ disp'[e].group = ivr'[b].group
                              /\ b \notin queue'[ivr'[b].group]
                              /\ \A f \in Dispatchers : Holds(f, b)' => f = e
                        /\ (ivr'[b].at \in {"check", "add"} \/ b \in rung') =>
                              /\ b \notin queue'[ivr'[b].group]
                              /\ \A e \in Dispatchers : ~Holds(e, b)'
                        /\ ivr'[b].at \in {"check", "add"} => b \notin rung'
                        /\ ivr'[b].at = "queued" => ivr'[b].group \in active'
                        /\ ivr'[b].at \in {"register", "queued"} /\ call'[b] = "ivr" /\ b \notin lost' =>
                              \/ b \in queue'[ivr'[b].group]
                              \/ \E e \in Dispatchers : Holds(e, b)'
        BY DEF QueueInv
    <2>5. CASE b = c
        BY <2>1, <2>2, <2>3, <2>5 DEF AcdInv, QueueInv
    <2>6. CASE b # c
        BY <2>1, <2>2, <2>3, <2>4, <2>6 DEF AcdInv, QueueInv
    <2> QED
        BY <2>5, <2>6
<1>4. AgentInv'
    <2>1. UNCHANGED <<disp, claim, idle, rings, unseen>>
        BY DEF EnqueueRegister, agentVars
    <2>2. \A e \in Dispatchers, a \in Agents :
              /\ Owns(e, a)' <=> Owns(e, a)
              /\ Rung(e, a)' <=> Rung(e, a)
              /\ Wants(e, a)' <=> Wants(e, a)
        BY <2>1 DEF Owns, Rung, Wants
    <2> QED
        BY <2>1, <2>2, AgentsStay DEF AcdInv
<1> QED
    BY <1>1, <1>2, <1>3, <1>4 DEF AcdInv

LEMMA EnqueueAddInv ==
    ASSUME AcdInv, NEW c \in Calls, EnqueueAdd(c)
    PROVE  AcdInv'
<1>1. TypeOK'
    <2>1. ivr' \in [Calls -> [at : {"check", "add", "register", "queued", "refused"}, group : Groups]]
        BY DEF AcdInv, TypeOK, EnqueueAdd
    <2>2. stamp' \in [Calls -> Nat]
        <3>1. Cardinality({b \in Calls : stamp[b] > 0}) \in Nat
            BY AcdAssumption, FS_Subset, FS_CardinalityType
        <3> QED
            BY <3>1 DEF AcdInv, TypeOK, EnqueueAdd
    <2> QED
        BY <2>1, <2>2 DEF AcdInv, TypeOK, EnqueueAdd, agentVars
<1>2. ShapeOK'
    BY DEF AcdInv, ShapeOK, EnqueueAdd
<1>3. QueueInv'
    <2>1. \A e \in Dispatchers, b \in Calls : Holds(e, b)' <=> Holds(e, b)
        BY DEF Holds, EnqueueAdd
    <2>2. /\ ivr[c].at = "add" /\ ivr'[c].at = "register" /\ ivr'[c].group = ivr[c].group
          /\ \A b \in Calls : b # c => ivr'[b] = ivr[b]
          /\ UNCHANGED <<call, active, rung, lost>>
          /\ \A g \in Groups, b \in Calls :
                b \in queue'[g] <=> b \in queue[g] \/ (b = c /\ g = ivr[c].group)
        BY DEF EnqueueAdd, AcdInv, TypeOK, agentVars
    <2>3. UNCHANGED disp /\ \A b \in Calls : ivr[b].group \in Groups
        BY DEF AcdInv, TypeOK, EnqueueAdd
    <2>4. \A b \in Calls : b # c => ivr'[b].group = ivr[b].group /\ ivr'[b].at = ivr[b].at
        BY <2>2
    <2> SUFFICES ASSUME NEW b \in Calls
                 PROVE  /\ \A g \in Groups : b \in queue'[g] => g = ivr'[b].group
                        /\ \A e \in Dispatchers : Holds(e, b)' =>
                              /\ disp'[e].group = ivr'[b].group
                              /\ b \notin queue'[ivr'[b].group]
                              /\ \A f \in Dispatchers : Holds(f, b)' => f = e
                        /\ (ivr'[b].at \in {"check", "add"} \/ b \in rung') =>
                              /\ b \notin queue'[ivr'[b].group]
                              /\ \A e \in Dispatchers : ~Holds(e, b)'
                        /\ ivr'[b].at \in {"check", "add"} => b \notin rung'
                        /\ ivr'[b].at = "queued" => ivr'[b].group \in active'
                        /\ ivr'[b].at \in {"register", "queued"} /\ call'[b] = "ivr" /\ b \notin lost' =>
                              \/ b \in queue'[ivr'[b].group]
                              \/ \E e \in Dispatchers : Holds(e, b)'
        BY DEF QueueInv
    <2>5. CASE b = c
        BY <2>1, <2>2, <2>3, <2>5 DEF AcdInv, QueueInv
    <2>6. CASE b # c
        BY <2>1, <2>2, <2>3, <2>4, <2>6 DEF AcdInv, QueueInv
    <2> QED
        BY <2>5, <2>6
<1>4. AgentInv'
    <2>1. UNCHANGED <<disp, claim, idle, rings, unseen>>
        BY DEF EnqueueAdd, agentVars
    <2>2. \A e \in Dispatchers, a \in Agents :
              /\ Owns(e, a)' <=> Owns(e, a)
              /\ Rung(e, a)' <=> Rung(e, a)
              /\ Wants(e, a)' <=> Wants(e, a)
        BY <2>1 DEF Owns, Rung, Wants
    <2> QED
        BY <2>1, <2>2, AgentsStay DEF AcdInv
<1> QED
    BY <1>1, <1>2, <1>3, <1>4 DEF AcdInv

-----------------------------------------------------------------------------
(* Every step of the system preserves the invariant.                         *)
LEMMA NextAcdInv == AcdInv /\ [Next]_vars => AcdInv'
<1> SUFFICES ASSUME AcdInv, [Next]_vars PROVE AcdInv'
    OBVIOUS
<1>1. CASE \E c \in Calls : EnqueueCheck(c)
    BY <1>1, EnqueueCheckInv
<1>2. CASE \E c \in Calls : EnqueueAdd(c)
    BY <1>2, EnqueueAddInv
<1>3. CASE \E c \in Calls : EnqueueRegister(c)
    BY <1>3, EnqueueRegisterInv
<1>4. CASE \E c \in Calls : EnqueueCheckFails(c)
    BY <1>4, EnqueueCheckFailsInv
<1>5. CASE \E c \in Calls : EnqueueFails(c)
    BY <1>5, EnqueueFailsInv
<1>6. CASE \E c \in Calls : WaitTooLong(c)
    BY <1>6, WaitTooLongInv
<1>7. CASE \E c \in Calls : Hangup(c)
    BY <1>7, HangupInv
<1>8. CASE \E d \in Dispatchers : Tick(d)
    BY <1>8, TickInv
<1>9. CASE \E d \in Dispatchers, g \in Groups : ExpireScan(d, g)
    BY <1>9, ExpireScanInv
<1>10. CASE \E d \in Dispatchers, c \in Calls : ExpireRemove(d, c)
    BY <1>10, ExpireRemoveInv
<1>11. CASE \E d \in Dispatchers : ExpireEnd(d)
    BY <1>11, ExpireEndInv
<1>12. CASE \E d \in Dispatchers : ExpireDone(d)
    BY <1>12, ExpireDoneInv
<1>13. CASE \E d \in Dispatchers : DispatchHead(d)
    BY <1>13, DispatchHeadInv
<1>14. CASE \E d \in Dispatchers : pickAgent(d)
    BY <1>14, PickAgentInv
<1>15. CASE \E d \in Dispatchers : tryClaim(d)
    BY <1>15, TryClaimInv
<1>16. CASE \E d \in Dispatchers : DispatchRemove(d)
    BY <1>16, DispatchRemoveInv
<1>17. CASE \E d \in Dispatchers : RingRead(d)
    BY <1>17, RingReadInv
<1>18. CASE \E d \in Dispatchers : RingWrite(d)
    BY <1>18, RingWriteInv
<1>19. CASE \E d \in Dispatchers : RingPresence(d)
    BY <1>19, RingPresenceInv
<1>20. CASE \E d \in Dispatchers : releaseClaim(d)
    BY <1>20, ReleaseClaimInv
<1>21. CASE \E d \in Dispatchers : Requeue(d)
    BY <1>21, RequeueInv
<1>22. CASE \E d \in Dispatchers : GroupLookupFails(d)
    BY <1>22, GroupLookupFailsInv
<1>23. CASE \E d \in Dispatchers : ExpireSkips(d)
    BY <1>23, ExpireSkipsInv
<1>24. CASE \E d \in Dispatchers : ExpireEndFails(d)
    BY <1>24, ExpireEndFailsInv
<1>25. CASE \E d \in Dispatchers : DispatchFails(d)
    BY <1>25, DispatchFailsInv
<1>26. CASE \E d \in Dispatchers : RingFails(d)
    BY <1>26, RingFailsInv
<1>27. CASE \E d \in Dispatchers : RingPresenceFails(d)
    BY <1>27, RingPresenceFailsInv
<1>28. CASE \E d \in Dispatchers : RequeueFails(d)
    BY <1>28, RequeueFailsInv
<1>29. CASE \E d \in Dispatchers : Restart(d)
    BY <1>29, RestartInv
<1>30. CASE \E a \in Agents : ClaimExpires(a)
    BY <1>30, ClaimExpiresInv
<1>31. CASE \E a \in Agents : BecomeIdle(a)
    BY <1>31, BecomeIdleInv
<1>32. CASE \E a \in Agents : LeaveIdle(a)
    BY <1>32, LeaveIdleInv
<1>33. CASE \E c \in Calls, a \in Agents : AnswerQueued(c, a)
    BY <1>33, AnswerQueuedInv
<1>34. CASE UNCHANGED vars
    BY <1>34 DEF vars, queueVars, agentVars, AcdInv, TypeOK, ShapeOK, Shape, QueueInv, Holds,
                  AgentInv, Owns, Rung, Wants
<1> QED
    BY <1>1, <1>2, <1>3, <1>4, <1>5, <1>6, <1>7, <1>8, <1>9, <1>10, <1>11,
       <1>12, <1>13, <1>14, <1>15, <1>16, <1>17, <1>18, <1>19, <1>20, <1>21,
       <1>22, <1>23, <1>24, <1>25, <1>26, <1>27, <1>28, <1>29, <1>30, <1>31,
       <1>32, <1>33, <1>34
    DEF Next, Enqueue, Dispatch, DispatcherFails

(* The inductive invariant holds in every reachable state.                   *)
THEOREM AcdInvariant == Spec => []AcdInv
<1>1. Init => AcdInv
    BY InitAcdInv
<1>2. AcdInv /\ [Next]_vars => AcdInv'
    BY NextAcdInv
<1> QED
    BY <1>1, <1>2, PTL DEF Spec

(* Every variable keeps its type; in particular Enqueue follows the chain of *)
(* overflow groups only along groups that are configured.                    *)
THEOREM TypeCorrect == Spec => []TypeOK
<1>1. AcdInv => TypeOK
    BY DEF AcdInv
<1> QED
    BY <1>1, AcdInvariant, PTL

(* A call that is queued or taken is in one place, however many instances    *)
(* dispatch and expire the queues.                                           *)
THEOREM CallHeldOnce == Spec => []HeldOnce
<1>1. AcdInv => HeldOnce
    <2> SUFFICES ASSUME AcdInv, NEW c \in Calls
                 PROVE  /\ \A d, e \in Dispatchers : Holds(d, c) /\ Holds(e, c) => d = e
                        /\ \A g, h \in Groups : c \in queue[g] /\ c \in queue[h] => g = h
                        /\ \A d \in Dispatchers, g \in Groups : ~(Holds(d, c) /\ c \in queue[g])
        BY DEF HeldOnce
    <2> QED
        BY DEF AcdInv, QueueInv
<1> QED
    BY <1>1, AcdInvariant, PTL

(* A call that a dispatcher has put through can no longer be timed out or be *)
(* put through again by any dispatcher, whoever answers or ends it besides.  *)
THEOREM PutThroughOnce == Spec => []ServedNotQueued
<1>1. AcdInv => ServedNotQueued
    <2> SUFFICES ASSUME AcdInv, NEW c \in rung
                 PROVE  /\ \A g \in Groups : c \notin queue[g]
                        /\ \A d \in Dispatchers : ~Holds(d, c)
        BY DEF ServedNotQueued
    <2>1. c \in Calls /\ \A g \in Groups : c \in queue[g] => g = ivr[c].group
        BY DEF AcdInv, TypeOK, QueueInv
    <2> QED
        BY <2>1 DEF AcdInv, QueueInv
<1> QED
    BY <1>1, AcdInvariant, PTL

(* Any number of instances give an idle agent one call between them.         *)
THEOREM OneCallPerIdleAgent == Spec => []OneCallPerIdle
<1>1. AcdInv => OneCallPerIdle
    BY DEF AcdInv, AgentInv, OneCallPerIdle
<1> QED
    BY <1>1, AcdInvariant, PTL

(* No interleaving of the instances loses a call that waits for an agent.    *)
THEOREM NoCallIsForgotten == Spec => []NoCallForgotten
<1>1. AcdInv => NoCallForgotten
    <2> SUFFICES ASSUME AcdInv, NEW c \in Calls, ivr[c].at = "queued",
                        call[c] = "ivr", c \notin lost
                 PROVE  \/ \E g \in active : c \in queue[g]
                        \/ \E d \in Dispatchers : Holds(d, c)
        BY DEF NoCallForgotten
    <2> QED
        BY DEF AcdInv, QueueInv
<1> QED
    BY <1>1, AcdInvariant, PTL
=============================================================================
