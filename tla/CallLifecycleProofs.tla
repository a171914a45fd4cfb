------------------------ MODULE CallLifecycleProofs ------------------------
(***************************************************************************)
(* Proofs about CallLifecycle, for any number of calls, goroutines,        *)
(* processes with a listener, agents and faults. A stored row is           *)
(* consistent because every row that is about to be stored is: the         *)
(* invariant ranges over the snapshots that the goroutines carry between   *)
(* their read and their write. For that it has to know that a row, once    *)
(* inserted, never disappears, and that a listener answers only on behalf  *)
(* of an agent. Then: an end is final once no older copy of the row is in  *)
(* anybody's hands, and the counter of the concurrency guard is accounted  *)
(* for, unit by unit, whatever ends twice or was never counted.            *)
(***************************************************************************)
EXTENDS CallLifecycle, FiniteSetTheorems, TLAPS

InHand == {"create", "write", "hangup", "recording", "durations", "release"}
OnRow == {"read", "write", "hangup", "recording", "durations", "release"}

SessionOK(w) ==
    /\ ConsistentRow(sess[w].snap)
    /\ sess[w].at # "idle" => sess[w].call \in Calls
    /\ sess[w].at \in InHand => sess[w].snap.status # "absent"
    /\ sess[w].at \in OnRow => row[sess[w].call].status # "absent"
    /\ sess[w].at = "read" =>
        /\ sess[w].op \in {"answer", "bridge", "queue", "end"}
        /\ sess[w].op = "answer" => sess[w].agent # None

SessionsOK == \A w \in Workers : SessionOK(w)

HooksOK == \A c \in Calls : hooks[c] > 0 => row[c].status # "absent"

(* The inductive invariant behind RowConsistent: the snapshots that requests, *)
(* hooks and the listener are about to store are consistent as well.          *)
RowInv == TypeOK /\ RowConsistent /\ SessionsOK /\ HooksOK

-----------------------------------------------------------------------------
(* No row at all counts as consistent, and is recognised by its status.      *)
LEMMA NoRowOK == NoRow \in Row /\ ConsistentRow(NoRow) /\ NoRow.status = "absent"
BY DEF NoRow, NewRow, Row, ConsistentRow, AllKinds, Status, Talking

(* What an operation of CallService writes is consistent if what it has read *)
(* was, for each of the fifteen operations.                                  *)
LEMMA WritesConsistent ==
    ASSUME NEW op \in AllOps, NEW r \in Row, NEW a \in Agents \cup {None},
           ConsistentRow(r), r.status # "absent",
           op \in {"answer", "ring"} => a # None,
           NEW n \in Writes(op, r, a)
    PROVE  n \in Row /\ ConsistentRow(n) /\ n.status # "absent"
<1>1. CASE op = "end"
    <2>1. n \in EndCall(r)
        BY <1>1 DEF Writes
    <2>2. n = [kind |-> r.kind, uuid |-> r.uuid, status |-> "completed", agent |-> r.agent,
               group |-> r.group, answered |-> r.answered, ended |-> 1] /\ r.status # "completed"
        BY <2>1 DEF EndCall, When, Row
    <2> QED
        BY <2>2, <1>1 DEF Row, ConsistentRow, Talking, Status, NoRow, NewRow
<1>2. CASE op = "queue"
    <2>1. n \in TransitionToQueue(r)
        BY <1>2 DEF Writes
    <2>2. n = [kind |-> r.kind, uuid |-> r.uuid, status |-> "queue", agent |-> r.agent,
               group |-> 1, answered |-> r.answered, ended |-> r.ended] /\ r.status # "completed"
        BY <2>1 DEF TransitionToQueue, When, Row
    <2> QED
        BY <2>2, <1>2 DEF Row, ConsistentRow, Talking, Status, NoRow, NewRow
<1>3. CASE op = "ring"
    <2>1. n \in TransitionToRinging(r, a)
        BY <1>3 DEF Writes
    <2>2. n = [kind |-> r.kind, uuid |-> r.uuid, status |-> "ringing", agent |-> a,
               group |-> r.group, answered |-> r.answered, ended |-> r.ended] /\ r.status # "completed"
        BY <2>1 DEF TransitionToRinging, When, Row
    <2> QED
        BY <2>2, <1>3 DEF Row, ConsistentRow, Talking, Status, NoRow, NewRow
<1>4. CASE op = "bridge"
    <2>1. n \in TransitionToActive(r)
        BY <1>4 DEF Writes
    <2>2. n = [kind |-> r.kind, uuid |-> r.uuid, status |-> "active", agent |-> r.agent,
               group |-> r.group, answered |-> 1, ended |-> r.ended] /\ r.status # "completed"
        BY <2>1 DEF TransitionToActive, When, Row
    <2> QED
        BY <2>2, <1>4 DEF Row, ConsistentRow, Talking, Status, NoRow, NewRow
<1>5. CASE op = "answer"
    <2>1. n \in AnswerCall(r, a)
        BY <1>5 DEF Writes
    <2>2. n = [kind |-> r.kind, uuid |-> r.uuid, status |-> "active", agent |-> a,
               group |-> r.group, answered |-> 1, ended |-> r.ended] /\ r.status # "completed"
        BY <2>1 DEF AnswerCall, When, Row
    <2> QED
        BY <2>2, <1>5 DEF Row, ConsistentRow, Talking, Status, NoRow, NewRow
<1>6. CASE op = "hold"
    BY <1>6, NoRowOK DEF Writes, HoldCall, When, Row, ConsistentRow, Talking, Status, NoRow, NewRow
<1>7. CASE op = "retrieve"
    BY <1>7, NoRowOK DEF Writes, RetrieveCall, When, Row, ConsistentRow, Talking, Status, NoRow, NewRow
<1>8. CASE op = "transfer"
    BY <1>8, NoRowOK DEF Writes, BlindTransfer, When, Row, ConsistentRow, Talking, Status, NoRow, NewRow
<1>9. CASE op = "attended"
    BY <1>9, NoRowOK DEF Writes, AttendedTransfer, When, Row, ConsistentRow, Talking, Status, NoRow, NewRow
<1>10. CASE op = "consult"
    BY <1>10, NoRowOK DEF Writes, InitiateConsult, When, Row, ConsistentRow, Talking, Status, NoRow, NewRow
<1>11. CASE op = "consultDone"
    BY <1>11, NoRowOK DEF Writes, CompleteConsultTransfer, When, Row, ConsistentRow, Talking, Status, NoRow, NewRow
<1>12. CASE op = "consultCancel"
    BY <1>12, NoRowOK DEF Writes, CancelConsult, When, Row, ConsistentRow, Talking, Status, NoRow, NewRow
<1>13. CASE op = "conference"
    BY <1>13, NoRowOK DEF Writes, StartConference, When, Row, ConsistentRow, Talking, Status, NoRow, NewRow
<1>14. CASE op = "disposition"
    BY <1>14, NoRowOK DEF Writes, SetDisposition, When, Row, ConsistentRow, Talking, Status, NoRow, NewRow
<1>15. CASE op = "customer"
    BY <1>15, NoRowOK DEF Writes, UpdateCustomerID, When, Row, ConsistentRow, Talking, Status, NoRow, NewRow
<1> QED
    BY <1>1, <1>2, <1>3, <1>4, <1>5, <1>6, <1>7, <1>8, <1>9, <1>10, <1>11, <1>12, <1>13, <1>14, <1>15 DEF AllOps

(* The row of a newly created call is consistent.                            *)
LEMMA NewRowConsistent ==
    ASSUME NEW kind \in AllKinds, NEW uuid \in {"none", "exact", "prefixed"},
           NEW status \in Status, NEW a \in Agents \cup {None},
           \/ status = "ivr" /\ kind = "inbound"
           \/ status = "ringing" /\ a # None
           \/ status = "active" /\ kind = "monitor" /\ a # None
    PROVE  /\ NewRow(kind, uuid, status, a) \in Row
           /\ ConsistentRow(NewRow(kind, uuid, status, a))
           /\ NewRow(kind, uuid, status, a).status # "absent"
BY DEF NewRow, Row, ConsistentRow, Talking, NoRow, AllKinds, Status

LEMMA InitRowInv == Init => RowInv
<1> SUFFICES ASSUME Init PROVE RowInv
    OBVIOUS
<1>1. TypeOK
    BY NoRowOK, CallAssumption DEF Init, TypeOK, Idle, Places
<1>2. RowConsistent
    BY NoRowOK DEF Init, RowConsistent
<1>3. SessionsOK
    BY NoRowOK DEF Init, SessionsOK, SessionOK, Idle, InHand, OnRow
<1>4. HooksOK
    BY DEF Init, HooksOK
<1> QED
    BY <1>1, <1>2, <1>3, <1>4 DEF RowInv

(***************************************************************************)
(* The three ways in which a goroutine's state changes, and the one in     *)
(* which a row does, each with what it preserves.                          *)
(***************************************************************************)

SessType == [Workers -> [at : Places, op : AllOps \cup AllKinds \cup {"none", "save"},
                         call : Calls \cup {None}, agent : Agents \cup {None}, snap : Row]]

(* A goroutine takes up new work.                                            *)
LEMMA WorkOK ==
    ASSUME RowInv, NEW w \in Workers, NEW place \in Places \ {"idle"},
           NEW op \in AllOps \cup AllKinds \cup {"save"}, NEW c \in Calls,
           NEW a \in Agents \cup {None}, NEW n \in Row, ConsistentRow(n),
           place \in InHand => n.status # "absent",
           place \in OnRow => row[c].status # "absent",
           place = "read" => /\ op \in {"answer", "bridge", "queue", "end"}
                             /\ op = "answer" => a # None,
           Work(w, place, op, c, a, n), row' = row
    PROVE  sess' \in SessType /\ SessionsOK' /\ RowConsistent'
<1> DEFINE x == [at |-> place, op |-> op, call |-> c, agent |-> a, snap |-> n]
<1>1. sess \in SessType /\ SessionsOK /\ RowConsistent
    BY DEF RowInv, TypeOK, SessType
<1>2. sess' \in SessType
    BY <1>1 DEF Work, SessType
<1>3. ASSUME NEW v \in Workers PROVE SessionOK(v)'
    <2>1. CASE v = w
        <3>1. sess'[v] = x
            BY <2>1, <1>1 DEF Work, SessType
        <3> QED
            BY <3>1 DEF SessionOK, ConsistentRow
    <2>2. CASE v # w
        <3>1. sess'[v] = sess[v]
            BY <2>2, <1>1 DEF Work, SessType
        <3>2. SessionOK(v)
            BY <1>1 DEF SessionsOK
        <3> QED
            BY <3>1, <3>2 DEF SessionOK, ConsistentRow
    <2> QED
        BY <2>1, <2>2
<1>4. RowConsistent'
    BY <1>1 DEF RowConsistent, ConsistentRow
<1> QED
    BY <1>2, <1>3, <1>4 DEF SessionsOK

(* A goroutine moves on, or finishes, and the row of its call becomes its    *)
(* snapshot or stays.                                                        *)
LEMMA StepOK ==
    ASSUME RowInv, NEW w \in Workers, sess[w].at # "idle",
           \/ WriteRow(w) /\ sess[w].at \in InHand
           \/ row' = row,
           \/ Finish(w)
           \/ \E place \in {"hangup", "recording", "durations", "release"} :
                GoTo(w, place) /\ sess[w].at \in InHand \cap OnRow
    PROVE  /\ row' \in [Calls -> Row]
           /\ sess' \in SessType
           /\ SessionsOK' /\ RowConsistent'
           /\ \A c \in Calls : row[c].status # "absent" => row'[c].status # "absent"
<1>1. sess \in SessType /\ SessionsOK /\ RowConsistent /\ row \in [Calls -> Row]
    BY DEF RowInv, TypeOK, SessType
<1>2. SessionOK(w) /\ sess[w].snap \in Row /\ sess[w].call \in Calls
    BY <1>1 DEF SessionsOK, SessionOK, SessType
<1>3. row' \in [Calls -> Row]
    BY <1>1, <1>2 DEF WriteRow
<1>4. \A c \in Calls : row'[c] = row[c] \/ (row'[c] = sess[w].snap /\ sess[w].at \in InHand)
    BY <1>1, <1>2 DEF WriteRow
<1>5. \A c \in Calls : row[c].status # "absent" => row'[c].status # "absent"
    BY <1>4, <1>2 DEF SessionOK
<1>6. RowConsistent'
    BY <1>4, <1>1, <1>2 DEF RowConsistent, SessionOK, ConsistentRow
<1>7. \/ sess' = [sess EXCEPT ![w] = Idle]
      \/ \E place \in {"hangup", "recording", "durations", "release"} :
            /\ sess' = [sess EXCEPT ![w].at = place]
            /\ sess[w].at \in InHand \cap OnRow
    BY DEF Finish, GoTo
<1>8. sess' \in SessType
    BY <1>7, <1>1, NoRowOK DEF SessType, Idle, Places
<1>9. ASSUME NEW v \in Workers PROVE SessionOK(v)'
    <2>1. CASE v # w
        <3>1. sess'[v] = sess[v]
            BY <1>7, <1>1, <2>1 DEF SessType
        <3>2. SessionOK(v)
            BY <1>1 DEF SessionsOK
        <3> QED
            BY <3>1, <3>2, <1>5 DEF SessionOK, ConsistentRow, InHand, OnRow
    <2>2. CASE v = w /\ sess'[w] = Idle
        BY <2>2, NoRowOK DEF SessionOK, Idle, InHand, OnRow, ConsistentRow
    <2>3. CASE v = w /\ sess'[w] # Idle
        <3>1. PICK place \in {"hangup", "recording", "durations", "release"} :
                /\ sess' = [sess EXCEPT ![w].at = place]
                /\ sess[w].at \in InHand \cap OnRow
            BY <1>7, <1>1, <2>3 DEF SessType
        <3>2. /\ sess'[w].at = place
              /\ sess'[w].snap = sess[w].snap
              /\ sess'[w].call = sess[w].call
            BY <3>1, <1>1 DEF SessType
        <3> QED
            BY <3>1, <3>2, <2>3, <1>2, <1>5 DEF SessionOK, ConsistentRow, InHand, OnRow
    <2> QED
        BY <2>1, <2>2, <2>3
<1> QED
    BY <1>3, <1>5, <1>6, <1>8, <1>9 DEF SessionsOK

(* What FreeSWITCH publishes arrives in every queue.                         *)
LEMMA Published ==
    ASSUME TypeOK, NEW news \in Seq(Calls \X EslNames), Publish(news)
    PROVE  events' \in [Listeners -> Seq(Calls \X EslNames)]
<1>1. \A l \in Listeners : events[l] \o news \in Seq(Calls \X EslNames)
    BY DEF TypeOK
<1> QED
    BY <1>1 DEF Publish

(* FreeSWITCH's variables keep their type.                                   *)
LEMMA FsType ==
    ASSUME TypeOK, NEW c \in Calls,
           NewChannel(c) \/ KillChannel(c) \/ UNCHANGED fsVars
    PROVE  /\ channel' \in [Calls -> {"none", "up", "down"}]
           /\ reported' \subseteq Calls \X FsEvents
           /\ events' \in [Listeners -> Seq(Calls \X EslNames)]
<1>1. HangupEvents(c) \in Seq(Calls \X EslNames)
    BY DEF HangupEvents, EslNames
<1>2. CASE NewChannel(c) \/ UNCHANGED fsVars
    BY <1>2 DEF TypeOK, NewChannel, fsVars
<1>3. CASE KillChannel(c)
    <2>1. channel' = [channel EXCEPT ![c] = "down"] /\ reported' = reported
          /\ Publish(HangupEvents(c))
        BY <1>3 DEF KillChannel
    <2>2. events' \in [Listeners -> Seq(Calls \X EslNames)]
        BY <1>1, <2>1, Published
    <2> QED
        BY <2>1, <2>2 DEF TypeOK
<1> QED
    BY <1>2, <1>3

(* Every step preserves the invariant.                                       *)
LEMMA NextRowInv == RowInv /\ [Next]_vars => RowInv'
<1> SUFFICES ASSUME RowInv, [Next]_vars PROVE RowInv'
    OBVIOUS
<1>0. TypeOK /\ RowConsistent /\ SessionsOK /\ HooksOK
    BY DEF RowInv
<1>w. \A s \in Sessions : s \in Workers
    BY DEF Workers
<1>1. ASSUME NEW s \in Sessions, NEW c \in Calls, HandleInboundCall(s, c) PROVE RowInv'
    <2>1. /\ NewRow("inbound", "exact", "ivr", None) \in Row
          /\ ConsistentRow(NewRow("inbound", "exact", "ivr", None))
          /\ NewRow("inbound", "exact", "ivr", None).status # "absent"
        BY NewRowConsistent, CallAssumption DEF AllKinds, Status
    <2>2. sess' \in SessType /\ SessionsOK' /\ RowConsistent'
        BY <1>1, <2>1, <1>w, WorkOK, CallAssumption DEF HandleInboundCall, AllKinds, Places, InHand, OnRow, Faulty
    <2>3. /\ channel' \in [Calls -> {"none", "up", "down"}]
          /\ reported' \subseteq Calls \X FsEvents
          /\ events' \in [Listeners -> Seq(Calls \X EslNames)]
        BY <1>1, <1>0, FsType DEF HandleInboundCall
    <2> QED
        BY <1>1, <2>2, <2>3, <1>0, CallAssumption DEF HandleInboundCall, RowInv, TypeOK, SessType, HooksOK, Faulty
<1>2. ASSUME NEW s \in Sessions, NEW c \in Calls, AcquireFailsOpen(s, c) PROVE RowInv'
    <2>1. /\ NewRow("inbound", "exact", "ivr", None) \in Row
          /\ ConsistentRow(NewRow("inbound", "exact", "ivr", None))
          /\ NewRow("inbound", "exact", "ivr", None).status # "absent"
        BY NewRowConsistent, CallAssumption DEF AllKinds, Status
    <2>2. sess' \in SessType /\ SessionsOK' /\ RowConsistent'
        BY <1>2, <2>1, <1>w, WorkOK, CallAssumption DEF AcquireFailsOpen, AllKinds, Places, InHand, OnRow, Faulty
    <2>3. /\ channel' \in [Calls -> {"none", "up", "down"}]
          /\ reported' \subseteq Calls \X FsEvents
          /\ events' \in [Listeners -> Seq(Calls \X EslNames)]
        BY <1>2, <1>0, FsType DEF AcquireFailsOpen
    <2> QED
        BY <1>2, <2>2, <2>3, <1>0, CallAssumption DEF AcquireFailsOpen, RowInv, TypeOK, SessType, HooksOK, Faulty
<1>3. ASSUME NEW s \in Sessions, NEW c \in Calls, NEW a \in Agents, CreateOutboundCall(s, c, a) PROVE RowInv'
    <2>1. /\ NewRow("outbound", OriginateReply, "ringing", a) \in Row
          /\ ConsistentRow(NewRow("outbound", OriginateReply, "ringing", a))
          /\ NewRow("outbound", OriginateReply, "ringing", a).status # "absent"
        BY NewRowConsistent, CallAssumption DEF AllKinds, Status
    <2>2. sess' \in SessType /\ SessionsOK' /\ RowConsistent'
        BY <1>3, <2>1, <1>w, WorkOK, CallAssumption DEF CreateOutboundCall, AllKinds, Places, InHand, OnRow, Faulty
    <2>3. /\ channel' \in [Calls -> {"none", "up", "down"}]
          /\ reported' \subseteq Calls \X FsEvents
          /\ events' \in [Listeners -> Seq(Calls \X EslNames)]
        BY <1>3, <1>0, FsType DEF CreateOutboundCall
    <2> QED
        BY <1>3, <2>2, <2>3, <1>0, CallAssumption DEF CreateOutboundCall, RowInv, TypeOK, SessType, HooksOK, Faulty
<1>4. ASSUME NEW s \in Sessions, NEW c \in Calls, NEW a \in Agents, CreateInternalCall(s, c, a) PROVE RowInv'
    <2>1. /\ NewRow("internal", "none", "ringing", a) \in Row
          /\ ConsistentRow(NewRow("internal", "none", "ringing", a))
          /\ NewRow("internal", "none", "ringing", a).status # "absent"
        BY NewRowConsistent, CallAssumption DEF AllKinds, Status
    <2>2. sess' \in SessType /\ SessionsOK' /\ RowConsistent'
        BY <1>4, <2>1, <1>w, WorkOK, CallAssumption DEF CreateInternalCall, AllKinds, Places, InHand, OnRow, Faulty
    <2> QED
        BY <1>4, <2>2, <1>0, CallAssumption DEF CreateInternalCall, RowInv, TypeOK, SessType, HooksOK, fsVars
<1>5. ASSUME NEW s \in Sessions, NEW c \in Calls, NEW t \in Calls, NEW a \in Agents, NEW S,
             Supervise(s, c, t, a, S) PROVE RowInv'
    <2> DEFINE u == IF row[t].uuid = "none" THEN "none" ELSE OriginateReply
    <2>1. /\ NewRow("monitor", u, "active", a) \in Row
          /\ ConsistentRow(NewRow("monitor", u, "active", a))
          /\ NewRow("monitor", u, "active", a).status # "absent"
        BY NewRowConsistent, CallAssumption DEF AllKinds, Status
    <2>2. sess' \in SessType /\ SessionsOK' /\ RowConsistent'
        BY <1>5, <2>1, <1>w, WorkOK, CallAssumption DEF Supervise, AllKinds, Places, InHand, OnRow
    <2>3. /\ channel' \in [Calls -> {"none", "up", "down"}]
          /\ reported' \subseteq Calls \X FsEvents
          /\ events' \in [Listeners -> Seq(Calls \X EslNames)]
        BY <1>5, <1>0, FsType DEF Supervise
    <2> QED
        BY <1>5, <2>2, <2>3, <1>0, CallAssumption DEF Supervise, RowInv, TypeOK, SessType, HooksOK
<1>6. ASSUME NEW w \in Workers, RejectInbound(w) PROVE RowInv'
    <2>0. sess[w].call \in Calls /\ sess[w].at # "idle"
        BY <1>6, <1>0 DEF RejectInbound, SessionsOK, SessionOK
    <2>1. /\ row' \in [Calls -> Row]
          /\ sess' \in SessType
          /\ SessionsOK' /\ RowConsistent'
          /\ \A c \in Calls : row[c].status # "absent" => row'[c].status # "absent"
        BY <1>6, StepOK DEF RejectInbound, InHand, OnRow
    <2> QED
        BY <1>6, <2>0, <2>1, <1>0, CallAssumption DEF RejectInbound, RowInv, TypeOK, SessType, HooksOK, fsVars, Faulty
<1>7. ASSUME NEW w \in Workers, CreateRow(w) PROVE RowInv'
    <2>0. sess[w].call \in Calls /\ sess[w].at # "idle"
        BY <1>7, <1>0 DEF CreateRow, SessionsOK, SessionOK
    <2>1. /\ row' \in [Calls -> Row]
          /\ sess' \in SessType
          /\ SessionsOK' /\ RowConsistent'
          /\ \A c \in Calls : row[c].status # "absent" => row'[c].status # "absent"
        BY <1>7, StepOK DEF CreateRow, InHand, OnRow
    <2> QED
        BY <1>7, <2>0, <2>1, <1>0, CallAssumption DEF CreateRow, RowInv, TypeOK, SessType, HooksOK, fsVars, Faulty
<1>8. ASSUME NEW w \in Workers, CreateFails(w) PROVE RowInv'
    <2>0. sess[w].call \in Calls /\ sess[w].at # "idle"
        BY <1>8, <1>0 DEF CreateFails, SessionsOK, SessionOK
    <2>1. /\ row' \in [Calls -> Row]
          /\ sess' \in SessType
          /\ SessionsOK' /\ RowConsistent'
          /\ \A c \in Calls : row[c].status # "absent" => row'[c].status # "absent"
        BY <1>8, StepOK DEF CreateFails, InHand, OnRow
    <2>2. /\ channel' \in [Calls -> {"none", "up", "down"}]
          /\ reported' \subseteq Calls \X FsEvents
          /\ events' \in [Listeners -> Seq(Calls \X EslNames)]
        BY <1>8, <2>0, <1>0, FsType DEF CreateFails, KillIfUp
    <2> QED
        BY <1>8, <2>1, <2>2, <1>0, CallAssumption DEF CreateFails, RowInv, TypeOK, SessType, HooksOK, Faulty
<1>9. ASSUME NEW w \in Workers, Save(w) PROVE RowInv'
    <2>0. sess[w].call \in Calls /\ sess[w].at # "idle"
        BY <1>9, <1>0 DEF Save, SessionsOK, SessionOK
    <2>1. /\ row' \in [Calls -> Row]
          /\ sess' \in SessType
          /\ SessionsOK' /\ RowConsistent'
          /\ \A c \in Calls : row[c].status # "absent" => row'[c].status # "absent"
        BY <1>9, StepOK DEF Save, InHand, OnRow
    <2>2. ends' \in [Calls -> Nat]
        <3>1. ends' = ends \/ ends' = [ends EXCEPT ![sess[w].call] = ends[sess[w].call] + 1]
            BY <1>9 DEF Save
        <3>2. ends \in [Calls -> Nat] /\ ends[sess[w].call] + 1 \in Nat
            BY <2>0, <1>0 DEF TypeOK
        <3> QED
            BY <3>1, <3>2
    <2> QED
        BY <1>9, <2>0, <2>1, <2>2, <1>0 DEF Save, RowInv, TypeOK, SessType, HooksOK, fsVars
<1>10. ASSUME NEW w \in Workers, SaveFails(w) PROVE RowInv'
    <2>0. sess[w].call \in Calls /\ sess[w].at # "idle"
        BY <1>10, <1>0 DEF SaveFails, SessionsOK, SessionOK
    <2>1. /\ row' \in [Calls -> Row]
          /\ sess' \in SessType
          /\ SessionsOK' /\ RowConsistent'
          /\ \A c \in Calls : row[c].status # "absent" => row'[c].status # "absent"
        BY <1>10, StepOK DEF SaveFails, InHand, OnRow
    <2> QED
        BY <1>10, <2>0, <2>1, <1>0, CallAssumption DEF SaveFails, RowInv, TypeOK, SessType, HooksOK, fsVars, Faulty
<1>11. ASSUME NEW w \in Workers, HangupChannel(w) PROVE RowInv'
    <2>0. sess[w].call \in Calls /\ sess[w].at # "idle"
        BY <1>11, <1>0 DEF HangupChannel, SessionsOK, SessionOK
    <2>1. /\ row' \in [Calls -> Row]
          /\ sess' \in SessType
          /\ SessionsOK' /\ RowConsistent'
          /\ \A c \in Calls : row[c].status # "absent" => row'[c].status # "absent"
        BY <1>11, StepOK DEF HangupChannel, InHand, OnRow
    <2>2. /\ channel' \in [Calls -> {"none", "up", "down"}]
          /\ reported' \subseteq Calls \X FsEvents
          /\ events' \in [Listeners -> Seq(Calls \X EslNames)]
        BY <1>11, <2>0, <1>0, FsType DEF HangupChannel, KillIfUp
    <2> QED
        BY <1>11, <2>1, <2>2, <1>0, CallAssumption DEF HangupChannel, RowInv, TypeOK, SessType, HooksOK, Faulty
<1>12. ASSUME NEW w \in Workers, SaveRecording(w) PROVE RowInv'
    <2>0. sess[w].call \in Calls /\ sess[w].at # "idle"
        BY <1>12, <1>0 DEF SaveRecording, SessionsOK, SessionOK
    <2>1. /\ row' \in [Calls -> Row]
          /\ sess' \in SessType
          /\ SessionsOK' /\ RowConsistent'
          /\ \A c \in Calls : row[c].status # "absent" => row'[c].status # "absent"
        BY <1>12, StepOK DEF SaveRecording, InHand, OnRow
    <2> QED
        BY <1>12, <2>0, <2>1, <1>0, CallAssumption DEF SaveRecording, RowInv, TypeOK, SessType, HooksOK, fsVars, Faulty
<1>13. ASSUME NEW w \in Workers, SaveDurations(w) PROVE RowInv'
    <2>0. sess[w].call \in Calls /\ sess[w].at # "idle"
        BY <1>13, <1>0 DEF SaveDurations, SessionsOK, SessionOK
    <2>1. /\ row' \in [Calls -> Row]
          /\ sess' \in SessType
          /\ SessionsOK' /\ RowConsistent'
          /\ \A c \in Calls : row[c].status # "absent" => row'[c].status # "absent"
        BY <1>13, StepOK DEF SaveDurations, InHand, OnRow
    <2> QED
        BY <1>13, <2>0, <2>1, <1>0, CallAssumption DEF SaveDurations, RowInv, TypeOK, SessType, HooksOK, fsVars, Faulty
<1>14. ASSUME NEW w \in Workers, RewriteFails(w) PROVE RowInv'
    <2>0. sess[w].call \in Calls /\ sess[w].at # "idle"
        BY <1>14, <1>0 DEF RewriteFails, SessionsOK, SessionOK
    <2>1. /\ row' \in [Calls -> Row]
          /\ sess' \in SessType
          /\ SessionsOK' /\ RowConsistent'
          /\ \A c \in Calls : row[c].status # "absent" => row'[c].status # "absent"
        BY <1>14, StepOK DEF RewriteFails, InHand, OnRow
    <2> QED
        BY <1>14, <2>0, <2>1, <1>0, CallAssumption DEF RewriteFails, RowInv, TypeOK, SessType, HooksOK, fsVars, Faulty
<1>15. ASSUME NEW w \in Workers, ReleaseSlot(w) PROVE RowInv'
    <2>0. sess[w].call \in Calls /\ sess[w].at # "idle"
        BY <1>15, <1>0 DEF ReleaseSlot, SessionsOK, SessionOK
    <2>1. /\ row' \in [Calls -> Row]
          /\ sess' \in SessType
          /\ SessionsOK' /\ RowConsistent'
          /\ \A c \in Calls : row[c].status # "absent" => row'[c].status # "absent"
        BY <1>15, StepOK DEF ReleaseSlot, InHand, OnRow
    <2>2. row[sess[w].call].status # "absent"
        BY <1>15, <1>0 DEF ReleaseSlot, SessionsOK, SessionOK, OnRow
    <2> QED
        BY <1>15, <2>0, <2>1, <2>2, <1>0 DEF ReleaseSlot, RowInv, TypeOK, SessType, HooksOK, fsVars
<1>16. ASSUME NEW s \in Sessions, NEW c \in Calls, NEW a \in Agents, NEW op \in RequestOps,
             Request(s, op, c, a) PROVE RowInv'
    <2>1. PICK n \in Writes(op, row[c], a) : ToWrite(s, op, c, n)
        BY <1>16 DEF Request
    <2>2. row[c].status # "absent" /\ row[c] \in Row /\ ConsistentRow(row[c])
        BY <1>16, <1>0 DEF Request, RowConsistent, ConsistentRow, TypeOK
    <2>3. n \in Row /\ ConsistentRow(n) /\ n.status # "absent"
        BY <2>2, WritesConsistent, CallAssumption
    <2>4. sess' \in SessType /\ SessionsOK' /\ RowConsistent'
        BY <1>16, <2>1, <2>2, <2>3, <1>w, WorkOK DEF Request, ToWrite, AllOps, Places, InHand, OnRow
    <2> QED
        BY <1>16, <2>4, <1>0 DEF Request, RowInv, TypeOK, SessType, HooksOK, fsVars
<1>17. ASSUME NEW s \in Sessions, NEW c \in Calls, PostCallHooks(s, c) PROVE RowInv'
    <2>1. PICK n \in Writes("customer", row[c], None) : ToWrite(s, "customer", c, n)
        BY <1>17 DEF PostCallHooks
    <2>2. row[c].status # "absent" /\ row[c] \in Row /\ ConsistentRow(row[c])
        BY <1>17, <1>0 DEF PostCallHooks, RowConsistent, HooksOK, TypeOK
    <2>3. n \in Row /\ ConsistentRow(n) /\ n.status # "absent"
        BY <2>2, WritesConsistent DEF AllOps
    <2>4. sess' \in SessType /\ SessionsOK' /\ RowConsistent'
        BY <1>17, <2>1, <2>2, <2>3, <1>w, WorkOK DEF PostCallHooks, ToWrite, AllOps, Places, InHand, OnRow
    <2> QED
        BY <1>17, <2>4, <1>0 DEF PostCallHooks, RowInv, TypeOK, SessType, HooksOK, fsVars
<1>18. ASSUME NEW l \in Listeners, HandleESLEvent(l) PROVE RowInv'
    <2> DEFINE c == Head(events[l])[1]
               op == IF row[c].uuid = "exact" THEN OpOf(Head(events[l])[2], row[c]) ELSE "none"
    <2>0. l \in Workers
        BY DEF Workers
    <2>1. Head(events[l]) \in Calls \X EslNames /\ Tail(events[l]) \in Seq(Calls \X EslNames) /\ c \in Calls
        BY <1>18, <1>0 DEF HandleESLEvent, TypeOK
    <2>2. row[c] \in Row /\ ConsistentRow(row[c])
        BY <2>1, <1>0 DEF TypeOK, RowConsistent
    <2>3. CASE op = "none"
        <3>1. UNCHANGED <<row, sess, channel, reported, slots, ends, hooks, faults>> /\ events' = [events EXCEPT ![l] = Tail(events[l])]
            BY <2>3, <1>18 DEF HandleESLEvent
        <3> QED
            BY <3>1, <2>1, <1>0 DEF RowInv, TypeOK, SessionsOK, SessionOK, RowConsistent, HooksOK, ConsistentRow
    <2>4. CASE op # "none"
        <3>1. row[c].uuid = "exact"
            BY <2>4
        <3>2. row[c].status # "absent"
            BY <3>1, <2>2 DEF ConsistentRow, NoRow, NewRow
        <3>3. op \in {"answer", "bridge", "queue", "end"} /\ (op = "answer" => row[c].agent # None)
            BY <2>4, <3>1 DEF OpOf
        <3>4. Work(l, "read", op, c, row[c].agent, NoRow) /\ row' = row
            BY <2>4, <1>18 DEF HandleESLEvent
        <3>5. row[c].agent \in Agents \cup {None}
            BY <2>2 DEF Row
        <3>6. sess' \in SessType /\ SessionsOK' /\ RowConsistent'
            BY <3>2, <3>3, <3>4, <3>5, <2>0, <2>1, NoRowOK, WorkOK DEF AllOps, Places, InHand, OnRow
        <3> QED
            BY <1>18, <3>6, <2>1, <1>0 DEF HandleESLEvent, RowInv, TypeOK, SessType, HooksOK
    <2> QED
        BY <2>3, <2>4
<1>19. ASSUME NEW l \in Listeners, ListenerRead(l) PROVE RowInv'
    <2> DEFINE c == sess[l].call
               op == sess[l].op
               a == sess[l].agent
    <2>0. l \in Workers
        BY DEF Workers
    <2>1. /\ c \in Calls /\ row[c].status # "absent" /\ sess[l].at = "read"
          /\ op \in {"answer", "bridge", "queue", "end"}
          /\ op = "answer" => a # None
          /\ a \in Agents \cup {None}
        BY <1>19, <2>0, <1>0 DEF ListenerRead, SessionsOK, SessionOK, OnRow, TypeOK
    <2>2. row[c] \in Row /\ ConsistentRow(row[c])
        BY <2>1, <1>0 DEF TypeOK, RowConsistent
    <2>3. CASE Writes(op, row[c], a) = {}
        <3>1. Finish(l) /\ row' = row
            BY <2>3, <1>19 DEF ListenerRead
        <3>2. sess' \in SessType /\ SessionsOK' /\ RowConsistent'
            BY <3>1, <2>0, <2>1, StepOK
        <3> QED
            BY <1>19, <3>2, <1>0 DEF ListenerRead, RowInv, TypeOK, SessType, HooksOK, fsVars
    <2>4. CASE Writes(op, row[c], a) # {}
        <3>1. PICK n \in Writes(op, row[c], a) : ToWrite(l, op, c, n)
            BY <2>4, <1>19 DEF ListenerRead
        <3>2. n \in Row /\ ConsistentRow(n) /\ n.status # "absent"
            BY <2>1, <2>2, WritesConsistent DEF AllOps
        <3>3. sess' \in SessType /\ SessionsOK' /\ RowConsistent'
            BY <1>19, <3>1, <3>2, <2>0, <2>1, WorkOK DEF ListenerRead, ToWrite, AllOps, Places, InHand, OnRow
        <3> QED
            BY <1>19, <3>3, <1>0 DEF ListenerRead, RowInv, TypeOK, SessType, HooksOK, fsVars
    <2> QED
        BY <2>3, <2>4
<1>20. ASSUME NEW l \in Listeners, ListenerDisconnect(l) PROVE RowInv'
    <2>1. UNCHANGED <<row, sess, hooks>>
        BY <1>20 DEF ListenerDisconnect
    <2>2. RowConsistent' /\ SessionsOK' /\ HooksOK'
        BY <2>1, <1>0 DEF RowConsistent, SessionsOK, SessionOK, HooksOK, ConsistentRow
    <2>3. TypeOK'
        BY <1>20, <1>0, CallAssumption DEF ListenerDisconnect, TypeOK, Faulty
    <2> QED
        BY <2>2, <2>3 DEF RowInv
<1>21. ASSUME NEW c \in Calls, NEW e \in FsEvents, FsReport(c, e) PROVE RowInv'
    <2>1. UNCHANGED <<row, sess, hooks>>
        BY <1>21 DEF FsReport
    <2>2. RowConsistent' /\ SessionsOK' /\ HooksOK'
        BY <2>1, <1>0 DEF RowConsistent, SessionsOK, SessionOK, HooksOK, ConsistentRow
    <2>3. TypeOK'
        <3>1. <<c, e>> \in Calls \X EslNames
            BY CallAssumption DEF EslNames
        <3>2. <<<<c, e>>>> \in Seq(Calls \X EslNames)
            BY <3>1
        <3>3. events' \in [Listeners -> Seq(Calls \X EslNames)]
            BY <3>2, <1>21, <1>0, Published DEF FsReport
        <3> QED
            BY <3>3, <1>21, <1>0 DEF FsReport, TypeOK
    <2> QED
        BY <2>2, <2>3 DEF RowInv
<1>22. ASSUME NEW c \in Calls, FsHangup(c) PROVE RowInv'
    <2>1. UNCHANGED <<row, sess, hooks>>
        BY <1>22 DEF FsHangup
    <2>2. RowConsistent' /\ SessionsOK' /\ HooksOK'
        BY <2>1, <1>0 DEF RowConsistent, SessionsOK, SessionOK, HooksOK, ConsistentRow
    <2>3. TypeOK'
        BY <1>22, <1>0, FsType DEF FsHangup, TypeOK
    <2> QED
        BY <2>2, <2>3 DEF RowInv
<1>23. CASE UNCHANGED vars
    BY <1>23, <1>0 DEF vars, RowInv, TypeOK, RowConsistent, SessionsOK, SessionOK, HooksOK, ConsistentRow
<1>24. CASE \E w \in Workers : Continue(w) \/ StepFails(w)
    BY <1>24, <1>6, <1>7, <1>8, <1>9, <1>10, <1>11, <1>12, <1>13, <1>14, <1>15 DEF Continue, StepFails
<1> QED
    BY <1>1, <1>2, <1>3, <1>4, <1>5, <1>16, <1>17, <1>18, <1>19, <1>20, <1>21, <1>22, <1>23, <1>24 DEF Next, MonitorCall, CoachCall

-----------------------------------------------------------------------------
(* RowInv holds in every reachable state.                                    *)
THEOREM RowInvariant == Spec => []RowInv
<1>1. Init => RowInv
    BY InitRowInv
<1>2. RowInv /\ [Next]_vars => RowInv'
    BY NextRowInv
<1> QED
    BY <1>1, <1>2, PTL DEF Spec

(* Whatever requests, hooks, events, failures and lost connections do, every *)
(* row of table calls is consistent: completed and ended_at go together, a   *)
(* conversation has been answered, a ringing call has an agent, a queued one *)
(* a skill group.                                                            *)
THEOREM RowsConsistent == Spec => []RowConsistent
<1>1. RowInv => RowConsistent
    BY DEF RowInv
<1> QED
    BY <1>1, RowInvariant, PTL

(* The state of calls, goroutines, FreeSWITCH and counter keeps its type.    *)
THEOREM CallTypeCorrect == Spec => []TypeOK
<1>1. RowInv => TypeOK
    BY DEF RowInv
<1> QED
    BY <1>1, RowInvariant, PTL

-----------------------------------------------------------------------------
(***************************************************************************)
(* Ends. EndCall refuses a completed row, and every other operation leaves *)
(* it completed: only a goroutine that has read the row before its end can *)
(* reopen the call or end it again, and Settled says that there is none.   *)
(* What is needed besides: a goroutine that rewrites the row after its     *)
(* EndCall carries a completed row, and one that inserts a row is alone.   *)
(***************************************************************************)
Rewriting == {"hangup", "recording", "durations", "release"}

WorkerOK(w) ==
    /\ w \in Listeners => sess[w].at \notin {"create", "reject"}
    /\ sess[w].at = "create" => /\ row[sess[w].call].status = "absent"
                                /\ sess[w].op = sess[w].snap.kind
    /\ sess[w].at \in {"write"} \cup Rewriting => sess[w].snap.kind = row[sess[w].call].kind
    /\ sess[w].at \in Rewriting => sess[w].snap.status = "completed"
    /\ sess[w].at = "write" /\ sess[w].op = "end" => sess[w].snap.status = "completed"

WorkersOK == \A w \in Workers : WorkerOK(w)

CreatorsApart ==
    \A v, w \in Workers :
        v # w /\ sess[v].at = "create" /\ sess[w].at = "create" => sess[v].call # sess[w].call

NoEndBefore == \A c \in Calls : row[c].status = "absent" => ends[c] = 0

EndInv == WorkersOK /\ CreatorsApart /\ NoEndBefore

(* What an operation writes has the kind of what it has read; a completed    *)
(* row stays completed, and is not ended once more.                          *)
LEMMA WritesKeep ==
    ASSUME NEW op \in AllOps, NEW r \in Row, NEW a \in Agents \cup {None},
           NEW n \in Writes(op, r, a)
    PROVE  /\ n.kind = r.kind
           /\ op = "end" => n.status = "completed"
           /\ r.status = "completed" => n.status = "completed" /\ op # "end"
<1>1. CASE op = "end"
    BY <1>1 DEF Writes, EndCall, When, Row
<1>2. CASE op = "queue"
    BY <1>2 DEF Writes, TransitionToQueue, When, Row
<1>3. CASE op = "ring"
    BY <1>3 DEF Writes, TransitionToRinging, When, Row
<1>4. CASE op = "bridge"
    BY <1>4 DEF Writes, TransitionToActive, When, Row
<1>5. CASE op = "answer"
    BY <1>5 DEF Writes, AnswerCall, When, Row
<1>6. CASE op = "hold"
    BY <1>6 DEF Writes, HoldCall, When, Row
<1>7. CASE op = "retrieve"
    BY <1>7 DEF Writes, RetrieveCall, When, Row
<1>8. CASE op = "transfer"
    BY <1>8 DEF Writes, BlindTransfer, When, Row
<1>9. CASE op = "attended"
    BY <1>9 DEF Writes, AttendedTransfer, When, Row
<1>10. CASE op = "consult"
    BY <1>10 DEF Writes, InitiateConsult, When, Row
<1>11. CASE op = "consultDone"
    BY <1>11 DEF Writes, CompleteConsultTransfer, When, Row
<1>12. CASE op = "consultCancel"
    BY <1>12 DEF Writes, CancelConsult, When, Row
<1>13. CASE op = "conference"
    BY <1>13 DEF Writes, StartConference, When, Row
<1>14. CASE op = "disposition"
    BY <1>14 DEF Writes, SetDisposition, Row
<1>15. CASE op = "customer"
    BY <1>15 DEF Writes, UpdateCustomerID, Row
<1> QED
    BY <1>1, <1>2, <1>3, <1>4, <1>5, <1>6, <1>7, <1>8, <1>9, <1>10, <1>11, <1>12, <1>13, <1>14, <1>15 DEF AllOps

LEMMA InitEnds == Init => EndInv
BY DEF Init, EndInv, WorkersOK, WorkerOK, CreatorsApart, NoEndBefore, Idle, Rewriting

(* How one worker's part of the state changes.                               *)
LEMMA Works ==
    ASSUME RowInv, NEW w \in Workers, NEW place, NEW op, NEW c, NEW a, NEW n,
           Work(w, place, op, c, a, n)
    PROVE  /\ sess'[w] = [at |-> place, op |-> op, call |-> c, agent |-> a, snap |-> n]
           /\ \A v \in Workers \ {w} : sess'[v] = sess[v]
BY DEF RowInv, TypeOK, Work

LEMMA Finishes ==
    ASSUME RowInv, NEW w \in Workers, Finish(w)
    PROVE  sess'[w] = Idle /\ \A v \in Workers \ {w} : sess'[v] = sess[v]
BY DEF RowInv, TypeOK, Finish

LEMMA GoesOn ==
    ASSUME RowInv, NEW w \in Workers, NEW place, GoTo(w, place)
    PROVE  /\ sess'[w] = [sess[w] EXCEPT !.at = place]
           /\ \A v \in Workers \ {w} : sess'[v] = sess[v]
BY DEF RowInv, TypeOK, GoTo

(* A step that changes what worker w does and no row.                        *)
LEMMA Resumes ==
    ASSUME EndInv, NEW w \in Workers, row' = row, ends' = ends,
           \A v \in Workers \ {w} : sess'[v] = sess[v],
           WorkerOK(w)',
           sess'[w].at = "create" =>
               \A v \in Workers \ {w} : sess[v].at = "create" => sess[v].call # sess'[w].call
    PROVE  EndInv'
<1>1. ASSUME NEW v \in Workers PROVE WorkerOK(v)'
    BY DEF EndInv, WorkersOK, WorkerOK
<1>2. CreatorsApart'
    BY DEF EndInv, CreatorsApart
<1>3. NoEndBefore'
    BY DEF EndInv, NoEndBefore
<1> QED
    BY <1>1, <1>2, <1>3 DEF EndInv, WorkersOK

(* A step in which worker w may store its row: an existing one.              *)
LEMMA Rewrites ==
    ASSUME RowInv, EndInv, NEW w \in Workers, sess[w].at \in {"write"} \cup Rewriting,
           row' = row \/ WriteRow(w),
           ends' = ends \/ ends' = [ends EXCEPT ![sess[w].call] = @ + 1],
           \A v \in Workers \ {w} : sess'[v] = sess[v],
           \/ sess'[w] = Idle
           \/ \E place \in Rewriting : sess'[w] = [sess[w] EXCEPT !.at = place],
           sess'[w] # Idle => sess[w].snap.status = "completed"
    PROVE  EndInv'
<1> DEFINE c == sess[w].call
<1>1. /\ c \in Calls /\ row[c].status # "absent" /\ sess[w].snap.status # "absent"
      /\ row \in [Calls -> Row] /\ ends \in [Calls -> Nat] /\ sess \in SessType
    BY DEF RowInv, TypeOK, SessType, SessionsOK, SessionOK, OnRow, InHand, Rewriting
<1>2. WorkerOK(w) /\ sess[w].snap.kind = row[c].kind
    BY DEF EndInv, WorkersOK, WorkerOK
<1>3. \A d \in Calls : /\ row'[d].kind = row[d].kind
                       /\ row[d].status = "absent" <=> row'[d].status = "absent"
                       /\ row[d].status = "absent" => ends'[d] = ends[d]
    BY <1>1, <1>2 DEF WriteRow
<1>4. ASSUME NEW v \in Workers, v # w PROVE WorkerOK(v)'
    <2>1. sess'[v] = sess[v] /\ WorkerOK(v) /\ SessionOK(v)
        BY <1>4 DEF EndInv, WorkersOK, RowInv, SessionsOK
    <2> QED
        BY <2>1, <1>3 DEF WorkerOK, SessionOK, Rewriting
<1>5. WorkerOK(w)'
    <2>1. CASE sess'[w] = Idle
        BY <2>1 DEF WorkerOK, Idle, Rewriting
    <2>2. CASE sess'[w] # Idle
        <3>1. PICK place \in Rewriting : sess'[w] = [sess[w] EXCEPT !.at = place]
            BY <2>2
        <3>2. /\ sess'[w].at = place /\ sess'[w].call = c /\ sess'[w].snap = sess[w].snap
            BY <3>1, <1>1 DEF SessType
        <3> QED
            BY <3>2, <2>2, <1>1, <1>2, <1>3 DEF WorkerOK, Rewriting
    <2> QED
        BY <2>1, <2>2
<1>6. sess'[w].at # "create"
    BY <1>1 DEF Idle, Rewriting, SessType
<1>7. CreatorsApart'
    BY <1>6 DEF EndInv, CreatorsApart
<1>8. NoEndBefore'
    BY <1>3 DEF EndInv, NoEndBefore
<1> QED
    BY <1>4, <1>5, <1>7, <1>8 DEF EndInv, WorkersOK

(* A session begins to create a call: it alone has it in hand.               *)
LEMMA Enters ==
    ASSUME RowInv, EndInv, NEW s \in Sessions, NEW c \in Calls, Fresh(c),
           NEW place \in {"create", "reject"}, NEW kind, NEW uuid, NEW status, NEW a,
           Work(s, place, kind, c, a, NewRow(kind, uuid, status, a)), row' = row, ends' = ends
    PROVE  EndInv'
<1>1. s \in Workers /\ s \notin Listeners
    BY CallAssumption DEF Workers
<1>2. /\ sess'[s] = [at |-> place, op |-> kind, call |-> c, agent |-> a,
                     snap |-> NewRow(kind, uuid, status, a)]
      /\ \A v \in Workers \ {s} : sess'[v] = sess[v]
    BY <1>1, Works
<1>3. row[c].status = "absent"
    BY NoRowOK DEF Fresh
<1>4. WorkerOK(s)'
    BY <1>1, <1>2, <1>3 DEF WorkerOK, NewRow, Rewriting
<1>5. \A v \in Workers \ {s} : sess[v].at = "create" => sess[v].call # c
    BY DEF Fresh, EndInv, WorkersOK, WorkerOK, Workers
<1> QED
    BY <1>1, <1>2, <1>4, <1>5, Resumes

(* A goroutine decides what to write on the row it reads.                    *)
LEMMA Decides ==
    ASSUME RowInv, EndInv, NEW w \in Workers, NEW c \in Calls, NEW op \in AllOps,
           NEW a \in Agents \cup {None}, NEW n \in Writes(op, row[c], a),
           ToWrite(w, op, c, n), row' = row, ends' = ends
    PROVE  EndInv'
<1>1. row[c] \in Row
    BY DEF RowInv, TypeOK
<1>2. n.kind = row[c].kind /\ (op = "end" => n.status = "completed")
    BY <1>1, WritesKeep
<1>3. /\ sess'[w] = [at |-> "write", op |-> IF op = "end" THEN "end" ELSE "save", call |-> c,
                     agent |-> None, snap |-> n]
      /\ \A v \in Workers \ {w} : sess'[v] = sess[v]
    BY Works DEF ToWrite
<1>4. WorkerOK(w)' /\ sess'[w].at # "create"
    BY <1>2, <1>3 DEF WorkerOK, Rewriting
<1> QED
    BY <1>3, <1>4, Resumes

(* A goroutine is done, and leaves the rows alone.                           *)
LEMMA Leaves ==
    ASSUME RowInv, EndInv, NEW w \in Workers, Finish(w), row' = row, ends' = ends
    PROVE  EndInv'
<1>1. sess'[w] = Idle /\ \A v \in Workers \ {w} : sess'[v] = sess[v]
    BY Finishes
<1>2. WorkerOK(w)' /\ sess'[w].at # "create"
    BY <1>1 DEF WorkerOK, Idle, Rewriting
<1> QED
    BY <1>1, <1>2, Resumes

(* An INSERT: nobody else has the call in hand.                              *)
LEMMA Inserts ==
    ASSUME RowInv, EndInv, NEW w \in Workers, CreateRow(w)
    PROVE  EndInv'
<1> DEFINE c == sess[w].call
<1>1. /\ sess[w].at = "create" /\ WriteRow(w) /\ ends' = ends /\ c \in Calls
      /\ row \in [Calls -> Row] /\ sess[w].snap.status # "absent"
    BY DEF CreateRow, RowInv, TypeOK, SessionsOK, SessionOK, InHand
<1>2. sess'[w] = Idle /\ \A v \in Workers \ {w} : sess'[v] = sess[v]
    BY Finishes DEF CreateRow
<1>3. row'[c] = sess[w].snap /\ \A d \in Calls \ {c} : row'[d] = row[d]
    BY <1>1 DEF WriteRow
<1>4. row[c].status = "absent"
    BY <1>1 DEF EndInv, WorkersOK, WorkerOK
<1>5. ASSUME NEW v \in Workers, v # w PROVE WorkerOK(v)'
    <2>1. sess'[v] = sess[v] /\ WorkerOK(v) /\ SessionOK(v)
        BY <1>2, <1>5 DEF EndInv, WorkersOK, RowInv, SessionsOK
    <2>2. sess[v].at = "create" => sess[v].call # c
        BY <1>1, <1>5 DEF EndInv, CreatorsApart
    <2>3. sess[v].at \in {"write"} \cup Rewriting => sess[v].call # c
        BY <2>1, <1>4 DEF SessionOK, OnRow, Rewriting
    <2>4. sess[v].at # "idle" => sess[v].call \in Calls
        BY <2>1 DEF SessionOK
    <2>5. sess[v].at \in {"create", "write"} \cup Rewriting => row'[sess[v].call] = row[sess[v].call]
        BY <2>2, <2>3, <2>4, <1>3 DEF Rewriting
    <2> QED
        BY <2>1, <2>5 DEF WorkerOK
<1>6. WorkerOK(w)'
    BY <1>2 DEF WorkerOK, Idle, Rewriting
<1>7. CreatorsApart'
    BY <1>2 DEF EndInv, CreatorsApart, Idle
<1>8. NoEndBefore'
    BY <1>1, <1>3 DEF EndInv, NoEndBefore
<1> QED
    BY <1>5, <1>6, <1>7, <1>8 DEF EndInv, WorkersOK

LEMMA NextEnds == RowInv /\ EndInv /\ [Next]_vars => EndInv'
<1> SUFFICES ASSUME RowInv, EndInv, [Next]_vars PROVE EndInv'
    OBVIOUS
<1>w. \A s \in Sessions : s \in Workers
    BY DEF Workers
<1>1. ASSUME NEW s \in Sessions, NEW c \in Calls, HandleInboundCall(s, c) PROVE EndInv'
    <2>1. PICK place \in {"create", "reject"} :
            Work(s, place, "inbound", c, None, NewRow("inbound", "exact", "ivr", None))
        BY <1>1 DEF HandleInboundCall
    <2> QED
        BY <1>1, <2>1, Enters DEF HandleInboundCall
<1>2. ASSUME NEW s \in Sessions, NEW c \in Calls, AcquireFailsOpen(s, c) PROVE EndInv'
    BY <1>2, Enters DEF AcquireFailsOpen
<1>3. ASSUME NEW s \in Sessions, NEW c \in Calls, NEW a \in Agents, CreateOutboundCall(s, c, a)
      PROVE  EndInv'
    BY <1>3, Enters DEF CreateOutboundCall
<1>4. ASSUME NEW s \in Sessions, NEW c \in Calls, NEW a \in Agents, CreateInternalCall(s, c, a)
      PROVE  EndInv'
    BY <1>4, Enters DEF CreateInternalCall
<1>5. ASSUME NEW s \in Sessions, NEW c \in Calls, NEW t \in Calls, NEW a \in Agents, NEW S,
             Supervise(s, c, t, a, S)
      PROVE  EndInv'
    BY <1>5, Enters DEF Supervise
<1>6. ASSUME NEW w \in Workers, RejectInbound(w) \/ CreateFails(w) \/ SaveFails(w) \/ ReleaseSlot(w)
      PROVE  EndInv'
    BY <1>6, Leaves DEF RejectInbound, CreateFails, SaveFails, ReleaseSlot
<1>7. ASSUME NEW w \in Workers, CreateRow(w) PROVE EndInv'
    BY <1>7, Inserts
<1>8. ASSUME NEW w \in Workers, Save(w) PROVE EndInv'
    <2>1. sess[w].op = "end" => sess[w].snap.status = "completed"
        BY <1>8 DEF Save, EndInv, WorkersOK, WorkerOK
    <2>2. CASE sess[w].op = "end"
        BY <1>8, <2>1, <2>2, GoesOn, Rewrites DEF Save, Rewriting
    <2>3. CASE sess[w].op # "end"
        BY <1>8, <2>3, Finishes, Rewrites DEF Save
    <2> QED
        BY <2>2, <2>3
<1>9. ASSUME NEW w \in Workers,
             HangupChannel(w) \/ SaveRecording(w) \/ SaveDurations(w) \/ RewriteFails(w)
      PROVE  EndInv'
    <2>1. /\ sess[w].at \in Rewriting /\ (row' = row \/ WriteRow(w)) /\ ends' = ends
          /\ \E place \in Rewriting : GoTo(w, place)
        BY <1>9 DEF HangupChannel, SaveRecording, SaveDurations, RewriteFails, Rewriting
    <2>2. sess[w].snap.status = "completed"
        BY <2>1 DEF EndInv, WorkersOK, WorkerOK
    <2> QED
        BY <2>1, <2>2, GoesOn, Rewrites
<1>10. ASSUME NEW s \in Sessions, NEW c \in Calls, NEW a \in Agents, NEW op \in RequestOps,
              Request(s, op, c, a)
       PROVE  EndInv'
    BY <1>10, <1>w, Decides, CallAssumption DEF Request
<1>11. ASSUME NEW s \in Sessions, NEW c \in Calls, PostCallHooks(s, c) PROVE EndInv'
    BY <1>11, <1>w, Decides DEF PostCallHooks, AllOps
<1>12. ASSUME NEW l \in Listeners, HandleESLEvent(l) PROVE EndInv'
    <2>0. l \in Workers
        BY DEF Workers
    <2>1. CASE sess' = sess
        BY <1>12, <2>1 DEF HandleESLEvent, EndInv, WorkersOK, WorkerOK, CreatorsApart, NoEndBefore
    <2>2. CASE sess' # sess
        <3>1. PICK op, c, a : Work(l, "read", op, c, a, NoRow)
            BY <1>12, <2>2 DEF HandleESLEvent
        <3>2. /\ sess'[l] = [at |-> "read", op |-> op, call |-> c, agent |-> a, snap |-> NoRow]
              /\ \A v \in Workers \ {l} : sess'[v] = sess[v]
            BY <3>1, <2>0, Works
        <3>3. WorkerOK(l)' /\ sess'[l].at # "create"
            BY <3>2 DEF WorkerOK, Rewriting
        <3> QED
            BY <1>12, <3>2, <3>3, <2>0, Resumes DEF HandleESLEvent
    <2> QED
        BY <2>1, <2>2
<1>13. ASSUME NEW l \in Listeners, ListenerRead(l) PROVE EndInv'
    <2> DEFINE c == sess[l].call
               op == sess[l].op
               a == sess[l].agent
    <2>1. /\ l \in Workers /\ c \in Calls /\ a \in Agents \cup {None}
          /\ op \in {"answer", "bridge", "queue", "end"}
        BY <1>13 DEF ListenerRead, RowInv, TypeOK, SessionsOK, SessionOK, Workers
    <2>2. CASE Finish(l)
        BY <1>13, <2>1, <2>2, Leaves DEF ListenerRead
    <2>3. CASE ~Finish(l)
        <3>1. PICK n \in Writes(op, row[c], a) : ToWrite(l, op, c, n)
            BY <1>13, <2>3 DEF ListenerRead
        <3> QED
            BY <1>13, <3>1, <2>1, Decides DEF ListenerRead, AllOps
    <2> QED
        BY <2>2, <2>3
<1>14. CASE UNCHANGED <<row, sess, ends>>
    BY <1>14 DEF EndInv, WorkersOK, WorkerOK, CreatorsApart, NoEndBefore
<1> QED
    BY <1>1, <1>2, <1>3, <1>4, <1>5, <1>6, <1>7, <1>8, <1>9, <1>10, <1>11, <1>12, <1>13, <1>14
       DEF Next, MonitorCall, CoachCall, Continue, StepFails, ListenerDisconnect, FsReport, FsHangup, vars

THEOREM EndInvariant == Spec => [](RowInv /\ EndInv)
<1>1. Init => RowInv /\ EndInv
    BY InitRowInv, InitEnds
<1>2. (RowInv /\ EndInv) /\ [Next]_vars => (RowInv /\ EndInv)'
    BY NextRowInv, NextEnds
<1> QED
    BY <1>1, <1>2, PTL DEF Spec

(* A step of worker w leaves a settled call settled if the row stays         *)
(* completed and w does not take up an old copy of it.                       *)
LEMMA StaysSettled ==
    ASSUME NEW c \in Calls, Settled(c), NEW w \in Workers,
           \A v \in Workers \ {w} : sess'[v] = sess[v],
           row'[c].status = "completed",
           sess'[w].at = "write" /\ sess'[w].call = c =>
               sess'[w].op # "end" /\ sess'[w].snap.status = "completed"
    PROVE  Settled(c)'
BY DEF Settled

(* A copy that is taken of a settled row is a completed one.                 *)
LEMMA DecidesOnSettled ==
    ASSUME RowInv, NEW c \in Calls, Settled(c), NEW w \in Workers, NEW d \in Calls,
           NEW op \in AllOps, NEW a \in Agents \cup {None}, NEW n \in Writes(op, row[d], a),
           ToWrite(w, op, d, n), row' = row
    PROVE  Settled(c)'
<1>1. row[d] \in Row
    BY DEF RowInv, TypeOK
<1>2. row[d].status = "completed" => n.status = "completed" /\ op # "end"
    BY <1>1, WritesKeep
<1>3. /\ sess'[w] = [at |-> "write", op |-> IF op = "end" THEN "end" ELSE "save", call |-> d,
                     agent |-> None, snap |-> n]
      /\ \A v \in Workers \ {w} : sess'[v] = sess[v]
    BY Works DEF ToWrite
<1>4. row'[c].status = "completed"
    BY DEF Settled
<1>5. d = c => op # "end" /\ n.status = "completed"
    BY <1>2 DEF Settled
<1> QED
    BY <1>3, <1>4, <1>5, StaysSettled

LEMMA NextSettled ==
    ASSUME RowInv, EndInv, [Next]_vars, NEW c \in Calls, Settled(c)
    PROVE  Settled(c)' /\ ends'[c] = ends[c]
<1> DEFINE Goal == Settled(c)' /\ ends'[c] = ends[c]
<1>w. \A s \in Sessions : s \in Workers
    BY DEF Workers
<1>0. row[c].status = "completed" /\ row \in [Calls -> Row] /\ ends \in [Calls -> Nat]
    BY DEF Settled, RowInv, TypeOK
<1>1. ASSUME NEW s \in Sessions, NEW place \in {"create", "reject"}, NEW kind, NEW d, NEW a, NEW n,
             Work(s, place, kind, d, a, n), row' = row, ends' = ends
      PROVE  Goal
    <2>1. /\ sess'[s] = [at |-> place, op |-> kind, call |-> d, agent |-> a, snap |-> n]
          /\ \A v \in Workers \ {s} : sess'[v] = sess[v]
        BY <1>1, <1>w, Works
    <2>2. sess'[s].at # "write"
        BY <2>1
    <2> QED
        BY <1>0, <1>1, <1>w, <2>1, <2>2, StaysSettled
<1>2. ASSUME NEW w \in Workers, RejectInbound(w) \/ CreateFails(w) \/ SaveFails(w) \/ ReleaseSlot(w)
      PROVE  Goal
    <2>1. sess'[w] = Idle /\ \A v \in Workers \ {w} : sess'[v] = sess[v]
        BY <1>2, Finishes DEF RejectInbound, CreateFails, SaveFails, ReleaseSlot
    <2>2. row' = row /\ ends' = ends
        BY <1>2 DEF RejectInbound, CreateFails, SaveFails, ReleaseSlot
    <2> QED
        BY <1>0, <2>1, <2>2, StaysSettled DEF Idle
<1>3. ASSUME NEW w \in Workers, CreateRow(w) PROVE Goal
    <2>1. sess'[w] = Idle /\ \A v \in Workers \ {w} : sess'[v] = sess[v]
        BY <1>3, Finishes DEF CreateRow
    <2>2. sess[w].call # c
        BY <1>3, <1>0 DEF CreateRow, EndInv, WorkersOK, WorkerOK
    <2>3. row'[c] = row[c] /\ ends' = ends
        BY <1>3, <2>2, <1>0 DEF CreateRow, WriteRow
    <2> QED
        BY <1>0, <2>1, <2>3, StaysSettled DEF Idle
<1>4. ASSUME NEW w \in Workers, Save(w) PROVE Goal
    <2>1. sess[w].at = "write" /\ WriteRow(w)
        BY <1>4 DEF Save
    <2>2. sess[w].call = c => sess[w].op # "end" /\ sess[w].snap.status = "completed"
        BY <2>1 DEF Settled
    <2>3. row'[c].status = "completed"
        BY <2>1, <2>2, <1>0 DEF WriteRow
    <2>4. ends'[c] = ends[c]
        BY <1>4, <2>2, <1>0 DEF Save
    <2>5. /\ \A v \in Workers \ {w} : sess'[v] = sess[v]
          /\ sess'[w].at # "write"
        <3>0. sess \in SessType
            BY DEF RowInv, TypeOK, SessType
        <3>1. CASE GoTo(w, "hangup")
            <4>1. /\ sess'[w] = [sess[w] EXCEPT !.at = "hangup"]
                  /\ \A v \in Workers \ {w} : sess'[v] = sess[v]
                BY <3>1, GoesOn
            <4> QED
                BY <4>1, <3>0 DEF SessType
        <3>2. CASE Finish(w)
            BY <3>2, Finishes DEF Idle
        <3> QED
            BY <1>4, <3>1, <3>2 DEF Save
    <2> QED
        BY <2>3, <2>4, <2>5, StaysSettled
<1>5. ASSUME NEW w \in Workers,
             HangupChannel(w) \/ SaveRecording(w) \/ SaveDurations(w) \/ RewriteFails(w)
      PROVE  Goal
    <2>1. /\ sess[w].at \in Rewriting /\ (row' = row \/ WriteRow(w)) /\ ends' = ends
          /\ \E place \in Rewriting : GoTo(w, place)
        BY <1>5 DEF HangupChannel, SaveRecording, SaveDurations, RewriteFails, Rewriting
    <2>2. sess[w].snap.status = "completed"
        BY <2>1 DEF EndInv, WorkersOK, WorkerOK
    <2>3. row'[c].status = "completed"
        BY <2>1, <2>2, <1>0 DEF WriteRow
    <2>4. sess'[w].at # "write" /\ \A v \in Workers \ {w} : sess'[v] = sess[v]
        <3>0. sess \in SessType
            BY DEF RowInv, TypeOK, SessType
        <3>1. PICK place \in Rewriting : GoTo(w, place)
            BY <2>1
        <3>2. /\ sess'[w] = [sess[w] EXCEPT !.at = place]
              /\ \A v \in Workers \ {w} : sess'[v] = sess[v]
            BY <3>1, GoesOn
        <3> QED
            BY <3>0, <3>2 DEF SessType, Rewriting
    <2> QED
        BY <2>1, <2>3, <2>4, StaysSettled
<1>6. ASSUME NEW s \in Sessions, NEW d \in Calls, NEW a \in Agents, NEW op \in RequestOps,
             Request(s, op, d, a)
      PROVE  Goal
    BY <1>6, <1>w, DecidesOnSettled, CallAssumption DEF Request
<1>7. ASSUME NEW s \in Sessions, NEW d \in Calls, PostCallHooks(s, d) PROVE Goal
    BY <1>7, <1>w, DecidesOnSettled DEF PostCallHooks, AllOps
<1>8. ASSUME NEW l \in Listeners, HandleESLEvent(l) PROVE Goal
    <2>0. l \in Workers
        BY DEF Workers
    <2>1. CASE sess' = sess
        BY <1>8, <2>1 DEF HandleESLEvent, Settled
    <2>2. CASE sess' # sess
        <3>1. PICK op, d, a : Work(l, "read", op, d, a, NoRow)
            BY <1>8, <2>2 DEF HandleESLEvent
        <3>2. /\ sess'[l] = [at |-> "read", op |-> op, call |-> d, agent |-> a, snap |-> NoRow]
              /\ \A v \in Workers \ {l} : sess'[v] = sess[v]
            BY <3>1, <2>0, Works
        <3>3. sess'[l].at # "write"
            BY <3>2
        <3> QED
            BY <1>8, <1>0, <3>2, <3>3, <2>0, StaysSettled DEF HandleESLEvent
    <2> QED
        BY <2>1, <2>2
<1>9. ASSUME NEW l \in Listeners, ListenerRead(l) PROVE Goal
    <2> DEFINE d == sess[l].call
               op == sess[l].op
               a == sess[l].agent
    <2>1. /\ l \in Workers /\ d \in Calls /\ a \in Agents \cup {None}
          /\ op \in {"answer", "bridge", "queue", "end"} /\ row' = row /\ ends' = ends
        BY <1>9 DEF ListenerRead, RowInv, TypeOK, SessionsOK, SessionOK, Workers
    <2>2. CASE Finish(l)
        <3>1. sess'[l] = Idle /\ \A v \in Workers \ {l} : sess'[v] = sess[v]
            BY <2>1, <2>2, Finishes
        <3> QED
            BY <2>1, <3>1, <1>0, StaysSettled DEF Idle
    <2>3. CASE ~Finish(l)
        <3>1. PICK n \in Writes(op, row[d], a) : ToWrite(l, op, d, n)
            BY <1>9, <2>3 DEF ListenerRead
        <3> QED
            BY <3>1, <2>1, DecidesOnSettled DEF AllOps
    <2> QED
        BY <2>2, <2>3
<1>10. CASE UNCHANGED <<row, sess, ends>>
    BY <1>10 DEF Settled
<1>11. ASSUME NEW s \in Sessions, NEW d \in Calls, HandleInboundCall(s, d) PROVE Goal
    BY <1>1, <1>11 DEF HandleInboundCall
<1>12. ASSUME NEW s \in Sessions, NEW d \in Calls, AcquireFailsOpen(s, d) PROVE Goal
    BY <1>1, <1>12 DEF AcquireFailsOpen
<1>13. ASSUME NEW s \in Sessions, NEW d \in Calls, NEW a \in Agents,
              CreateOutboundCall(s, d, a) \/ CreateInternalCall(s, d, a)
       PROVE  Goal
    BY <1>1, <1>13 DEF CreateOutboundCall, CreateInternalCall
<1>14. ASSUME NEW s \in Sessions, NEW d \in Calls, NEW t \in Calls, NEW a \in Agents, NEW S,
              Supervise(s, d, t, a, S)
       PROVE  Goal
    BY <1>1, <1>14 DEF Supervise
<1> QED
    BY <1>2, <1>3, <1>4, <1>5, <1>6, <1>7, <1>8, <1>9, <1>10, <1>11, <1>12, <1>13, <1>14
       DEF Next, MonitorCall, CoachCall, Continue, StepFails, ListenerDisconnect, FsReport, FsHangup, vars

(* Once a call is completed and nobody holds a copy of its row that was read *)
(* before, it stays so: no request, hook, failed statement, repeated event   *)
(* or listener of another process reopens it or ends it again.               *)
THEOREM EndIsFinal == Spec => EndedIsFinal
<1>1. (RowInv /\ EndInv) /\ [Next]_vars =>
         [\A c \in Calls : Settled(c) => Settled(c)' /\ ends'[c] = ends[c]]_vars
    BY NextSettled
<1> QED
    BY <1>1, EndInvariant, PTL DEF Spec, EndedIsFinal

-----------------------------------------------------------------------------
(***************************************************************************)
(* The concurrency guard. A unit of the counter stands for an inbound call *)
(* that has not ended, for a refusal under way or for an end under way;    *)
(* what is missing has been taken by the surplus ends, which release what  *)
(* nobody has acquired, or by faults.                                      *)
(***************************************************************************)
Rejecting == {s \in Sessions : sess[s].at = "reject"}
Ending == {w \in Workers : sess[w].at \in Rewriting}
Entering(c) ==
    \E w \in Workers : sess[w].at = "create" /\ sess[w].op = "inbound" /\ sess[w].call = c
NeverEnded == {c \in Calls : Entering(c) \/ (row[c].kind = "inbound" /\ ends[c] = 0)}

SlotInv ==
    /\ IsFiniteSet(SurplusEnds)
    /\ slots <= MaxConcurrent + faults + Cardinality(Rejecting)
    /\ Cardinality(NeverEnded) + Cardinality(Rejecting) + Cardinality(Ending)
          <= slots + Cardinality(SurplusEnds) + faults
    /\ Cardinality(NeverEnded) <= MaxConcurrent + Cardinality(SurplusEnds) + faults

(* How the size of a finite set follows when it shrinks, gains or loses.     *)
LEMMA CardinalitySubset ==
    ASSUME NEW T, IsFiniteSet(T), NEW S, S \subseteq T
    PROVE  /\ IsFiniteSet(S)
           /\ Cardinality(S) \in Nat /\ Cardinality(T) \in Nat
           /\ Cardinality(S) <= Cardinality(T)
BY FS_Subset, FS_CardinalityType

LEMMA CardinalityAdd ==
    ASSUME NEW T, IsFiniteSet(T), NEW x, NEW S, S \subseteq T \cup {x}
    PROVE  /\ IsFiniteSet(S)
           /\ Cardinality(S) \in Nat /\ Cardinality(T) \in Nat
           /\ Cardinality(S) <= Cardinality(T) + 1
<1>0. Cardinality(T) \in Nat
    BY FS_CardinalityType
<1>1. IsFiniteSet(T \cup {x}) /\ Cardinality(T \cup {x}) <= Cardinality(T) + 1
    BY <1>0, FS_AddElement
<1>2. Cardinality(T \cup {x}) \in Nat
    BY <1>1, FS_CardinalityType
<1> QED
    BY <1>1, <1>2, CardinalitySubset, FS_CardinalityType

LEMMA CardinalityRemove ==
    ASSUME NEW T, IsFiniteSet(T), NEW x \in T, NEW S, S \subseteq T \ {x}
    PROVE  /\ IsFiniteSet(S)
           /\ Cardinality(S) \in Nat /\ Cardinality(T) \in Nat
           /\ Cardinality(S) <= Cardinality(T) - 1
<1>1. IsFiniteSet(T \ {x}) /\ Cardinality(T \ {x}) = Cardinality(T) - 1
    BY FS_RemoveElement
<1>2. Cardinality(T \ {x}) \in Nat
    BY <1>1, FS_CardinalityType
<1> QED
    BY <1>1, <1>2, CardinalitySubset, FS_CardinalityType

(* The sets that are counted are finite.                                     *)
LEMMA Finite ==
    /\ IsFiniteSet(Rejecting) /\ IsFiniteSet(Ending) /\ IsFiniteSet(NeverEnded)
    /\ Cardinality(Rejecting) \in Nat /\ Cardinality(Ending) \in Nat
    /\ Cardinality(NeverEnded) \in Nat
<1>1. IsFiniteSet(Workers)
    BY CallAssumption, FS_Union DEF Workers
<1>2. Rejecting \subseteq Sessions /\ Ending \subseteq Workers /\ NeverEnded \subseteq Calls
    BY DEF Rejecting, Ending, NeverEnded
<1> QED
    BY <1>1, <1>2, CallAssumption, FS_Subset, FS_CardinalityType

LEMMA FiniteNext ==
    /\ IsFiniteSet(Rejecting') /\ IsFiniteSet(Ending') /\ IsFiniteSet(NeverEnded')
    /\ Cardinality(Rejecting') \in Nat /\ Cardinality(Ending') \in Nat
    /\ Cardinality(NeverEnded') \in Nat
<1>1. IsFiniteSet(Workers)
    BY CallAssumption, FS_Union DEF Workers
<1>2. Rejecting' \subseteq Sessions /\ Ending' \subseteq Workers /\ NeverEnded' \subseteq Calls
    BY DEF Rejecting, Ending, NeverEnded
<1> QED
    BY <1>1, <1>2, CallAssumption, FS_Subset, FS_CardinalityType

(* The surplus ends of one call.                                             *)
Extra(c) == {<<c, n>> : n \in {i \in 1..ends[c] : i > 1 \/ row[c].kind # "inbound"}}

LEMMA SurplusIsExtra == SurplusEnds = UNION {Extra(c) : c \in Calls}
BY DEF SurplusEnds, Extra

LEMMA SurplusStays ==
    ASSUME RowInv, ends' = ends,
           \A c \in Calls : ends[c] = 0 \/ row'[c].kind = row[c].kind
    PROVE  SurplusEnds' = SurplusEnds
<1>1. ASSUME NEW c \in Calls PROVE Extra(c)' = Extra(c)
    <2>1. CASE ends[c] = 0
        BY <2>1 DEF Extra
    <2>2. CASE row'[c].kind = row[c].kind
        BY <2>2 DEF Extra
    <2> QED
        BY <2>1, <2>2
<1>2. SurplusEnds' = UNION {Extra(c)' : c \in Calls}
    BY DEF SurplusEnds, Extra
<1> QED
    BY <1>1, <1>2, SurplusIsExtra

(* One end more adds at most itself to them, and nothing if it is the first  *)
(* of an inbound call.                                                       *)
LEMMA SurplusGrows ==
    ASSUME RowInv, NEW c \in Calls, ends' = [ends EXCEPT ![c] = @ + 1],
           \A d \in Calls : row'[d].kind = row[d].kind
    PROVE  IF ends[c] = 0 /\ row[c].kind = "inbound"
           THEN SurplusEnds' = SurplusEnds
           ELSE /\ SurplusEnds' = SurplusEnds \cup {<<c, ends[c] + 1>>}
                /\ <<c, ends[c] + 1>> \notin SurplusEnds
<1>0. ends[c] \in Nat /\ ends'[c] = ends[c] + 1 /\ \A d \in Calls \ {c} : ends'[d] = ends[d]
    BY DEF RowInv, TypeOK
<1>1. \A d \in Calls \ {c} : Extra(d)' = Extra(d)
    BY <1>0 DEF Extra
<1>2. SurplusEnds' = UNION {Extra(d)' : d \in Calls}
    BY DEF SurplusEnds, Extra
<1>3. CASE ends[c] = 0 /\ row[c].kind = "inbound"
    <2>1. Extra(c)' = {} /\ Extra(c) = {}
        BY <1>0, <1>3 DEF Extra
    <2> QED
        BY <1>1, <1>2, <1>3, <2>1, SurplusIsExtra
<1>4. CASE ~(ends[c] = 0 /\ row[c].kind = "inbound")
    <2>1. Extra(c)' = Extra(c) \cup {<<c, ends[c] + 1>>}
        <3>1. {i \in 1..ends'[c] : i > 1 \/ row'[c].kind # "inbound"}
                = {i \in 1..ends[c] : i > 1 \/ row[c].kind # "inbound"} \cup {ends[c] + 1}
            BY <1>0, <1>4
        <3> QED
            BY <3>1 DEF Extra
    <2>2. <<c, ends[c] + 1>> \notin Extra(c)
        BY <1>0 DEF Extra
    <2>3. \A d \in Calls \ {c} : <<c, ends[c] + 1>> \notin Extra(d)
        BY DEF Extra
    <2>4. <<c, ends[c] + 1>> \notin SurplusEnds
        BY <2>2, <2>3, SurplusIsExtra
    <2>5. SurplusEnds' = SurplusEnds \cup {<<c, ends[c] + 1>>}
        BY <1>1, <1>2, <2>1, SurplusIsExtra
    <2> QED
        BY <1>4, <2>4, <2>5
<1> QED
    BY <1>3, <1>4

(* If no more is held than before, and the counter stays, the bounds do.     *)
LEMMA NoMoreHeld ==
    ASSUME RowInv, SlotInv, NeverEnded' \subseteq NeverEnded, Rejecting' = Rejecting,
           Ending' \subseteq Ending, SurplusEnds' = SurplusEnds,
           slots' = slots, faults' \in {faults, faults + 1}
    PROVE  SlotInv'
<1>1. faults \in Nat /\ slots \in Int /\ MaxConcurrent \in Nat
    BY CallAssumption DEF RowInv, TypeOK
<1>2. /\ Cardinality(NeverEnded') <= Cardinality(NeverEnded)
      /\ Cardinality(Ending') <= Cardinality(Ending)
      /\ Cardinality(NeverEnded) \in Nat /\ Cardinality(Ending) \in Nat
      /\ Cardinality(NeverEnded') \in Nat /\ Cardinality(Ending') \in Nat
      /\ Cardinality(Rejecting) \in Nat
    BY CardinalitySubset, Finite
<1>3. Cardinality(SurplusEnds) \in Nat
    BY FS_CardinalityType DEF SlotInv
<1> QED
    BY <1>1, <1>2, <1>3 DEF SlotInv

(* A step of one worker that keeps the kinds of the rows and ends no call.   *)
LEMMA OneWorker ==
    ASSUME RowInv, NEW w \in Workers, \A v \in Workers \ {w} : sess'[v] = sess[v],
           \A d \in Calls : row'[d].kind = row[d].kind, ends' = ends
    PROVE  /\ SurplusEnds' = SurplusEnds
           /\ NeverEnded' \subseteq NeverEnded \cup {sess'[w].call}
           /\ sess'[w].at # "create" \/ sess'[w].op # "inbound" => NeverEnded' \subseteq NeverEnded
           /\ Rejecting' \subseteq Rejecting \cup {w}
           /\ sess'[w].at # "reject" => Rejecting' = Rejecting \ {w}
           /\ sess'[w].at \notin Rewriting => Ending' = Ending \ {w}
           /\ sess[w].at \in Rewriting => Ending' \subseteq Ending
<1>1. SurplusEnds' = SurplusEnds
    BY SurplusStays
<1>2. \A d \in Calls : Entering(d)' =>
          Entering(d) \/ (sess'[w].call = d /\ sess'[w].at = "create" /\ sess'[w].op = "inbound")
    BY DEF Entering
<1>3. /\ NeverEnded' \subseteq NeverEnded \cup {sess'[w].call}
      /\ sess'[w].at # "create" \/ sess'[w].op # "inbound" => NeverEnded' \subseteq NeverEnded
    BY <1>2 DEF NeverEnded
<1>4. /\ Rejecting' \subseteq Rejecting \cup {w}
      /\ sess'[w].at # "reject" => Rejecting' = Rejecting \ {w}
    BY DEF Rejecting, Workers
<1>5. /\ sess'[w].at \notin Rewriting => Ending' = Ending \ {w}
      /\ sess[w].at \in Rewriting => Ending' \subseteq Ending
    BY DEF Ending
<1> QED
    BY <1>1, <1>3, <1>4, <1>5

(* Most steps neither acquire nor release nor end.                           *)
LEMMA Quiet ==
    ASSUME RowInv, SlotInv, NEW w \in Workers, \A v \in Workers \ {w} : sess'[v] = sess[v],
           \A d \in Calls : row'[d].kind = row[d].kind, ends' = ends,
           sess[w].at # "reject", sess'[w].at # "reject",
           sess'[w].at # "create" \/ sess'[w].op # "inbound",
           sess'[w].at \notin Rewriting \/ sess[w].at \in Rewriting,
           slots' = slots, faults' \in {faults, faults + 1}
    PROVE  SlotInv'
<1>1. w \notin Rejecting
    BY DEF Rejecting
<1>2. Rejecting' = Rejecting
    <2>1. Rejecting' = Rejecting \ {w}
        BY OneWorker
    <2> QED
        BY <1>1, <2>1
<1>3. Ending' \subseteq Ending
    BY OneWorker
<1>4. NeverEnded' \subseteq NeverEnded /\ SurplusEnds' = SurplusEnds
    BY OneWorker
<1> QED
    BY <1>2, <1>3, <1>4, NoMoreHeld

(* What a worker writes over an existing row is of its kind.                 *)
LEMMA KindsKept ==
    ASSUME RowInv, EndInv, NEW w \in Workers, sess[w].at \in {"write"} \cup Rewriting,
           row' = row \/ WriteRow(w)
    PROVE  \A d \in Calls : row'[d].kind = row[d].kind
<1>1. sess[w].call \in Calls /\ row \in [Calls -> Row]
    BY DEF RowInv, TypeOK, SessionsOK, SessionOK, Rewriting
<1>2. sess[w].snap.kind = row[sess[w].call].kind
    BY DEF EndInv, WorkersOK, WorkerOK
<1> QED
    BY <1>1, <1>2 DEF WriteRow

(* A call that is being admitted: one more is held, counted or forgiven.     *)
LEMMA Admits ==
    ASSUME RowInv, SlotInv, NEW s \in Sessions, NEW c \in Calls, NEW n,
           sess[s].at = "idle", Work(s, "create", "inbound", c, None, n),
           row' = row, ends' = ends,
           \/ slots' = slots + 1 /\ slots' <= MaxConcurrent /\ faults' = faults
           \/ slots' \in {slots, slots + 1} /\ faults' = faults + 1
    PROVE  SlotInv'
<1>1. faults \in Nat /\ slots \in Int /\ MaxConcurrent \in Nat
    BY CallAssumption DEF RowInv, TypeOK
<1>2. s \in Workers
    BY DEF Workers
<1>3. /\ sess'[s] = [at |-> "create", op |-> "inbound", call |-> c, agent |-> None, snap |-> n]
      /\ \A v \in Workers \ {s} : sess'[v] = sess[v]
    BY <1>2, Works
<1>4. /\ SurplusEnds' = SurplusEnds /\ NeverEnded' \subseteq NeverEnded \cup {c}
      /\ Rejecting' = Rejecting \ {s} /\ Ending' = Ending \ {s}
    BY <1>2, <1>3, OneWorker DEF Rewriting
<1>5. Rejecting' = Rejecting /\ Ending' \subseteq Ending
    BY <1>4 DEF Rejecting
<1>6. /\ Cardinality(NeverEnded') <= Cardinality(NeverEnded) + 1
      /\ Cardinality(Ending') <= Cardinality(Ending)
    BY <1>4, <1>5, CardinalityAdd, CardinalitySubset, Finite
<1>7. /\ Cardinality(NeverEnded) \in Nat /\ Cardinality(Ending) \in Nat
      /\ Cardinality(NeverEnded') \in Nat /\ Cardinality(Ending') \in Nat
      /\ Cardinality(Rejecting) \in Nat
    BY Finite, FiniteNext
<1>8. Cardinality(SurplusEnds) \in Nat
    BY FS_CardinalityType DEF SlotInv
<1> QED
    BY <1>1, <1>4, <1>5, <1>6, <1>7, <1>8 DEF SlotInv

(* A call that is refused: its unit waits to be taken back.                  *)
LEMMA Refuses ==
    ASSUME RowInv, SlotInv, NEW s \in Sessions, NEW c \in Calls, NEW n,
           sess[s].at = "idle", Work(s, "reject", "inbound", c, None, n),
           row' = row, ends' = ends, slots' = slots + 1, faults' = faults
    PROVE  SlotInv'
<1>1. faults \in Nat /\ slots \in Int /\ MaxConcurrent \in Nat
    BY CallAssumption DEF RowInv, TypeOK
<1>2. s \in Workers
    BY DEF Workers
<1>3. /\ sess'[s] = [at |-> "reject", op |-> "inbound", call |-> c, agent |-> None, snap |-> n]
      /\ \A v \in Workers \ {s} : sess'[v] = sess[v]
    BY <1>2, Works
<1>4. /\ SurplusEnds' = SurplusEnds /\ NeverEnded' \subseteq NeverEnded /\ Ending' = Ending \ {s}
    BY <1>2, <1>3, OneWorker DEF Rewriting
<1>5. Rejecting' = Rejecting \cup {s} /\ s \notin Rejecting
    BY <1>2, <1>3 DEF Rejecting, Workers
<1>6. /\ Cardinality(Rejecting') = Cardinality(Rejecting) + 1
      /\ Cardinality(NeverEnded') <= Cardinality(NeverEnded)
      /\ Cardinality(Ending') <= Cardinality(Ending)
    BY <1>4, <1>5, FS_AddElement, CardinalitySubset, Finite
<1>7. /\ Cardinality(NeverEnded) \in Nat /\ Cardinality(Ending) \in Nat
      /\ Cardinality(NeverEnded') \in Nat /\ Cardinality(Ending') \in Nat
      /\ Cardinality(Rejecting) \in Nat
    BY Finite, FiniteNext
<1>8. Cardinality(SurplusEnds) \in Nat
    BY FS_CardinalityType DEF SlotInv
<1> QED
    BY <1>1, <1>4, <1>6, <1>7, <1>8 DEF SlotInv

(* A unit is given back by what stood for it: a refusal or an end.           *)
LEMMA GivesBack ==
    ASSUME RowInv, EndInv, SlotInv, NEW w \in Workers, Finish(w), row' = row, ends' = ends,
           sess[w].at \in {"reject", "release"}, slots' = slots - 1, faults' = faults
    PROVE  SlotInv'
<1>1. faults \in Nat /\ slots \in Int /\ MaxConcurrent \in Nat
    BY CallAssumption DEF RowInv, TypeOK
<1>2. sess'[w] = Idle /\ \A v \in Workers \ {w} : sess'[v] = sess[v]
    BY Finishes
<1>3. /\ SurplusEnds' = SurplusEnds /\ NeverEnded' \subseteq NeverEnded
      /\ Rejecting' = Rejecting \ {w} /\ Ending' = Ending \ {w}
    BY <1>2, OneWorker DEF Rewriting, Idle
<1>4. /\ Cardinality(NeverEnded) \in Nat /\ Cardinality(Ending) \in Nat
      /\ Cardinality(NeverEnded') \in Nat /\ Cardinality(Ending') \in Nat
      /\ Cardinality(Rejecting) \in Nat /\ Cardinality(Rejecting') \in Nat
      /\ Cardinality(NeverEnded') <= Cardinality(NeverEnded)
    BY <1>3, Finite, FiniteNext, CardinalitySubset
<1>5. Cardinality(SurplusEnds) \in Nat
    BY FS_CardinalityType DEF SlotInv
<1>6. CASE sess[w].at = "reject"
    <2>1. w \in Rejecting /\ w \notin Ending
        BY <1>6 DEF Rejecting, Ending, Rewriting, EndInv, WorkersOK, WorkerOK, Workers
    <2>2. Cardinality(Rejecting') = Cardinality(Rejecting) - 1
        BY <2>1, <1>3, Finite, FS_RemoveElement
    <2>3. Ending' = Ending
        BY <2>1, <1>3
    <2>4. slots' <= MaxConcurrent + faults' + Cardinality(Rejecting')
        BY <1>1, <1>4, <2>2, <2>3 DEF SlotInv
    <2>5. Cardinality(NeverEnded') + Cardinality(Rejecting') + Cardinality(Ending')
             <= slots' + Cardinality(SurplusEnds) + faults'
        BY <1>1, <1>4, <1>5, <2>2, <2>3 DEF SlotInv
    <2>6. Cardinality(NeverEnded') <= MaxConcurrent + Cardinality(SurplusEnds) + faults'
        BY <1>1, <1>4, <1>5 DEF SlotInv
    <2> QED
        BY <1>3, <2>4, <2>5, <2>6 DEF SlotInv
<1>7. CASE sess[w].at = "release"
    <2>1. w \notin Rejecting /\ w \in Ending
        BY <1>7 DEF Rejecting, Ending, Rewriting
    <2>2. Cardinality(Ending') = Cardinality(Ending) - 1
        BY <2>1, <1>3, Finite, FS_RemoveElement
    <2>3. Rejecting' = Rejecting
        BY <2>1, <1>3
    <2>4. slots' <= MaxConcurrent + faults' + Cardinality(Rejecting')
        BY <1>1, <1>4, <2>2, <2>3 DEF SlotInv
    <2>5. Cardinality(NeverEnded') + Cardinality(Rejecting') + Cardinality(Ending')
             <= slots' + Cardinality(SurplusEnds) + faults'
        BY <1>1, <1>4, <1>5, <2>2, <2>3 DEF SlotInv
    <2>6. Cardinality(NeverEnded') <= MaxConcurrent + Cardinality(SurplusEnds) + faults'
        BY <1>1, <1>4, <1>5 DEF SlotInv
    <2> QED
        BY <1>3, <2>4, <2>5, <2>6 DEF SlotInv
<1> QED
    BY <1>6, <1>7

(* An end gives up the call's unit and takes one to release: its own, if it  *)
(* is the first of an inbound call, and a surplus one otherwise.             *)
LEMMA EndsOne ==
    ASSUME RowInv, EndInv, SlotInv, NEW w \in Workers, Save(w), sess[w].op = "end"
    PROVE  SlotInv'
<1> DEFINE c == sess[w].call
<1>1. faults \in Nat /\ slots \in Int /\ MaxConcurrent \in Nat /\ ends \in [Calls -> Nat]
    BY CallAssumption DEF RowInv, TypeOK
<1>2. /\ sess[w].at = "write" /\ c \in Calls /\ row[c].status # "absent"
      /\ ends' = [ends EXCEPT ![c] = @ + 1] /\ slots' = slots /\ faults' = faults
    BY DEF Save, RowInv, SessionsOK, SessionOK, OnRow
<1>3. /\ sess'[w] = [sess[w] EXCEPT !.at = "hangup"]
      /\ \A v \in Workers \ {w} : sess'[v] = sess[v]
    BY GoesOn DEF Save
<1>4. sess'[w].at = "hangup"
    BY <1>3 DEF RowInv, TypeOK
<1>5. \A d \in Calls : row'[d].kind = row[d].kind
    BY <1>2, KindsKept DEF Save
<1>6. Rejecting' = Rejecting
    BY <1>2, <1>3, <1>4 DEF Rejecting, Workers
<1>7. Ending' = Ending \cup {w} /\ w \notin Ending
    BY <1>2, <1>3, <1>4 DEF Ending, Rewriting
<1>8. Cardinality(Ending') = Cardinality(Ending) + 1
    BY <1>7, Finite, FS_AddElement
<1>9. \A d \in Calls : Entering(d)' => Entering(d)
    BY <1>3, <1>4 DEF Entering
<1>10. \A d \in Calls : ends'[d] = 0 => ends[d] = 0
    BY <1>1, <1>2
<1>11. NeverEnded' \subseteq NeverEnded
    BY <1>5, <1>9, <1>10 DEF NeverEnded
<1>12. /\ Cardinality(NeverEnded) \in Nat /\ Cardinality(Ending) \in Nat
       /\ Cardinality(NeverEnded') \in Nat /\ Cardinality(Ending') \in Nat
       /\ Cardinality(Rejecting) \in Nat
       /\ Cardinality(NeverEnded') <= Cardinality(NeverEnded)
    BY <1>11, Finite, FiniteNext, CardinalitySubset
<1>13. Cardinality(SurplusEnds) \in Nat
    BY FS_CardinalityType DEF SlotInv
<1>14. CASE ends[c] = 0 /\ row[c].kind = "inbound"
    <2>1. SurplusEnds' = SurplusEnds
        BY <1>2, <1>5, <1>14, SurplusGrows
    <2>2. c \in NeverEnded
        BY <1>14, <1>2 DEF NeverEnded
    <2>3. ~Entering(c)
        BY <1>2 DEF Entering, EndInv, WorkersOK, WorkerOK
    <2>4. c \notin NeverEnded'
        BY <1>1, <1>2, <1>9, <2>3 DEF NeverEnded
    <2>5. Cardinality(NeverEnded') <= Cardinality(NeverEnded) - 1
        BY <1>11, <2>2, <2>4, CardinalityRemove, Finite
    <2> QED
        BY <1>1, <1>2, <1>6, <1>8, <1>12, <1>13, <2>1, <2>5 DEF SlotInv
<1>15. CASE ~(ends[c] = 0 /\ row[c].kind = "inbound")
    <2>1. /\ SurplusEnds' = SurplusEnds \cup {<<c, ends[c] + 1>>}
          /\ <<c, ends[c] + 1>> \notin SurplusEnds
        BY <1>2, <1>5, <1>15, SurplusGrows
    <2>2. /\ IsFiniteSet(SurplusEnds')
          /\ Cardinality(SurplusEnds') = Cardinality(SurplusEnds) + 1
        BY <2>1, FS_AddElement DEF SlotInv
    <2> QED
        BY <1>1, <1>2, <1>6, <1>8, <1>12, <1>13, <2>2 DEF SlotInv
<1> QED
    BY <1>14, <1>15

(* An INSERT turns a call that is being admitted into an open one.           *)
LEMMA InsertsOne ==
    ASSUME RowInv, EndInv, SlotInv, NEW w \in Workers, CreateRow(w)
    PROVE  SlotInv'
<1> DEFINE c == sess[w].call
<1>1. /\ sess[w].at = "create" /\ c \in Calls /\ row \in [Calls -> Row]
      /\ row[c].status = "absent" /\ ends[c] = 0 /\ sess[w].op = sess[w].snap.kind
    BY DEF CreateRow, RowInv, TypeOK, SessionsOK, SessionOK, EndInv, WorkersOK, WorkerOK, NoEndBefore
<1>2. sess'[w] = Idle /\ \A v \in Workers \ {w} : sess'[v] = sess[v]
    BY Finishes DEF CreateRow
<1>3. /\ row'[c] = sess[w].snap /\ \A d \in Calls \ {c} : row'[d] = row[d]
      /\ ends' = ends /\ slots' = slots /\ faults' = faults
    BY <1>1 DEF CreateRow, WriteRow
<1>4. SurplusEnds' = SurplusEnds
    BY <1>1, <1>3, SurplusStays
<1>5. \A d \in Calls : Entering(d)' => Entering(d)
    BY <1>2 DEF Entering, Idle
<1>6. row'[c].kind = "inbound" => Entering(c)
    BY <1>1, <1>3 DEF Entering
<1>7. NeverEnded' \subseteq NeverEnded
    BY <1>3, <1>5, <1>6 DEF NeverEnded
<1>8. Rejecting' = Rejecting /\ Ending' = Ending
    BY <1>1, <1>2 DEF Rejecting, Ending, Idle, Rewriting, Workers
<1> QED
    BY <1>3, <1>4, <1>7, <1>8, NoMoreHeld

LEMMA NextSlots == RowInv /\ EndInv /\ SlotInv /\ [Next]_vars => SlotInv'
<1> SUFFICES ASSUME RowInv, EndInv, SlotInv, [Next]_vars PROVE SlotInv'
    OBVIOUS
<1>w. \A s \in Sessions : s \in Workers
    BY DEF Workers
<1>t. faults \in Nat /\ slots \in Int /\ row \in [Calls -> Row] /\ sess \in SessType
    BY DEF RowInv, TypeOK, SessType
<1>1. ASSUME NEW s \in Sessions, NEW c \in Calls, HandleInboundCall(s, c) PROVE SlotInv'
    <2>1. CASE OverLimit(slots + 1)
        BY <1>1, <2>1, Refuses DEF HandleInboundCall
    <2>2. CASE ~OverLimit(slots + 1)
        <3>1. slots' = slots + 1 /\ slots' <= MaxConcurrent
            BY <1>1, <2>2, <1>t, CallAssumption DEF HandleInboundCall, OverLimit
        <3> QED
            BY <1>1, <2>2, <3>1, Admits DEF HandleInboundCall
    <2> QED
        BY <2>1, <2>2
<1>2. ASSUME NEW s \in Sessions, NEW c \in Calls, AcquireFailsOpen(s, c) PROVE SlotInv'
    BY <1>2, Admits DEF AcquireFailsOpen, Faulty
<1>3. ASSUME NEW s \in Sessions, NEW op \in {"outbound", "internal", "monitor"}, NEW c, NEW a, NEW n,
             sess[s].at = "idle", Work(s, "create", op, c, a, n),
             UNCHANGED <<row, ends, slots, faults>>
      PROVE  SlotInv'
    <2>1. /\ sess'[s] = [at |-> "create", op |-> op, call |-> c, agent |-> a, snap |-> n]
          /\ \A v \in Workers \ {s} : sess'[v] = sess[v]
        BY <1>3, <1>w, Works
    <2>2. sess'[s].at = "create" /\ sess'[s].op # "inbound"
        BY <2>1
    <2> QED
        BY <1>3, <1>w, <1>t, <2>1, <2>2, Quiet DEF Rewriting
<1>4. ASSUME NEW w \in Workers, NEW op, NEW c, NEW a, NEW n, NEW place \in {"read", "write"},
             sess[w].at \in {"idle", "read"}, Work(w, place, op, c, a, n),
             UNCHANGED <<row, ends, slots, faults>>
      PROVE  SlotInv'
    <2>1. /\ sess'[w] = [at |-> place, op |-> op, call |-> c, agent |-> a, snap |-> n]
          /\ \A v \in Workers \ {w} : sess'[v] = sess[v]
        BY <1>4, Works
    <2>2. sess'[w].at \in {"read", "write"}
        BY <2>1
    <2> QED
        BY <1>4, <1>t, <2>1, <2>2, Quiet DEF Rewriting
<1>5. ASSUME NEW w \in Workers, Finish(w), sess[w].at # "reject",
             \A d \in Calls : row'[d].kind = row[d].kind,
             ends' = ends, slots' = slots, faults' \in {faults, faults + 1}
      PROVE  SlotInv'
    <2>1. sess'[w] = Idle /\ \A v \in Workers \ {w} : sess'[v] = sess[v]
        BY <1>5, Finishes
    <2>2. sess'[w].at = "idle"
        BY <2>1 DEF Idle
    <2> QED
        BY <1>5, <2>1, <2>2, Quiet DEF Rewriting
<1>6. ASSUME NEW w \in Workers, CreateFails(w) \/ SaveFails(w) PROVE SlotInv'
    BY <1>5, <1>6 DEF CreateFails, SaveFails, Faulty
<1>7. ASSUME NEW w \in Workers, RejectInbound(w) \/ ReleaseSlot(w) PROVE SlotInv'
    BY <1>7, GivesBack DEF RejectInbound, ReleaseSlot
<1>8. ASSUME NEW w \in Workers, CreateRow(w) PROVE SlotInv'
    BY <1>8, InsertsOne
<1>9. ASSUME NEW w \in Workers, Save(w) PROVE SlotInv'
    <2>1. CASE sess[w].op = "end"
        BY <1>9, <2>1, EndsOne
    <2>2. CASE sess[w].op # "end"
        <3>1. \A d \in Calls : row'[d].kind = row[d].kind
            BY <1>9, KindsKept DEF Save
        <3> QED
            BY <1>5, <1>9, <2>2, <3>1 DEF Save
    <2> QED
        BY <2>1, <2>2
<1>10. ASSUME NEW w \in Workers,
              HangupChannel(w) \/ SaveRecording(w) \/ SaveDurations(w) \/ RewriteFails(w)
       PROVE  SlotInv'
    <2>1. /\ sess[w].at \in Rewriting /\ (row' = row \/ WriteRow(w)) /\ ends' = ends
          /\ slots' = slots /\ faults' \in {faults, faults + 1}
          /\ \E place \in Rewriting : GoTo(w, place)
        BY <1>10 DEF HangupChannel, SaveRecording, SaveDurations, RewriteFails, Rewriting, Faulty
    <2>2. \A d \in Calls : row'[d].kind = row[d].kind
        BY <2>1, KindsKept
    <2>3. PICK place \in Rewriting : GoTo(w, place)
        BY <2>1
    <2>4. /\ sess'[w] = [sess[w] EXCEPT !.at = place]
          /\ \A v \in Workers \ {w} : sess'[v] = sess[v]
        BY <2>3, GoesOn
    <2>5. sess'[w].at = place
        BY <2>4, <1>t DEF SessType
    <2> QED
        BY <2>1, <2>2, <2>4, <2>5, Quiet DEF Rewriting
<1>11. ASSUME NEW s \in Sessions, NEW c \in Calls, NEW a \in Agents, NEW op \in RequestOps,
              Request(s, op, c, a)
       PROVE  SlotInv'
    BY <1>4, <1>11, <1>w DEF Request, ToWrite
<1>12. ASSUME NEW s \in Sessions, NEW c \in Calls, PostCallHooks(s, c) PROVE SlotInv'
    BY <1>4, <1>12, <1>w DEF PostCallHooks, ToWrite
<1>13. CASE UNCHANGED <<row, sess, slots, ends, faults>>
    <2>1. /\ NeverEnded' = NeverEnded /\ Rejecting' = Rejecting /\ Ending' = Ending
          /\ SurplusEnds' = SurplusEnds
        BY <1>13 DEF NeverEnded, Entering, Rejecting, Ending, SurplusEnds
    <2> QED
        BY <1>13, <2>1, NoMoreHeld
<1>14. ASSUME NEW l \in Listeners, HandleESLEvent(l) PROVE SlotInv'
    <2>1. l \in Workers
        BY DEF Workers
    <2>2. CASE sess' = sess
        BY <1>13, <1>14, <2>2 DEF HandleESLEvent
    <2>3. CASE sess' # sess
        BY <1>4, <1>14, <2>1, <2>3 DEF HandleESLEvent
    <2> QED
        BY <2>2, <2>3
<1>15. ASSUME NEW l \in Listeners, ListenerRead(l) PROVE SlotInv'
    <2>1. l \in Workers
        BY DEF Workers
    <2>2. CASE Finish(l)
        BY <1>5, <1>15, <2>1, <2>2 DEF ListenerRead
    <2>3. CASE ~Finish(l)
        BY <1>4, <1>15, <2>1, <2>3 DEF ListenerRead, ToWrite
    <2> QED
        BY <2>2, <2>3
<1>16. ASSUME NEW l \in Listeners, ListenerDisconnect(l) PROVE SlotInv'
    <2>1. /\ NeverEnded' = NeverEnded /\ Rejecting' = Rejecting /\ Ending' = Ending
          /\ SurplusEnds' = SurplusEnds
        BY <1>16 DEF ListenerDisconnect, NeverEnded, Entering, Rejecting, Ending, SurplusEnds
    <2> QED
        BY <1>16, <2>1, NoMoreHeld DEF ListenerDisconnect, Faulty
<1>17. ASSUME NEW s \in Sessions, NEW c \in Calls, NEW a \in Agents,
              CreateOutboundCall(s, c, a) \/ CreateInternalCall(s, c, a)
       PROVE  SlotInv'
    BY <1>3, <1>17 DEF CreateOutboundCall, CreateInternalCall
<1>18. ASSUME NEW s \in Sessions, NEW c \in Calls, NEW t \in Calls, NEW a \in Agents, NEW S,
              Supervise(s, c, t, a, S)
       PROVE  SlotInv'
    BY <1>3, <1>18 DEF Supervise
<1> QED
    BY <1>1, <1>2, <1>6, <1>7, <1>8, <1>9, <1>10, <1>11, <1>12, <1>13, <1>14, <1>15, <1>16, <1>17, <1>18
       DEF Next, MonitorCall, CoachCall, Continue, StepFails, FsReport, FsHangup, vars

LEMMA InitSlots == Init => SlotInv
<1> SUFFICES ASSUME Init PROVE SlotInv
    OBVIOUS
<1>1. Rejecting = {} /\ Ending = {} /\ NeverEnded = {}
    BY DEF Init, Rejecting, Ending, NeverEnded, Entering, Workers, Idle, NoRow, NewRow, Rewriting
<1>2. SurplusEnds = {}
    <2>1. \A c \in Calls : Extra(c) = {}
        BY DEF Init, Extra
    <2> QED
        BY <2>1, SurplusIsExtra
<1>3. slots = 0 /\ faults = 0
    BY DEF Init
<1> QED
    BY <1>1, <1>2, <1>3, FS_EmptySet, CallAssumption DEF SlotInv

THEOREM SlotsInvariant == Spec => [](RowInv /\ EndInv /\ SlotInv)
<1>1. Init => RowInv /\ EndInv /\ SlotInv
    BY InitRowInv, InitEnds, InitSlots
<1>2. (RowInv /\ EndInv /\ SlotInv) /\ [Next]_vars => (RowInv /\ EndInv /\ SlotInv)'
    BY NextRowInv, NextEnds, NextSlots
<1> QED
    BY <1>1, <1>2, PTL DEF Spec

(* Whatever the calls and however many processes end them, the counter       *)
(* exceeds max_concurrent_calls by no more than the refusals under way and   *)
(* the Redis errors.                                                         *)
THEOREM SlotsStayBounded == Spec => []SlotsBounded
<1>1. SlotInv => SlotsBounded
    BY DEF SlotInv, SlotsBounded, Rejecting
<1> QED
    BY <1>1, SlotsInvariant, PTL

(* Whatever the calls and however many processes end them, an inbound call   *)
(* above max_concurrent_calls that has not ended is owed to a fault or to an *)
(* end that released what nobody had acquired.                               *)
THEOREM LimitIsAccounted == Spec => []OverLimitAccounted
<1>1. RowInv /\ SlotInv => OverLimitAccounted
    <2> SUFFICES ASSUME RowInv, SlotInv PROVE OverLimitAccounted
        OBVIOUS
    <2>1. {c \in OpenInbound : ends[c] = 0} \subseteq NeverEnded
        BY DEF OpenInbound, Open, NeverEnded
    <2>2. /\ Cardinality({c \in OpenInbound : ends[c] = 0}) <= Cardinality(NeverEnded)
          /\ Cardinality({c \in OpenInbound : ends[c] = 0}) \in Nat
          /\ Cardinality(NeverEnded) \in Nat
        BY <2>1, CardinalitySubset, Finite
    <2>3. faults \in Nat /\ MaxConcurrent \in Nat /\ Cardinality(SurplusEnds) \in Nat
        BY CallAssumption, FS_CardinalityType DEF RowInv, TypeOK, SlotInv
    <2> QED
        BY <2>2, <2>3 DEF SlotInv, OverLimitAccounted
<1> QED
    BY <1>1, SlotsInvariant, PTL
=============================================================================
