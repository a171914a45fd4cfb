----------------------------- MODULE CommAgents -----------------------------
(***************************************************************************)
(* Conversations of the communication agents: one request to               *)
(* HandleConversationTurn reads the agent and the session, or starts one,  *)
(* asks the model for a reply, adds the turn to its copy of the session    *)
(* and writes the copy back, and ends the session when the model says to   *)
(* transfer or the turns are used up. What is said is left out: a          *)
(* transcript is how many turns it has. A turn is a caller's request; the  *)
(* next one of a session may come before the last is through.              *)
(***************************************************************************)
EXTENDS Tenancy

CONSTANTS
    Turns,          \* requests in progress
    CommSessions,
    MaxTurns,       \* max_turns of the agent
    MaxReplies      \* bound: replies after which a session is not taken up again

AgentSessionStatus == {"active", "completed", "transferred"}
CommAgentSession == [tenant : Tenants, status : AgentSessionStatus,
                     count : 0..(MaxTurns + 1), transcript : Nat]

\* CommAgentService.Create takes 1 to 100 turns.
ASSUME CommAgentsAssumption ==
    /\ IsFiniteSet(Turns)
    /\ NoRow \notin CommSessions \cup CommAgentSession
    /\ MaxTurns \in 1..100
    /\ MaxReplies \in Nat

VARIABLES
    agents,         \* the tenants that have the agent
    commSessions,
    turn,           \* what each request is doing
    replied,        \* replies given in each session (history)
    ended,          \* sessions a caller was told are over (history)
    entwined,       \* sessions two requests worked on at a time (history)
    unwritten,      \* sessions whose end was not stored (history)
    reawoken        \* sessions that are active again (history)

commHistory == <<replied, ended, entwined, unwritten, reawoken>>
commVars == <<agents, commSessions, turn, commHistory>>

Silent == [at |-> "silent"]
TurnSteps == {"start", "reply", "add", "end", "judge", "transfer"}
Held == [at : TurnSteps, sess : CommSessions, row : CommAgentSession]

In(q, s) == turn[q] # Silent /\ turn[q].sess = s

CommInit ==
    /\ agents = Tenants
    /\ commSessions = [s \in CommSessions |-> NoRow]
    /\ turn = [q \in Turns |-> Silent]
    /\ replied = [s \in CommSessions |-> 0]
    /\ ended = {} /\ entwined = {} /\ unwritten = {} /\ reawoken = {}

Hold(q, at, s, row) == turn' = [turn EXCEPT ![q] = [at |-> at, sess |-> s, row |-> row]]
Go(q, at) == turn' = [turn EXCEPT ![q].at = at]
Return(q) == turn' = [turn EXCEPT ![q] = Silent]

-----------------------------------------------------------------------------
\* The agent and the session are the caller's: both are read by tenant and id.
ReadSession(q, t, s) ==
    /\ turn[q] = Silent
    /\ t \in agents /\ Owns(commSessions, t, s)
    /\ replied[s] < MaxReplies
    /\ Hold(q, "reply", s, commSessions[s])
    /\ entwined' = IF \E p \in Turns : In(p, s) THEN entwined \cup {s} ELSE entwined
    /\ UNCHANGED <<agents, commSessions, replied, ended, unwritten, reawoken>>

\* Without a session id a session is started.
OpenSession(q, t, s) ==
    /\ turn[q] = Silent
    /\ t \in agents
    /\ s \notin Ids(commSessions) /\ ~\E p \in Turns : In(p, s)
    /\ Hold(q, "start", s, [tenant |-> t, status |-> "active", count |-> 0, transcript |-> 0])
    /\ UNCHANGED <<agents, commSessions, commHistory>>

StartSession(q) ==
    /\ turn[q].at = "start"
    /\ commSessions' = Inserted(commSessions, turn[q].sess, turn[q].row)
    /\ Go(q, "reply")
    /\ UNCHANGED <<agents, commHistory>>

GenerateReply(q) ==
    /\ turn[q].at = "reply"
    /\ Go(q, "add")
    /\ UNCHANGED <<agents, commSessions, commHistory>>

\* Nothing is read between the session and its UPDATE: the whole row is written.
UpdateCommSession(s, row) ==
    /\ commSessions' = Updated(commSessions, s, row)
    /\ reawoken' = IF commSessions[s] # NoRow /\ commSessions[s].status # "active"
                      /\ row.status = "active"
                   THEN reawoken \cup {s} ELSE reawoken

\* Mutant: the turn is counted and not written down.
MutantWithTurn(row) == [row EXCEPT !.count = @ + 1]

WithTurn(row) == [row EXCEPT !.count = @ + 1, !.transcript = @ + 1]

\* Mutant: a session that is over is taken up again.
MutantAddTurn(q) ==
    LET s == turn[q].sess  row == [turn[q].row EXCEPT !.status = "active"]
    IN  /\ turn[q].at = "add"
        /\ \/ /\ row.count < MaxTurns
              /\ UpdateCommSession(s, WithTurn(row))
              /\ Hold(q, "judge", s, WithTurn(row))
              /\ replied' = [replied EXCEPT ![s] = @ + 1]
           \/ /\ row.count >= MaxTurns
              /\ Hold(q, "end", s, WithTurn(row))
              /\ UNCHANGED <<commSessions, replied, reawoken>>
        /\ UNCHANGED <<agents, ended, entwined, unwritten>>

\* Mutant: the turn is counted after the limit is looked at.
MutantAddTurnLate(q) ==
    LET s == turn[q].sess  row == turn[q].row
    IN  /\ turn[q].at = "add"
        /\ \/ /\ row.status = "active" /\ row.count <= MaxTurns
              /\ UpdateCommSession(s, WithTurn(row))
              /\ Hold(q, "judge", s, WithTurn(row))
              /\ replied' = [replied EXCEPT ![s] = @ + 1]
           \/ /\ row.status = "active" /\ row.count > MaxTurns
              /\ Hold(q, "end", s, WithTurn(row))
              /\ UNCHANGED <<commSessions, replied, reawoken>>
           \/ /\ row.status # "active"
              /\ Return(q)
              /\ UNCHANGED <<commSessions, replied, reawoken>>
        /\ UNCHANGED <<agents, ended, entwined, unwritten>>

\* A turn of a session that is over is refused; the turn after the last is
\* counted and written by the end of the session, not here.
AddTurn(q) ==
    LET s == turn[q].sess  row == turn[q].row
    IN  /\ turn[q].at = "add"
        /\ \/ /\ row.status = "active" /\ row.count < MaxTurns
              /\ UpdateCommSession(s, WithTurn(row))
              /\ Hold(q, "judge", s, WithTurn(row))
              /\ replied' = [replied EXCEPT ![s] = @ + 1]
           \/ /\ row.status = "active" /\ row.count >= MaxTurns
              /\ Hold(q, "end", s, WithTurn(row))
              /\ UNCHANGED <<commSessions, replied, reawoken>>
           \/ /\ row.status # "active"
              /\ Return(q)
              /\ UNCHANGED <<commSessions, replied, reawoken>>
        /\ UNCHANGED <<agents, ended, entwined, unwritten>>

\* A check that fails is a check that says no.
ShouldTransfer(q) ==
    /\ turn[q].at = "judge"
    /\ Return(q) \/ Go(q, "transfer")
    /\ UNCHANGED <<agents, commSessions, commHistory>>

\* Mutant: a session that is over is left as active as it was.
MutantEndSession(q, s, status) ==
    LET counted == IF turn[q].at = "end" THEN 1 ELSE 0
    IN  /\ turn[q].at \in {"end", "transfer"}
        /\ UpdateCommSession(s, turn[q].row) /\ UNCHANGED unwritten
        /\ ended' = ended \cup {s}
        /\ replied' = [replied EXCEPT ![s] = @ + counted]
        /\ Return(q)
        /\ UNCHANGED <<agents, entwined>>

\* The error of the UPDATE is dropped: the caller is told the session is over.
EndSession(q, s, status) ==
    LET counted == IF turn[q].at = "end" THEN 1 ELSE 0
    IN  /\ turn[q].at \in {"end", "transfer"}
        /\ \/ UpdateCommSession(s, [turn[q].row EXCEPT !.status = status]) /\ UNCHANGED unwritten
           \/ unwritten' = unwritten \cup {s} /\ UNCHANGED <<commSessions, reawoken>>
        /\ ended' = ended \cup {s}
        /\ replied' = [replied EXCEPT ![s] = @ + counted]
        /\ Return(q)
        /\ UNCHANGED <<agents, entwined>>

\* A call of the model or a statement fails, or the server stops.
TurnFails(q) ==
    /\ turn[q] # Silent
    /\ Return(q)
    /\ UNCHANGED <<agents, commSessions, commHistory>>

\* DELETE of the agent: its sessions stay.
DeleteCommAgent(t) ==
    /\ agents' = agents \ {t}
    /\ UNCHANGED <<commSessions, turn, commHistory>>

CreateCommAgent(t) ==
    /\ agents' = agents \cup {t}
    /\ UNCHANGED <<commSessions, turn, commHistory>>

CommNext ==
    \/ \E q \in Turns :
          \/ \E t \in Tenants, s \in CommSessions : ReadSession(q, t, s) \/ OpenSession(q, t, s)
          \/ StartSession(q) \/ GenerateReply(q) \/ AddTurn(q) \/ ShouldTransfer(q)
          \/ turn[q].at = "end" /\ EndSession(q, turn[q].sess, "completed")
          \/ turn[q].at = "transfer" /\ EndSession(q, turn[q].sess, "transferred")
          \/ TurnFails(q)
    \/ \E t \in Tenants : CreateCommAgent(t) \/ DeleteCommAgent(t)

CommSpec == CommInit /\ [][CommNext]_commVars

-----------------------------------------------------------------------------
\* Type correctness: a stored count is at most one above the limit.
CommTypeOK ==
    /\ agents \subseteq Tenants
    /\ commSessions \in [CommSessions -> CommAgentSession \cup {NoRow}]
    /\ \A q \in Turns : turn[q] = Silent \/ turn[q] \in Held
    /\ replied \in [CommSessions -> Nat]
    /\ ended \cup entwined \cup unwritten \cup reawoken \subseteq CommSessions

\* A session that goes on has turns left or its last one: the turn over the
\* limit is stored only together with the end.
ActiveWithinLimit ==
    \A s \in Ids(commSessions) : commSessions[s].status = "active" => commSessions[s].count <= MaxTurns

\* A session that is over is active again only where two of its turns
\* overlapped: the slower one writes the row it read.
ReopenedOnlyWhereEntwined == reawoken \subseteq entwined

\* A caller that was told the session is over finds it over, unless its turns
\* overlapped or the end was not stored (its error is dropped).
ToldEndIsStored ==
    \A s \in ended \ (entwined \cup unwritten) : commSessions[s].status # "active"

\* Every reply that was given is in the transcript, unless turns overlapped or
\* the last one was not stored.
RepliesAreKept ==
    \A s \in Ids(commSessions) : replied[s] # commSessions[s].transcript => s \in entwined \cup unwritten
=============================================================================
