---------------------------- MODULE ImSessions ----------------------------
(***************************************************************************)
(* Chat sessions (domain/im): channels, the sessions visitors open by the  *)
(* web widget, by e-mail or by a social platform, the routing of a session *)
(* to an agent (application/imrouter), transfer, close and messages.       *)
(*                                                                         *)
(* Every request is a goroutine of its own. It reads a row, decides, and   *)
(* later writes all columns of its copy back; no lock, version or          *)
(* condition guards the write. A step of a request is one statement.       *)
(***************************************************************************)
EXTENDS Tenancy

CONSTANTS
    Channels,       \* ids of im_channels
    Sessions,       \* ids of im_sessions
    ChatAgents,     \* agents, members of the one skill group
    ChatRequests,   \* goroutines
    NoAgent,        \* agent_user_id NULL
    MaxChatSlots,   \* IMService.maxChatSlots, 5
    MaxChats        \* bound: requests

\* grouped: skill_group_id is set, the group being that of ChatAgents.
IMChannel == [tenant : Tenants, grouped : BOOLEAN, status : {"active", "disabled"}]
SocialChannelConfig == [secret : 0..MaxChats, isVerified : BOOLEAN]
\* customer: customer_id is set; ended: end_at is set.
IMSession == [tenant : Tenants, grouped : BOOLEAN, customer : BOOLEAN,
              agent : ChatAgents \cup {NoAgent},
              status : {"waiting", "active", "closed"}, ended : BOOLEAN]

ASSUME ChatAssumption ==
    /\ IsFiniteSet(ChatRequests) /\ ChatRequests # {}
    /\ NoRow \notin IMChannel \cup SocialChannelConfig \cup IMSession
    /\ NoAgent \notin ChatAgents
    /\ MaxChatSlots \in Nat \ {0}
    /\ MaxChats \in Nat

VARIABLES
    channels,     \* im_channels
    social,       \* social_channel_configs, by channel
    sessions,     \* im_sessions
    messages,     \* im_messages of a session: how many
    chats,        \* what each goroutine is doing
    interactions, \* CRM interactions recorded for a session
    closedEvents, \* "im.session.closed" events raised for a session
    closes,       \* completed CloseSession calls (history)
    reopened,     \* writes that took a session out of "closed" (history)
    late,         \* messages added to a closed session (history)
    chatCount

chatVars == <<channels, social, sessions, messages, chats, interactions,
              closedEvents, closes, reopened, late, chatCount>>

NoChat == [at |-> "idle", id |-> NoRow, copy |-> NoRow, agent |-> NoAgent,
           left |-> {}, via |-> "none"]

ChatInit ==
    /\ channels = [c \in Channels |-> NoRow]
    /\ social = [c \in Channels |-> NoRow]
    /\ sessions = [s \in Sessions |-> NoRow]
    /\ messages = [s \in Sessions |-> 0]
    /\ chats = [w \in ChatRequests |-> NoChat]
    /\ interactions = [s \in Sessions |-> 0]
    /\ closedEvents = [s \in Sessions |-> 0]
    /\ closes = [s \in Sessions |-> 0]
    /\ reopened = [s \in Sessions |-> 0]
    /\ late = [s \in Sessions |-> 0]
    /\ chatCount = 0

NewChat == chatCount < MaxChats /\ chatCount' = chatCount + 1
Chat(w, new) == chats' = [chats EXCEPT ![w] = new]
ChatRead(w, at, id, copy) ==
    /\ chats[w].at = "idle"
    /\ NewChat
    /\ Chat(w, [NoChat EXCEPT !.at = at, !.id = id, !.copy = copy])

history == <<interactions, closedEvents, closes, reopened, late>>

\* Channels and the accounts of social platforms behind them.

CreateChannel(t, c, grouped) ==
    /\ NewChat
    /\ channels[c] = NoRow
    /\ channels' = Inserted(channels, c, [tenant |-> t, grouped |-> grouped,
                                          status |-> "active"])
    /\ UNCHANGED <<social, sessions, messages, chats, history>>

\* IMChannelHandler.Update: the row is read,
ReadChannel(w, c) ==
    /\ c \in Ids(channels)
    /\ ChatRead(w, "channel", c, channels[c])
    /\ UNCHANGED <<channels, social, sessions, messages, history>>
\* the columns the request gives are replaced, and all but the tenant written.
UpdateChannel(w, grouped, status) ==
    /\ chats[w].at = "channel"
    /\ channels' = Updated(channels, chats[w].id,
           [chats[w].copy EXCEPT !.grouped = grouped, !.status = status])
    /\ Chat(w, NoChat)
    /\ UNCHANGED <<social, sessions, messages, history, chatCount>>

CreateConfig(c) ==
    /\ NewChat
    /\ c \in Ids(channels) /\ social[c] = NoRow
    /\ social' = Inserted(social, c, [secret |-> chatCount', isVerified |-> FALSE])
    /\ UNCHANGED <<channels, sessions, messages, chats, history>>
DeleteConfig(c) ==
    /\ NewChat
    /\ c \in Ids(social)
    /\ social' = Deleted(social, c)
    /\ UNCHANGED <<channels, sessions, messages, chats, history>>
\* Both RMW requests read the configuration of the channel,
ReadConfig(w, c) ==
    /\ c \in Ids(social)
    /\ ChatRead(w, "config", c, social[c])
    /\ UNCHANGED <<channels, social, sessions, messages, history>>
\* one to give it another secret or token,
UpdateConfig(w) ==
    /\ chats[w].at = "config"
    /\ social' = Updated(social, chats[w].id, [chats[w].copy EXCEPT !.secret = chatCount])
    /\ Chat(w, NoChat)
    /\ UNCHANGED <<channels, sessions, messages, history, chatCount>>
\* one, after the platform's handshake, to mark it verified.
MarkVerified(w) ==
    /\ chats[w].at = "config"
    /\ social' = Updated(social, chats[w].id, [chats[w].copy EXCEPT !.isVerified = TRUE])
    /\ Chat(w, NoChat)
    /\ UNCHANGED <<channels, sessions, messages, history, chatCount>>

\* A new session. All three ways read the channel and its status first; a
\* social message passes the check of its signature before.

ReadChannelFor(w, c, via) ==
    /\ c \in Ids(channels) /\ channels[c].status = "active"
    /\ via = "social" => c \in Ids(social)
    /\ chats[w].at = "idle"
    /\ NewChat
    /\ Chat(w, [NoChat EXCEPT !.at = "create", !.id = c, !.copy = channels[c], !.via = via])
    /\ UNCHANGED <<channels, social, sessions, messages, history>>

\* Mutant: a status the other operations do not know.
MutantNewSession(ch, t, customer) ==
    [tenant |-> t, grouped |-> ch.grouped, customer |-> customer, agent |-> NoAgent,
     status |-> "queued", ended |-> FALSE]

NewSession(ch, t, customer) ==
    [tenant |-> t, grouped |-> ch.grouped, customer |-> customer, agent |-> NoAgent,
     status |-> "waiting", ended |-> FALSE]

\* The router looks at the members only of a session with a skill group.
Routing(s, grouped) ==
    IF grouped THEN [NoChat EXCEPT !.at = "route", !.id = s, !.left = ChatAgents] ELSE NoChat

\* WidgetHandler.CreateSession: the tenant is the request's; a goroutine
\* routes the session.
CreateSession(w, s, t, customer) ==
    /\ chats[w].at = "create" /\ chats[w].via = "widget" /\ sessions[s] = NoRow
    /\ sessions' = Inserted(sessions, s, NewSession(chats[w].copy, t, customer))
    /\ Chat(w, Routing(s, chats[w].copy.grouped))
    /\ UNCHANGED <<channels, social, messages, history, chatCount>>
\* email.ProcessInbound: CreateSession, then the text as a message, then the
\* routing. A mail without a text leaves its session behind.
ProcessInbound(w, s, t, text) ==
    /\ chats[w].at = "create" /\ chats[w].via = "mail" /\ sessions[s] = NoRow
    /\ sessions' = Inserted(sessions, s, NewSession(chats[w].copy, t, FALSE))
    /\ Chat(w, IF text THEN [NoChat EXCEPT !.at = "mail", !.id = s, !.copy = sessions'[s]] ELSE NoChat)
    /\ UNCHANGED <<channels, social, messages, history, chatCount>>
\* ProcessInboundMessage: the tenant is the channel's and nothing routes the
\* session. A message sent again by the platform opens another session.
ProcessInboundMessage(w, s) ==
    /\ chats[w].at = "create" /\ chats[w].via = "social" /\ sessions[s] = NoRow
    /\ sessions' = Inserted(sessions, s, NewSession(chats[w].copy, chats[w].copy.tenant, FALSE))
    /\ Chat(w, [NoChat EXCEPT !.at = "message", !.id = s, !.copy = sessions'[s]])
    /\ UNCHANGED <<channels, social, messages, history, chatCount>>

\* Routing: autoRouteBySkillGroup tries one member after the other, skips who
\* is not idle and goes on when AssignAgent refuses.

SkipMember(w, a) ==
    /\ chats[w].at = "route" /\ a \in chats[w].left
    /\ Chat(w, [chats[w] EXCEPT !.left = @ \ {a}])
    /\ UNCHANGED <<channels, social, sessions, messages, history, chatCount>>
\* AssignAgent: the session is read and must be waiting,
AssignAgent(w, a) ==
    LET sess == sessions[chats[w].id] IN
    /\ chats[w].at = "route" /\ a \in chats[w].left
    /\ sess.status = "waiting"
    /\ Chat(w, [chats[w] EXCEPT !.at = "count", !.left = @ \ {a}, !.agent = a, !.copy = sess])
    /\ UNCHANGED <<channels, social, sessions, messages, history, chatCount>>
RouteEnds(w) ==
    /\ chats[w].at = "route" /\ chats[w].left = {}
    /\ Chat(w, NoChat)
    /\ UNCHANGED <<channels, social, sessions, messages, history, chatCount>>

\* TransferSession: read, must be active,
TransferSession(w, s, a) ==
    /\ s \in Ids(sessions) /\ sessions[s].status = "active"
    /\ chats[w].at = "idle"
    /\ NewChat
    /\ Chat(w, [NoChat EXCEPT !.at = "count", !.id = s, !.agent = a, !.copy = sessions[s]])
    /\ UNCHANGED <<channels, social, sessions, messages, history>>

ActiveOf(a) == {s \in Ids(sessions) : sessions[s].agent = a /\ sessions[s].status = "active"}

\* Mutant: one session too many.
MutantCountActiveByAgent(w) ==
    /\ chats[w].at = "count"
    /\ Chat(w, IF Cardinality(ActiveOf(chats[w].agent)) <= MaxChatSlots
               THEN [chats[w] EXCEPT !.at = "assign"]
               ELSE [chats[w] EXCEPT !.at = "route", !.agent = NoAgent])
    /\ UNCHANGED <<channels, social, sessions, messages, history, chatCount>>

\* and both count the sessions of the agent; a router whose agent is full goes
\* on with the next, a transfer (which has none left) ends.
CountActiveByAgent(w) ==
    /\ chats[w].at = "count"
    /\ Chat(w, IF Cardinality(ActiveOf(chats[w].agent)) < MaxChatSlots
               THEN [chats[w] EXCEPT !.at = "assign"]
               ELSE [chats[w] EXCEPT !.at = "route", !.agent = NoAgent])
    /\ UNCHANGED <<channels, social, sessions, messages, history, chatCount>>

\* Mutant: end_at is not among the columns written.
MutantUpdateSession(s, row) ==
    sessions' = Updated(sessions, s, [row EXCEPT !.ended = sessions[s].ended \/ @])

\* IMSessionRepo.Update: all columns of the copy but tenant, channel, visitor.
UpdateSession(s, row) == sessions' = Updated(sessions, s, row)

Assign(w) ==
    LET s == chats[w].id IN
    /\ chats[w].at = "assign"
    /\ UpdateSession(s, [chats[w].copy EXCEPT !.agent = chats[w].agent, !.status = "active"])
    /\ reopened' = IF sessions[s].status = "closed" THEN [reopened EXCEPT ![s] = @ + 1] ELSE reopened
    /\ Chat(w, NoChat)
    /\ UNCHANGED <<channels, social, messages, interactions, closedEvents, closes, late, chatCount>>

\* CloseSession: read, must not be closed yet,
\* Mutant: the status is not asked for.
MutantCloseSession(w, s) ==
    /\ s \in Ids(sessions)
    /\ ChatRead(w, "close", s, sessions[s])
    /\ UNCHANGED <<channels, social, sessions, messages, history>>

CloseSession(w, s) ==
    /\ s \in Ids(sessions) /\ sessions[s].status # "closed"
    /\ ChatRead(w, "close", s, sessions[s])
    /\ UNCHANGED <<channels, social, sessions, messages, history>>
\* written; then the two hooks and, once more, the handler itself record the
\* interaction (the handler's only with an agent) and raise the event.
ClosedBy(w) ==
    LET s == chats[w].id
        copy == chats[w].copy
    IN  /\ chats[w].at = "close"
        /\ UpdateSession(s, [copy EXCEPT !.status = "closed", !.ended = TRUE])
        /\ interactions' = [interactions EXCEPT ![s] =
               @ + IF ~copy.customer THEN 0 ELSE IF copy.agent = NoAgent THEN 1 ELSE 2]
        /\ closedEvents' = [closedEvents EXCEPT ![s] = @ + 2]
        /\ closes' = [closes EXCEPT ![s] = @ + 1]
        /\ Chat(w, NoChat)
        /\ UNCHANGED <<channels, social, messages, reopened, late, chatCount>>

\* SendMessage of the agents' and of the visitors' handler: read, not closed,
\* Mutant: the status is not asked for.
MutantSendMessage(w, s) ==
    /\ s \in Ids(sessions)
    /\ ChatRead(w, "message", s, sessions[s])
    /\ UNCHANGED <<channels, social, sessions, messages, history>>

SendMessage(w, s) ==
    /\ s \in Ids(sessions) /\ sessions[s].status # "closed"
    /\ ChatRead(w, "message", s, sessions[s])
    /\ UNCHANGED <<channels, social, sessions, messages, history>>
\* inserted. The message of a mail is followed by the routing.
InsertMessage(w) ==
    LET s == chats[w].id IN
    /\ chats[w].at \in {"message", "mail"}
    /\ messages' = [messages EXCEPT ![s] = @ + 1]
    /\ late' = IF sessions[s].status = "closed" THEN [late EXCEPT ![s] = @ + 1] ELSE late
    /\ Chat(w, IF chats[w].at = "mail" THEN Routing(s, chats[w].copy.grouped) ELSE NoChat)
    /\ UNCHANGED <<channels, social, sessions, interactions, closedEvents, closes, reopened, chatCount>>
\* Any statement can fail, and the request with it.
ChatFails(w) ==
    /\ chats[w].at \in {"create", "message", "mail", "count", "assign", "close"}
    /\ Chat(w, NoChat)
    /\ UNCHANGED <<channels, social, sessions, messages, history, chatCount>>

ChatStep(w) ==
    \/ \E grouped \in BOOLEAN, status \in {"active", "disabled"} : UpdateChannel(w, grouped, status)
    \/ UpdateConfig(w) \/ MarkVerified(w)
    \/ \E s \in Sessions :
          \/ \E t \in Tenants, b \in BOOLEAN : CreateSession(w, s, t, b) \/ ProcessInbound(w, s, t, b)
          \/ ProcessInboundMessage(w, s)
    \/ \E a \in ChatAgents : SkipMember(w, a) \/ AssignAgent(w, a)
    \/ RouteEnds(w) \/ CountActiveByAgent(w) \/ Assign(w) \/ ClosedBy(w)
    \/ InsertMessage(w) \/ ChatFails(w)

ChatBegin(w) ==
    \/ \E c \in Channels : ReadChannel(w, c) \/ ReadConfig(w, c)
    \/ \E c \in Channels, via \in {"widget", "mail", "social"} : ReadChannelFor(w, c, via)
    \/ \E s \in Sessions : CloseSession(w, s) \/ SendMessage(w, s)
                           \/ \E a \in ChatAgents : TransferSession(w, s, a)

ChatNext ==
    \/ \E c \in Channels : \/ \E t \in Tenants, grouped \in BOOLEAN : CreateChannel(t, c, grouped)
                           \/ CreateConfig(c) \/ DeleteConfig(c)
    \/ \E w \in ChatRequests : ChatBegin(w) \/ ChatStep(w)

ChatSpec == ChatInit /\ [][ChatNext]_chatVars

-----------------------------------------------------------------------------
ChatTypeOK ==
    /\ channels \in [Channels -> IMChannel \cup {NoRow}]
    /\ social \in [Channels -> SocialChannelConfig \cup {NoRow}]
    /\ sessions \in [Sessions -> IMSession \cup {NoRow}]
    /\ \A w \in ChatRequests : chats[w].agent \in ChatAgents \cup {NoAgent}
    /\ chatCount \in 0..MaxChats

W == Cardinality(ChatRequests)
About(s, where) == {w \in ChatRequests : chats[w].id = s /\ chats[w].at \in where}

\* The columns of a session agree, whoever writes a stale copy back: an active
\* session has an agent, a waiting one has none, and end_at is set exactly on
\* the closed ones, on those that a late routing opened again not.
SessionShape ==
    \A s \in Ids(sessions) :
        /\ sessions[s].status = "waiting" => sessions[s].agent = NoAgent
        /\ sessions[s].status = "active" => sessions[s].agent # NoAgent
        /\ sessions[s].ended <=> sessions[s].status = "closed"

\* The limit of maxChatSlots is read and used in two statements. An agent can
\* have more, but only by as many as there are requests that counted too early:
\* with those still to write, the sessions stay below maxChatSlots + W.
SlotsOvershoot ==
    \A a \in ChatAgents :
        Cardinality(ActiveOf(a))
          + Cardinality({w \in ChatRequests : chats[w].at = "assign" /\ chats[w].agent = a})
            < MaxChatSlots + W

\* A session is closed, and its hooks run, once for each request that read it
\* open: at most W times, and W times more for every write of a stale copy
\* that opens it again.
ClosesBounded ==
    \A s \in Sessions : closes[s] + Cardinality(About(s, {"close"})) <= W * (1 + reopened[s])

\* A closed session takes only the messages whose requests found it open.
LateMessagesBounded == \A s \in Sessions : late[s] <= (W - 1) * closes[s]
=============================================================================
