------------------------------- MODULE WsHub -------------------------------
(***************************************************************************)
(* The WebSocket hubs: agenthub (keyed by agent), imhub (by chat session)  *)
(* and transcripthub (by call). They are the same program: a map of        *)
(* clients under an RWMutex, a buffered channel per client and, for every  *)
(* connection, a reader and a writer goroutine. In the hub of chat         *)
(* sessions the reader sends on what it receives; in that of transcripts a *)
(* text with a sensitive word raises an alert. The variable hubKind says   *)
(* which of them a behaviour is about.                                     *)
(*                                                                         *)
(* A broadcast holds the read lock while it goes through the clients of    *)
(* its key; several broadcasts do so at the same time.                     *)
(***************************************************************************)
EXTENDS Integers, Sequences, FiniteSets

CONSTANTS
    Sockets,      \* connections
    HubKeys,    \* agents, sessions or calls
    Casters,    \* goroutines that broadcast
    SendCap,    \* the capacity of Client.Send, 256
    MaxCasts    \* bound: broadcasts

ASSUME HubAssumption ==
    /\ Sockets \cap Casters = {}
    /\ SendCap \in Nat \ {0}
    /\ MaxCasts \in Nat

VARIABLES
    hubKind,     \* "agent", "im" or "transcript"
    clients,     \* Hub.clients: key -> set of clients
    conns,       \* the connections and their goroutines
    casts,       \* the broadcast a goroutine is in
    arrived,     \* what the peer of a connection was sent, in order (history)
    dropped,     \* events that met a full channel, per connection (history)
    due,         \* events broadcast to the key of an open connection (history)
    alerts,      \* calls of the AlertHook
    castCount

hubVars == <<hubKind, clients, conns, casts, arrived, dropped, due, alerts, castCount>>

\* reader: the loop of ReadMessage runs; peer: writes to the peer succeed.
Client == [at : {"none", "open", "leaving", "left"}, key : HubKeys, send : Seq(1..MaxCasts),
           chanClosed : BOOLEAN, reader : BOOLEAN, peer : {"up", "gone"}]
NoClient == [at |-> "none", key |-> CHOOSE k \in HubKeys : TRUE, send |-> <<>>,
             chanClosed |-> FALSE, reader |-> FALSE, peer |-> "up"]
\* A broadcast with todo = {} still holds the lock; n = 0: none.
NoCast == [n |-> 0, todo |-> {}]
Sources == Casters \cup Sockets

HubInit ==
    /\ hubKind \in {"agent", "im", "transcript"}
    /\ clients = [k \in HubKeys |-> {}]
    /\ conns = [c \in Sockets |-> NoClient]
    /\ casts = [b \in Sources |-> NoCast]
    /\ arrived = [c \in Sockets |-> <<>>]
    /\ dropped = [c \in Sockets |-> {}]
    /\ due = [c \in Sockets |-> {}]
    /\ alerts = 0
    /\ castCount = 0

ReadLocked == \E b \in Sources : casts[b].n # 0

\* Mutant: the clients a key has already are forgotten.
MutantRegister(c, k) ==
    /\ ~ReadLocked
    /\ clients' = [clients EXCEPT ![k] = {c}]

Register(c, k) ==
    /\ ~ReadLocked
    /\ clients' = [clients EXCEPT ![k] = @ \cup {c}]

\* ServeWS: the upgrade, the registration and the start of both goroutines.
\* The key comes from the request: the claims of a token or a parameter,
Connect(c, k) ==
    /\ conns[c].at = "none"
    /\ Register(c, k)
    /\ conns' = [conns EXCEPT ![c] = [NoClient EXCEPT !.at = "open", !.key = k, !.reader = TRUE]]
    /\ UNCHANGED <<hubKind, casts, arrived, dropped, due, alerts, castCount>>
AgentServeWS(c, k) == hubKind = "agent" /\ Connect(c, k)
ImServeWS(c, k) == hubKind = "im" /\ Connect(c, k)
TranscriptServeWS(c, k) == hubKind = "transcript" /\ Connect(c, k)

PeerLeaves(c) ==
    /\ conns[c].at = "open" /\ conns[c].peer = "up"
    /\ conns' = [conns EXCEPT ![c].peer = "gone"]
    /\ UNCHANGED <<hubKind, clients, casts, arrived, dropped, due, alerts, castCount>>
\* The reader ends with the peer, with the connection, or after 120 s without
\* a pong; the writer is not told.
ReaderEnds(c) ==
    /\ conns[c].reader /\ casts[c].n = 0
    /\ conns' = [conns EXCEPT ![c].reader = FALSE]
    /\ UNCHANGED <<hubKind, clients, casts, arrived, dropped, due, alerts, castCount>>

\* A broadcast takes the read lock and goes through the clients of the key.
BeginCast(b, k) ==
    /\ casts[b].n = 0
    /\ castCount < MaxCasts
    /\ castCount' = castCount + 1
    /\ casts' = [casts EXCEPT ![b] = [n |-> castCount', todo |-> clients[k]]]
    /\ due' = [c \in Sockets |-> IF conns[c].at = "open" /\ conns[c].key = k
                               THEN due[c] \cup {castCount'} ELSE due[c]]
    /\ UNCHANGED <<hubKind, clients, conns, arrived, dropped>>
SendToAgent(b, k) == hubKind = "agent" /\ BeginCast(b, k) /\ UNCHANGED alerts
BroadcastEvent(b, k) == hubKind = "im" /\ BeginCast(b, k) /\ UNCHANGED alerts
\* Mutant: one alert for each of the words, here two.
MutantTranscriptBroadcast(b, k, sensitive) ==
    /\ hubKind = "transcript"
    /\ BeginCast(b, k)
    /\ alerts' = alerts + (IF sensitive THEN 2 ELSE 0)

\* A sensitive word is looked for before the text is redacted;
\* the first one found is the only one that is reported.
TranscriptBroadcast(b, k, sensitive) ==
    /\ hubKind = "transcript"
    /\ BeginCast(b, k)
    /\ alerts' = alerts + (IF sensitive THEN 1 ELSE 0)
\* The reader of a chat connection broadcasts what its peer sent, to the
\* session that the message names or to its own.
ReadMessage(c, k) ==
    /\ hubKind = "im"
    /\ conns[c].reader /\ conns[c].peer = "up"
    /\ BeginCast(c, k)
    /\ UNCHANGED alerts

\* Mutant: a sender waits for room in the channel.
MutantSendOne(b, c) ==
    /\ c \in casts[b].todo
    /\ Len(conns[c].send) < SendCap
    /\ casts' = [casts EXCEPT ![b].todo = @ \ {c}]
    /\ conns' = [conns EXCEPT ![c].send = Append(@, casts[b].n)]
    /\ UNCHANGED <<hubKind, clients, arrived, dropped, due, alerts, castCount>>

\* select: the event goes into the channel, or is dropped when that is full.
SendOne(b, c) ==
    LET full == Len(conns[c].send) >= SendCap IN
    /\ c \in casts[b].todo
    /\ casts' = [casts EXCEPT ![b].todo = @ \ {c}]
    /\ conns' = IF full THEN conns ELSE [conns EXCEPT ![c].send = Append(@, casts[b].n)]
    /\ dropped' = IF full THEN [dropped EXCEPT ![c] = @ \cup {casts[b].n}] ELSE dropped
    /\ UNCHANGED <<hubKind, clients, arrived, due, alerts, castCount>>
EndCast(b) ==
    /\ casts[b].n # 0 /\ casts[b].todo = {}
    /\ casts' = [casts EXCEPT ![b] = NoCast]
    /\ UNCHANGED <<hubKind, clients, conns, arrived, dropped, due, alerts, castCount>>

\* The writer: a message to the peer,
WriteMessage(c) ==
    /\ conns[c].at = "open" /\ conns[c].peer = "up" /\ conns[c].send # <<>>
    /\ conns' = [conns EXCEPT ![c].send = Tail(@)]
    /\ arrived' = [arrived EXCEPT ![c] = Append(@, Head(conns[c].send))]
    /\ UNCHANGED <<hubKind, clients, casts, dropped, due, alerts, castCount>>
\* or the message or the ping of the ticker that fails: the writer returns,
WriteFails(c) ==
    /\ conns[c].at = "open" /\ conns[c].peer = "gone"
    /\ conns' = [conns EXCEPT ![c].at = "leaving"]
    /\ UNCHANGED <<hubKind, clients, casts, arrived, dropped, due, alerts, castCount>>

\* Mutant: the channel is closed without the lock.
MutantUnregister(c) ==
    /\ conns[c].at = "leaving"
    /\ clients' = [clients EXCEPT ![conns[c].key] = @ \ {c}]
    /\ conns' = [conns EXCEPT ![c].at = "left", ![c].chanClosed = TRUE]
    /\ UNCHANGED <<hubKind, casts, arrived, dropped, due, alerts, castCount>>
\* and its deferred Unregister takes the client from the map and closes the
\* channel, under the lock.
Unregister(c) ==
    /\ conns[c].at = "leaving" /\ ~ReadLocked
    /\ clients' = [clients EXCEPT ![conns[c].key] = @ \ {c}]
    /\ conns' = [conns EXCEPT ![c].at = "left", ![c].chanClosed = TRUE]
    /\ UNCHANGED <<hubKind, casts, arrived, dropped, due, alerts, castCount>>

HubNext ==
    \/ \E c \in Sockets, k \in HubKeys : \/ AgentServeWS(c, k) \/ ImServeWS(c, k) \/ TranscriptServeWS(c, k)
                                       \/ ReadMessage(c, k)
    \/ \E c \in Sockets : PeerLeaves(c) \/ ReaderEnds(c) \/ WriteMessage(c) \/ WriteFails(c) \/ Unregister(c)
    \/ \E b \in Casters, k \in HubKeys : \/ SendToAgent(b, k) \/ BroadcastEvent(b, k)
                                         \/ \E word \in BOOLEAN : TranscriptBroadcast(b, k, word)
    \/ \E b \in Sources : EndCast(b) \/ \E c \in Sockets : SendOne(b, c)

HubSpec == HubInit /\ [][HubNext]_hubVars

-----------------------------------------------------------------------------
HubTypeOK ==
    /\ clients \in [HubKeys -> SUBSET Sockets]
    /\ \A c \in Sockets : /\ conns[c].at \in {"none", "open", "leaving", "left"}
                        /\ Len(conns[c].send) <= SendCap
    /\ \A b \in Sources : casts[b].todo \subseteq Sockets
    /\ alerts \in 0..castCount /\ castCount \in 0..MaxCasts

\* No goroutine sends on a closed channel, which would end the process, and
\* no channel is closed twice: a client that a broadcast still has to reach is
\* one whose channel is open, although its connection may be gone already.
NoSendOnClosed ==
    \A b \in Sources : \A c \in casts[b].todo : ~conns[c].chanClosed

Got(c) == LET all == arrived[c] \o conns[c].send IN {all[i] : i \in DOMAIN all}
Coming(c) == {casts[b].n : b \in {x \in Sources : c \in casts[x].todo}}

\* Every event for the key of an open connection has reached it, is on its
\* way to it, or met a full channel; the clients that come and go beside it
\* under the same key do not take it off the map.
EveryClientReached ==
    \A c \in Sockets : conns[c].at = "open" => due[c] = Got(c) \cup Coming(c) \cup dropped[c]

\* A connection whose peer is gone leaves the map, however busy the hub is:
\* every ping fails, the lock keeps no writer waiting for ever.
HubFairness ==
    /\ \A c \in Sockets : WF_hubVars(WriteFails(c)) /\ SF_hubVars(Unregister(c))
    /\ \A b \in Sources : WF_hubVars(EndCast(b) \/ \E c \in Sockets : SendOne(b, c))
GoneClientsLeave ==
    \A c \in Sockets : conns[c].peer = "gone" ~> \A k \in HubKeys : c \notin clients[k]
=============================================================================
