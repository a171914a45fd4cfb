------------------------------- MODULE Ticket -------------------------------
(***************************************************************************)
(* Tickets, their templates and comments (domain/ticket). A request reads  *)
(* a row, changes its copy and writes the whole row back: a clerk is one   *)
(* such request, between its read and its write. Titles, descriptions,     *)
(* priorities and the categories' tree are left out; no operation deletes  *)
(* a row. TicketService.Transition has no route of its own: it is here as  *)
(* the service offers it.                                                  *)
(***************************************************************************)
EXTENDS Tenancy, Sequences

CONSTANTS
    Clerks,         \* requests in progress
    TicketIds,
    TemplateIds,
    Assignees       \* agents a ticket can be assigned to

Nobody == "nobody"
NoTemplate == "no template"

TicketStatus == {"open", "in_progress", "pending", "resolved", "closed"}

Ticket == [tenant : Tenants, status : TicketStatus, assignee : Assignees \cup {Nobody},
           template : TemplateIds \cup {NoTemplate}, resolved : BOOLEAN]

OnlineStatus == {"draft", "published", "offline"}
TicketTemplate == [tenant : Tenants, online : OnlineStatus]

ASSUME TicketAssumption ==
    /\ IsFiniteSet(Clerks)
    /\ NoRow \notin TicketIds \cup TemplateIds \cup Assignees \cup Ticket \cup TicketTemplate
    /\ Nobody \notin Assignees
    /\ NoTemplate \notin TemplateIds

VARIABLES
    tickets,
    templates,
    comments,       \* tickets with a comment
    clerk,          \* the write each request is about to make
    everPublished,  \* templates that were published at some time (history)
    overlapped,     \* tickets two requests worked on at a time (history)
    misled          \* tickets whose status left validTransitions (history)

ticketTables == <<tickets, templates, comments>>
ticketHistory == <<everPublished, overlapped, misled>>
ticketVars == <<ticketTables, clerk, ticketHistory>>

\* what a clerk holds
AtDesk == [table |-> "none", id |-> "none", row |-> NoRow, insert |-> FALSE]

TicketInit ==
    /\ tickets = [i \in TicketIds |-> NoRow]
    /\ templates = [i \in TemplateIds |-> NoRow]
    /\ comments = {}
    /\ clerk = [w \in Clerks |-> AtDesk]
    /\ everPublished = {} /\ overlapped = {} /\ misled = {}

validTransitions ==
    [s \in TicketStatus |->
        CASE s = "open" -> {"in_progress", "pending"}
          [] s = "in_progress" -> {"pending", "resolved"}
          [] s = "pending" -> {"in_progress", "resolved"}
          [] s = "resolved" -> {"closed", "in_progress"}
          [] s = "closed" -> {}]

-----------------------------------------------------------------------------
\* Requests: a read that decides what will be written, and the write.

Holds(w, table, id) == clerk[w].table = table /\ clerk[w].id = id

Decide(w, table, id, row, insert) ==
    /\ clerk[w] = AtDesk
    /\ clerk' = [clerk EXCEPT ![w] =
                    [table |-> table, id |-> id, row |-> row, insert |-> insert]]
    /\ overlapped' = IF table = "ticket" /\ \E v \in Clerks : Holds(v, table, id)
                     THEN overlapped \cup {id} ELSE overlapped
    /\ UNCHANGED <<ticketTables, everPublished, misled>>

\* A snowflake id no row and no request has.
FreshId(table, ids, id) == id \notin ids /\ ~\E v \in Clerks : Holds(v, table, id)

\* The tenant is the body's.
CreateTemplate(w, t, id) ==
    /\ FreshId("template", Ids(templates), id)
    /\ Decide(w, "template", id, [tenant |-> t, online |-> "draft"], TRUE)

Rewrite(w, id, online) ==
    /\ id \in Ids(templates)
    /\ Decide(w, "template", id, [templates[id] EXCEPT !.online = online], FALSE)

\* A published template is not published again.
PublishTemplate(w, id) == templates[id] # NoRow /\ templates[id].online # "published"
                  /\ Rewrite(w, id, "published")

Offline(w, id) == Rewrite(w, id, "offline")

\* Name, fields and flow graph change: the rest is written as it was read.
UpdateTemplate(w, id) == id \in Ids(templates) /\ Rewrite(w, id, templates[id].online)

\* Mutant: a draft can be used.
MutantPublishedTemplate(id) == id = NoTemplate \/ id \in Ids(templates)

PublishedTemplate(id) ==
    id = NoTemplate \/ (id \in Ids(templates) /\ templates[id].online = "published")

\* TicketService.Create: the tenant is the body's, or the caller's; that the
\* template is of that tenant is not checked.
CreateTicket(w, t, id, m) ==
    /\ FreshId("ticket", Ids(tickets), id)
    /\ PublishedTemplate(m)
    /\ Decide(w, "ticket", id, [tenant |-> t, status |-> "open", assignee |-> Nobody,
                                template |-> m, resolved |-> FALSE], TRUE)

UpdateTicket(w, id) == id \in Ids(tickets) /\ Decide(w, "ticket", id, tickets[id], FALSE)

AssignTicket(w, id, a) ==
    id \in Ids(tickets) /\ Decide(w, "ticket", id, [tickets[id] EXCEPT !.assignee = a], FALSE)

\* Mutant: the table of transitions is not looked up.
MutantTransition(w, id, new) ==
    /\ id \in Ids(tickets)
    /\ Decide(w, "ticket", id,
           [tickets[id] EXCEPT !.status = new, !.resolved = @ \/ new = "resolved"], FALSE)

\* Mutant: resolved_at is not set.
MutantResolve(w, id, new) ==
    /\ id \in Ids(tickets)
    /\ new \in validTransitions[tickets[id].status]
    /\ Decide(w, "ticket", id, [tickets[id] EXCEPT !.status = new], FALSE)

\* A ticket that is reopened keeps its resolved_at.
Transition(w, id, new) ==
    /\ id \in Ids(tickets)
    /\ new \in validTransitions[tickets[id].status]
    /\ Decide(w, "ticket", id,
           [tickets[id] EXCEPT !.status = new, !.resolved = @ \/ new = "resolved"], FALSE)

\* Mutant: the table has no foreign key.
MutantAddComment(id) ==
    /\ id \notin comments
    /\ comments' = comments \cup {id}
    /\ UNCHANGED <<tickets, templates, clerk, ticketHistory>>

\* The ticket is not looked up: the foreign key of ticket_comments is all
\* that rejects a comment on a ticket that does not exist.
AddComment(id) ==
    /\ id \in Ids(tickets) \ comments
    /\ comments' = comments \cup {id}
    /\ UNCHANGED <<tickets, templates, clerk, ticketHistory>>

-----------------------------------------------------------------------------
Put(table, e) == IF e.insert THEN Inserted(table, e.id, e.row)
                 ELSE Updated(table, e.id, e.row)

Outside(old, new) == old # NoRow /\ old.status # new.status
                     /\ new.status \notin validTransitions[old.status]

\* INSERT or UPDATE of tickets: id, tenant and template are not written by an
\* UPDATE, and no request changes them in its copy.
WriteTicket(w) ==
    /\ clerk[w].table = "ticket"
    /\ tickets' = Put(tickets, clerk[w])
    /\ misled' = IF Outside(tickets[clerk[w].id], clerk[w].row)
                 THEN misled \cup {clerk[w].id} ELSE misled
    /\ clerk' = [clerk EXCEPT ![w] = AtDesk]
    /\ UNCHANGED <<templates, comments, everPublished, overlapped>>

WriteTemplate(w) ==
    /\ clerk[w].table = "template"
    /\ templates' = Put(templates, clerk[w])
    /\ everPublished' = IF clerk[w].row.online = "published"
                        THEN everPublished \cup {clerk[w].id} ELSE everPublished
    /\ clerk' = [clerk EXCEPT ![w] = AtDesk]
    /\ UNCHANGED <<tickets, comments, overlapped, misled>>

\* The statement fails, or the server stops before it: the request is lost.
TicketRequestFails(w) ==
    /\ clerk[w] # AtDesk
    /\ clerk' = [clerk EXCEPT ![w] = AtDesk]
    /\ UNCHANGED <<ticketTables, ticketHistory>>

TicketRequest(w) ==
    \/ \E id \in TicketIds :
          \/ \E t \in Tenants, m \in TemplateIds \cup {NoTemplate} : CreateTicket(w, t, id, m)
          \/ UpdateTicket(w, id)
          \/ \E a \in Assignees : AssignTicket(w, id, a)
          \/ \E new \in TicketStatus : Transition(w, id, new)
    \/ \E id \in TemplateIds :
          \/ \E t \in Tenants : CreateTemplate(w, t, id)
          \/ PublishTemplate(w, id) \/ Offline(w, id) \/ UpdateTemplate(w, id)

TicketNext ==
    \/ \E w \in Clerks : TicketRequest(w) \/ WriteTicket(w) \/ WriteTemplate(w)
                         \/ TicketRequestFails(w)
    \/ \E id \in TicketIds : AddComment(id)

TicketSpec == TicketInit /\ [][TicketNext]_ticketVars

-----------------------------------------------------------------------------
\* Type correctness of the tables, of what the requests hold and of the history.
TicketTypeOK ==
    /\ tickets \in [TicketIds -> Ticket \cup {NoRow}]
    /\ templates \in [TemplateIds -> TicketTemplate \cup {NoRow}]
    /\ comments \subseteq Ids(tickets)
    /\ \A w \in Clerks :
          \/ clerk[w] = AtDesk
          \/ clerk[w].table = "ticket" /\ clerk[w].id \in TicketIds /\ clerk[w].row \in Ticket
          \/ clerk[w].table = "template" /\ clerk[w].id \in TemplateIds
                                         /\ clerk[w].row \in TicketTemplate
    /\ everPublished \subseteq TemplateIds
    /\ overlapped \subseteq TicketIds /\ misled \subseteq TicketIds

\* A ticket that is resolved or closed has its resolved_at, also when requests
\* wrote stale rows over each other (status and time are written together).
ResolvedHasTime ==
    \A id \in Ids(tickets) : tickets[id].status \in {"resolved", "closed"} => tickets[id].resolved

\* A ticket's template was published at some time: Create checked it, although
\* it may have been taken offline before the INSERT and ever since.
TemplateWasPublished ==
    \A id \in Ids(tickets) : tickets[id].template \in everPublished \cup {NoTemplate}

\* A ticket's status leaves validTransitions (a closed ticket is open again)
\* only where two requests worked on the ticket at the same time: nothing but
\* a whole row that was read before another request's write can do that.
JumpsOnlyWhereOverlapped == misled \subseteq overlapped
=============================================================================
