--------------------------- MODULE Administration ---------------------------
(***************************************************************************)
(* The tables that administrators keep through REST: a handler inserts a   *)
(* row, or reads one, changes its copy and writes the copy back, or        *)
(* deletes it. The tables differ in whose tenant a new row gets, in        *)
(* whether the handler checks that the row is the caller's, in how a body  *)
(* changes the copy, in the columns the UPDATE writes and in the           *)
(* operations there are. One table is modelled at a time: it is chosen     *)
(* from Tables, whose members are what each handler, service and           *)
(* repository says. A row has the column it is known by (a name, a code,   *)
(* a number) and one that stands for the others; 0 is a column's zero.     *)
(***************************************************************************)
EXTENDS Tenancy

CONSTANTS
    AdminTenants,
    Admins,         \* requests in progress
    RowIds,
    Values          \* what a column can hold

Columns == {"label", "body"}
AdminRow == [tenant : AdminTenants, label : Values, body : Values]

ASSUME AdministrationAssumption ==
    /\ IsFiniteSet(Admins)
    /\ NoRow \notin RowIds \cup AdminRow /\ "none" \notin RowIds
    /\ 0 \in Values

VARIABLES
    adminTable,     \* which table it is: a member of Tables, fixed
    rows,
    admin,          \* what each request is about to write
    gone,           \* rows that were deleted (history)
    coedited,       \* rows two requests worked on at a time (history)
    undone,         \* rows where a request changed a column it was not given (history)
    untold,         \* <<row, column>>: not what the answer to a request says (history)
    foreign         \* rows a caller of another tenant changed or deleted (history)

adminHistory == <<gone, coedited, undone, untold, foreign>>
adminVars == <<adminTable, rows, admin, adminHistory>>

NoEdit == [id |-> "none", row |-> NoRow, sent |-> {}, caller |-> "none", op |-> "none"]

-----------------------------------------------------------------------------
\* Repositories: the columns an UPDATE writes, and whether there is a DELETE.
\* Unless a handler says otherwise the caller's tenant is stored, the row is
\* not checked to be the caller's, and of a copy only what the body has is
\* changed.
Repo(writes, deletes) ==
    [writes |-> writes, takes |-> Columns, deletes |-> deletes,
     tenant |-> "caller", checked |-> FALSE, update |-> "patch"]

BreakReasonRepo     == Repo(Columns, TRUE)
DispositionCodeRepo == Repo(Columns, TRUE)
CallTagDefRepo      == Repo(Columns, TRUE)
AudioFileRepo       == [Repo({}, TRUE) EXCEPT !.update = "none"]
BusinessHoursRepo   == Repo(Columns, TRUE)
CarrierRepo         == Repo(Columns, FALSE)
SIPTrunkRepo        == Repo(Columns, FALSE)
PhoneNumberRepo     == Repo({"body"}, FALSE)
CallNumberTagRepo   == [Repo({}, TRUE) EXCEPT !.update = "none"]
AutoTagRuleRepo     == Repo(Columns, TRUE)
SIPTrunkGroupRepo   == Repo(Columns, FALSE)
RoutingRuleRepo     == Repo(Columns, TRUE)
DNCRepo             == [Repo({}, TRUE) EXCEPT !.update = "none"]
QuickReplyRepo      == Repo(Columns, TRUE)
ScreenPopConfigRepo == Repo(Columns, TRUE)
SmsConfigRepo       == Repo(Columns, TRUE)
WebhookConfigRepo   == Repo(Columns, TRUE)
CSATConfigRepo      == Repo(Columns, FALSE)
ASRHotwordsRepo     == Repo(Columns, TRUE)
AgentScriptRepo     == Repo(Columns, FALSE)
SessionInfoRepo     == Repo(Columns, FALSE)
CategoryRepo        == [Repo({}, FALSE) EXCEPT !.update = "none"]
ArticleRepo         == Repo(Columns, FALSE)
LLMModelConfigRepo  == Repo(Columns, TRUE)
EmployeeRepo        == Repo(Columns, FALSE)
SocialConfigRepo    == Repo(Columns, TRUE)
\* "body": the eight fields of TenantSettings that Upsert has no column for.
TenantSettingsRepo  == [Repo({"label"}, FALSE) EXCEPT !.update = "upsert"]
RingAnalysisRepo    == [Repo(Columns, FALSE) EXCEPT !.update = "upsert"]
FullDuplexRepo      == [Repo(Columns, FALSE) EXCEPT !.update = "upsert"]

\* Mutant: number_pool_ids and the other columns are left out of the UPDATE.
MutantCLIPolicyRepo == Repo({"label"}, FALSE)

CLIPolicyRepo == Repo(Columns, FALSE)

\* Handlers, and the services between them and the repositories.
FromBody(t) == [t EXCEPT !.tenant = "body"]
Guarded(t) == [t EXCEPT !.checked = TRUE, !.update = "replace"]
OnlyNew(t) == [t EXCEPT !.update = "none"]

BreakReasonHandler     == BreakReasonRepo
DispositionCodeHandler == DispositionCodeRepo
CallTagDefHandler      == CallTagDefRepo
AudioFileHandler       == AudioFileRepo
BusinessHoursHandler   == BusinessHoursRepo     \* its schedules have no handler
CarrierHandler         == OnlyNew(CarrierRepo)
SIPTrunkHandler        == SIPTrunkRepo
PhoneNumberHandler     == [PhoneNumberRepo EXCEPT !.takes = {"body"}]
CallNumberTagHandler   == CallNumberTagRepo
AutoTagRuleHandler     == AutoTagRuleRepo
TrunkGroupHandler      == FromBody(OnlyNew(SIPTrunkGroupRepo))
CLIPolicyHandler       == CLIPolicyRepo
RoutingRuleHandler     == RoutingRuleRepo
DNCHandler             == DNCRepo
QuickReplyHandler      == Guarded(QuickReplyRepo)
ScreenPopConfigHandler == Guarded(ScreenPopConfigRepo)
SmsConfigHandler       == Guarded(SmsConfigRepo)
WebhookConfigHandler   == Guarded(WebhookConfigRepo)
CSATHandler            == [FromBody(CSATConfigRepo) EXCEPT !.takes = {"body"}]
ASRHotwordsService     == ASRHotwordsRepo
ASRHotwordsHandler     == ASRHotwordsService
AgentScriptService     == AgentScriptRepo
AgentScriptHandler     == FromBody(AgentScriptService)
SessionInfoService     == SessionInfoRepo
SessionInfoHandler     == FromBody(SessionInfoService)
KnowledgeService       == {CategoryRepo, ArticleRepo}
KnowledgeHandler       == {FromBody(t) : t \in KnowledgeService}
LLMGatewayService      == LLMModelConfigRepo
LLMGatewayHandler      == LLMGatewayService
EmployeeService        == EmployeeRepo
EmployeeHandler        == EmployeeService
SocialChannelHandler   == FromBody(SocialConfigRepo)
TenantSettingsHandler  == TenantSettingsRepo
RingAnalysisHandler    == RingAnalysisRepo
FullDuplexHandler      == FullDuplexRepo

Tables ==
    {BreakReasonHandler, DispositionCodeHandler, CallTagDefHandler, AudioFileHandler,
     BusinessHoursHandler, CarrierHandler, SIPTrunkHandler, PhoneNumberHandler,
     CallNumberTagHandler, AutoTagRuleHandler, TrunkGroupHandler, CLIPolicyHandler,
     RoutingRuleHandler, DNCHandler, QuickReplyHandler, ScreenPopConfigHandler,
     SmsConfigHandler, WebhookConfigHandler, CSATHandler, ASRHotwordsHandler,
     AgentScriptHandler, SessionInfoHandler, LLMGatewayHandler, EmployeeHandler,
     SocialChannelHandler, TenantSettingsHandler, RingAnalysisHandler, FullDuplexHandler}
    \cup KnowledgeHandler

AdministrationInit ==
    /\ adminTable \in Tables
    /\ rows = [id \in RowIds |-> NoRow]
    /\ admin = [w \in Admins |-> NoEdit]
    /\ gone = {} /\ coedited = {} /\ undone = {} /\ untold = {} /\ foreign = {}

-----------------------------------------------------------------------------
\* A request of a caller of tenant t reads what it needs and makes its copy.
Compose(w, op, t, id, row, sent) ==
    /\ admin[w] = NoEdit
    /\ admin' = [admin EXCEPT ![w] = [id |-> id, row |-> row, sent |-> sent,
                                      caller |-> t, op |-> op]]
    /\ coedited' = IF \E v \in Admins : admin[v].id = id THEN coedited \cup {id}
                    ELSE coedited
    /\ UNCHANGED <<adminTable, rows, gone, undone, untold, foreign>>

\* u is the tenant the body has.
CreateRow(w, t, u, id, label, body) ==
    /\ adminTable.update # "upsert"
    /\ id \notin Ids(rows) \cup gone /\ ~\E v \in Admins : admin[v].id = id
    /\ Compose(w, "insert", t, id,
           [tenant |-> IF adminTable.tenant = "caller" THEN t ELSE u,
            label |-> label, body |-> body], Columns)

\* Mutant: the row is not checked to be the caller's.
MutantAdmitted(t, id) == id \in Ids(rows)

Admitted(t, id) == IF adminTable.checked THEN Owns(rows, t, id) ELSE id \in Ids(rows)

\* Mutant: a column the body does not have gets its zero.
MutantPatched(row, values, sent) ==
    [row EXCEPT !.label = IF "label" \in sent THEN values.label ELSE 0,
                !.body  = IF "body" \in sent THEN values.body ELSE 0]

\* Of a copy, the columns the body has are changed.
Patched(row, values, sent) ==
    [row EXCEPT !.label = IF "label" \in sent THEN values.label ELSE @,
                !.body  = IF "body" \in sent THEN values.body ELSE @]

UpdateRow(w, t, id, values, given) ==
    /\ Admitted(t, id)
    /\ \/ /\ adminTable.update = "patch"
          /\ given \subseteq adminTable.takes
          /\ Compose(w, "update", t, id, Patched(rows[id], values, given), given)
       \/ /\ adminTable.update = "replace"  \* a column the body does not have is zero
          /\ given = Columns
          /\ Compose(w, "update", t, id, Patched(rows[id], values, Columns), Columns)

\* Mutant: the request keeps the row it read, as a soft delete would.
MutantDeleteRow(w, t, id) ==
    /\ adminTable.deletes
    /\ adminTable.checked => Admitted(t, id)
    /\ Compose(w, "delete", t, id, rows[id], {})

\* An unchecked DELETE is sent whether there is such a row or not.
DeleteRow(w, t, id) ==
    /\ adminTable.deletes
    /\ adminTable.checked => Admitted(t, id)
    /\ Compose(w, "delete", t, id, NoRow, {})

-----------------------------------------------------------------------------
\* What the UPDATE of the table makes of a row.
Overwritten(old, new) ==
    [old EXCEPT !.label = IF "label" \in adminTable.writes THEN new.label ELSE @,
                !.body  = IF "body" \in adminTable.writes THEN new.body ELSE @]

\* Mutant: REPLACE INTO, which brings a deleted row back.
MutantUpdateStatement(id, new) ==
    Inserted(rows, id, IF id \in Ids(rows) THEN Overwritten(rows[id], new) ELSE new)

\* UPDATE ... WHERE id = ?: of a row that was deleted meanwhile it changes
\* nothing, and the request is answered as if it had.
UpdateStatement(id, new) ==
    Updated(rows, id, IF id \in Ids(rows) THEN Overwritten(rows[id], new) ELSE new)

Written(e) == CASE e.op = "insert" -> Inserted(rows, e.id, e.row)
                [] e.op = "update" -> UpdateStatement(e.id, e.row)
                [] e.op = "delete" -> Deleted(rows, e.id)

Note(set, id, condition) == IF condition THEN set \cup {id} ELSE set

\* Where the row differs from the answer.
Differing(id, row, answer) ==
    {<<id, c>> : c \in {d \in Columns \cup {"tenant"} : row # NoRow /\ row[d] # answer[d]}}

WriteRow(w) ==
    LET e == admin[w]  old == rows[e.id]  new == Written(e)[e.id]
    IN  /\ e # NoEdit
        /\ rows' = Written(e)
        /\ admin' = [admin EXCEPT ![w] = NoEdit]
        /\ gone' = Note(gone, e.id, old # NoRow /\ new = NoRow)
        /\ undone' = Note(undone, e.id, old # NoRow /\ new # NoRow
                                        /\ \E c \in Columns \ e.sent : new[c] # old[c])
        /\ untold' = untold \cup Differing(e.id, new, e.row)
        /\ foreign' = Note(foreign, e.id, old # NoRow /\ new # old /\ old.tenant # e.caller)
        /\ UNCHANGED <<adminTable, coedited>>

\* The statement fails, or the server stops before it.
AdminRequestFails(w) ==
    /\ admin[w] # NoEdit
    /\ admin' = [admin EXCEPT ![w] = NoEdit]
    /\ UNCHANGED <<adminTable, rows, adminHistory>>

\* INSERT ... ON DUPLICATE KEY UPDATE of the caller's own row: nothing is read,
\* a column that the statement leaves out keeps its value or has its default,
\* and the answer is the body.
UpsertRow(t, id, label, body) ==
    LET sent == [tenant |-> t, label |-> label, body |-> body]
        old == IF id \in Ids(rows) THEN rows[id] ELSE [tenant |-> t, label |-> 0, body |-> 0]
    IN
    /\ adminTable.update = "upsert"
    /\ id \in Ids(rows) => rows[id].tenant = t
    /\ \A i \in Ids(rows) : rows[i].tenant = t => i = id
    /\ rows' = [rows EXCEPT ![id] = Overwritten(old, sent)]
    /\ untold' = untold \cup Differing(id, Overwritten(old, sent), sent)
    /\ UNCHANGED <<adminTable, admin, gone, coedited, undone, foreign>>

AdministrationNext ==
    \/ \E w \in Admins, t \in AdminTenants, id \in RowIds :
          \/ \E u \in AdminTenants, label, body \in Values : CreateRow(w, t, u, id, label, body)
          \/ \E values \in [label : Values, body : Values], given \in SUBSET Columns :
                UpdateRow(w, t, id, values, given)
          \/ DeleteRow(w, t, id)
    \/ \E w \in Admins : WriteRow(w) \/ AdminRequestFails(w)
    \/ \E t \in AdminTenants, id \in RowIds, label, body \in Values : UpsertRow(t, id, label, body)

AdministrationSpec == AdministrationInit /\ [][AdministrationNext]_adminVars

-----------------------------------------------------------------------------
\* Type correctness of the table and of what the requests hold.
AdminTypeOK ==
    /\ adminTable \in Tables
    /\ rows \in [RowIds -> AdminRow \cup {NoRow}]
    /\ \A w \in Admins : admin[w] = NoEdit \/ (/\ admin[w].id \in RowIds
                                               /\ admin[w].row \in AdminRow \cup {NoRow}
                                               /\ admin[w].op = "delete" <=> admin[w].row = NoRow)
    /\ gone \cup coedited \cup undone \cup foreign \subseteq RowIds
    /\ untold \subseteq RowIds \X (Columns \cup {"tenant"})

\* A deleted row does not come back, though a request that read it before the
\* DELETE writes its copy after it.
DeletedStaysDeleted == gone \cap Ids(rows) = {}

\* A request takes back what another wrote to a column it was not itself given
\* only where the two worked on the row at a time: a whole row is written, and
\* nothing reads it again before.
UndoneOnlyWhereContested == undone \subseteq coedited

\* What a request answers with, the whole copy, is what the row then is: the
\* columns a handler takes from the body are among those its UPDATE writes. The
\* one exception is the settings of a tenant: the whole body is the answer,
\* and Upsert leaves eight of its fields out; no other column ever differs.
AnswersAreStored ==
    \A u \in untold : adminTable = TenantSettingsHandler /\ u[2] \notin adminTable.writes \cup {"tenant"}

\* Where a handler checks the tenant, no interleaving makes it write a row of
\* another tenant: the tenant of a row never changes between check and write.
CheckedRowsAreOwn == adminTable.checked => foreign = {}
=============================================================================
